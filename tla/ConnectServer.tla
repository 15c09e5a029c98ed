---------------------------- MODULE ConnectServer ----------------------------
(***************************************************************************)
(* server/connectrpc/server.go: the life of a ConnectWebServer.  Here the     *)
(* shutter comes first: Shutdown gives it a nil error at once, ignoring its   *)
(* timeout, and the callback that Launch registered with OnTerminating closes *)
(* the http.Server.  A Shutdown that comes before the registration is lost.   *)
(***************************************************************************)
CONSTANTS
    Callers,    \* goroutines that call Shutdown
    HttpConns,  \* client connections over HTTP/1.1
    H2Conns     \* client connections over HTTP/2

ConstantsOK == HttpConns \cap H2Conns = {}

Conns == HttpConns \cup H2Conns

VARIABLES
    transport,  \* what SecureTLSConfig and IsPlainText ask for
    launch,     \* where the Launch goroutine is
    listener,   \* the TCP listener
    callback,   \* OnTerminating's callback: "none", "registered" or "lost"
    inShutdown, \* http.Server: Close was called
    shutter,    \* progress of the shutter
    cause,      \* the error it was given, "none" before
    caller,     \* where each caller of Shutdown is
    conn,       \* state of each client connection
    hijacked    \* connections the h2c handler took from the http.Server

vars == <<transport, launch, listener, callback, inShutdown, shutter, cause, caller,
          conn, hijacked>>
clients == <<conn, hijacked>>

TypeOK ==
    /\ transport \in {"tls", "plain", "neither"}
    /\ launch \in {"idle", "listening", "register", "serve", "serving", "ending", "done", "panicked"}
    /\ listener \in {"none", "open", "closed"}
    /\ callback \in {"none", "registered", "lost"}
    /\ inShutdown \in BOOLEAN
    /\ shutter \in {"running", "terminating", "closing", "terminated"}
    /\ cause \in {"none", "nil", "listen", "logger", "closed", "serve"}
    /\ caller \in [Callers -> {"idle", "running", "returned"}]
    /\ conn \in [Conns -> {"none", "idle", "active", "closed"}]
    /\ hijacked \subseteq H2Conns

Init ==
    /\ transport \in {"tls", "plain", "neither"}
    /\ launch = "idle"
    /\ listener = "none"
    /\ callback = "none"
    /\ inShutdown = FALSE
    /\ shutter = "running"
    /\ cause = "none"
    /\ caller = [c \in Callers |-> "idle"]
    /\ conn = [k \in Conns |-> "none"]
    /\ hijacked = {}

Open(k) == conn[k] \in {"idle", "active"}

\* The connections http.Server.Close knows of: a hijacked one is forgotten.
Tracked == {k \in Conns \ hijacked : Open(k)}

-----------------------------------------------------------------------------
(* The shutter: the first Shutdown(err) runs the callbacks of OnTerminating,  *)
(* then those of OnTerminated, in the goroutine of its caller.  The others    *)
(* return at once.                                                            *)

ShutterShutdown(e) ==
    IF shutter = "running"
    THEN shutter' = "terminating" /\ cause' = e
    ELSE UNCHANGED <<shutter, cause>>

\* Mutant: the callback closes a server that serves, and no other.
RunCallbacks_IfServing ==
    /\ shutter = "terminating"
    /\ IF callback = "registered" /\ launch = "serving"
       THEN shutter' = "closing" /\ inShutdown' = TRUE /\ listener' = "closed"
       ELSE shutter' = "terminated" /\ UNCHANGED <<inShutdown, listener>>
    /\ UNCHANGED <<transport, launch, callback, cause, caller, clients>>

\* The callback calls Close, which closes the listener of a Serve in progress;
\* one that is registered later is never called.
RunCallbacks ==
    /\ shutter = "terminating"
    /\ IF callback = "registered"
       THEN /\ shutter' = "closing"
            /\ inShutdown' = TRUE
            /\ listener' = IF launch = "serving" THEN "closed" ELSE listener
       ELSE shutter' = "terminated" /\ UNCHANGED <<inShutdown, listener>>
    /\ UNCHANGED <<transport, launch, callback, cause, caller, clients>>

\* Mutant: Close leaves the connections that serve a request alone.
CloseConns_SparesActive ==
    /\ shutter = "closing"
    /\ launch # "serving"
    /\ shutter' = "terminated"
    /\ conn' = [k \in Conns |-> IF k \in Tracked /\ conn[k] = "idle" THEN "closed" ELSE conn[k]]
    /\ UNCHANGED <<transport, launch, listener, callback, inShutdown, cause, caller, hijacked>>

\* Mutant: the callback calls http.Server.Shutdown, with no deadline.
CloseConns_Drains ==
    /\ shutter = "closing"
    /\ launch # "serving"
    /\ \A k \in Tracked : conn[k] = "idle"
    /\ shutter' = "terminated"
    /\ conn' = [k \in Conns |-> IF k \in Tracked THEN "closed" ELSE conn[k]]
    /\ UNCHANGED <<transport, launch, listener, callback, inShutdown, cause, caller, hijacked>>

\* Close waits for Serve, then closes the connections it knows of.
CloseConns ==
    /\ shutter = "closing"
    /\ launch # "serving"
    /\ shutter' = "terminated"
    /\ conn' = [k \in Conns |-> IF k \in Tracked THEN "closed" ELSE conn[k]]
    /\ UNCHANGED <<transport, launch, listener, callback, inShutdown, cause, caller, hijacked>>

-----------------------------------------------------------------------------
(* Launch                                                                    *)

LaunchListen ==
    /\ launch = "idle"
    /\ \/ /\ launch' = "listening"
          /\ listener' = "open"
          /\ UNCHANGED <<shutter, cause>>
       \/ /\ launch' = "ending"
          /\ ShutterShutdown("listen")
          /\ UNCHANGED listener
    /\ UNCHANGED <<transport, callback, inShutdown, caller, clients>>

LaunchErrorLogger ==
    /\ launch = "listening"
    /\ \/ launch' = "register" /\ UNCHANGED <<shutter, cause>>
       \/ launch' = "ending" /\ ShutterShutdown("logger")
    /\ UNCHANGED <<transport, listener, callback, inShutdown, caller, clients>>

\* OnTerminating; too late when the shutter has run its callbacks.
LaunchRegister ==
    /\ launch = "register"
    /\ launch' = "serve"
    /\ callback' = IF shutter \in {"running", "terminating"} THEN "registered" ELSE "lost"
    /\ UNCHANGED <<transport, listener, inShutdown, shutter, cause, caller, clients>>

\* Serve or ServeTLS: a server already closed returns ErrServerClosed at once.
LaunchServe ==
    /\ launch = "serve"
    /\ transport # "neither"
    /\ IF inShutdown
       THEN /\ launch' = "ending"
            /\ listener' = "closed"
            /\ ShutterShutdown("closed")
       ELSE /\ launch' = "serving"
            /\ UNCHANGED <<listener, shutter, cause>>
    /\ UNCHANGED <<transport, callback, inShutdown, caller, clients>>

\* Without a transport Launch panics.
LaunchPanics ==
    /\ launch = "serve"
    /\ transport = "neither"
    /\ launch' = "panicked"
    /\ UNCHANGED <<transport, listener, callback, inShutdown, shutter, cause, caller, clients>>

\* Serve returns ErrServerClosed once Close has begun, else the permanent
\* failure of Accept.
ServeReturns ==
    /\ launch = "serving"
    /\ launch' = "ending"
    /\ listener' = "closed"
    /\ ShutterShutdown(IF inShutdown THEN "closed" ELSE "serve")
    /\ UNCHANGED <<transport, callback, inShutdown, caller, clients>>

\* Launch runs the callbacks when its error was the first one.
LaunchReturns ==
    /\ launch = "ending"
    /\ cause # "nil" => shutter = "terminated"
    /\ launch' = "done"
    /\ UNCHANGED <<transport, listener, callback, inShutdown, shutter, cause, caller, clients>>

-----------------------------------------------------------------------------
(* Shutdown                                                                  *)

\* The timeout is ignored.  All calls but the first return at once.
Shutdown(c) ==
    /\ caller[c] = "idle"
    /\ ShutterShutdown("nil")
    /\ caller' = [caller EXCEPT ![c] = IF shutter = "running" THEN "running" ELSE "returned"]
    /\ UNCHANGED <<transport, launch, listener, callback, inShutdown, clients>>

ShutdownReturns(c) ==
    /\ caller[c] = "running"
    /\ shutter = "terminated"
    /\ caller' = [caller EXCEPT ![c] = "returned"]
    /\ UNCHANGED <<transport, launch, listener, callback, inShutdown, shutter, cause, clients>>

-----------------------------------------------------------------------------
(* The clients                                                               *)

Accept(k) ==
    /\ launch = "serving"
    /\ listener = "open"
    /\ conn[k] = "none"
    /\ conn' = [conn EXCEPT ![k] = "idle"]
    /\ UNCHANGED <<transport, launch, listener, callback, inShutdown, shutter, cause, caller, hijacked>>

\* Without TLS the h2c handler hijacks a connection that speaks HTTP/2.
RequestStart(k) ==
    /\ conn[k] = "idle"
    /\ conn' = [conn EXCEPT ![k] = "active"]
    /\ hijacked' = IF k \in H2Conns /\ transport = "plain" THEN hijacked \cup {k} ELSE hijacked
    /\ UNCHANGED <<transport, launch, listener, callback, inShutdown, shutter, cause, caller>>

RequestEnd(k) ==
    /\ conn[k] = "active"
    /\ conn' = [conn EXCEPT ![k] = IF inShutdown /\ k \notin hijacked THEN "closed" ELSE "idle"]
    /\ UNCHANGED <<transport, launch, listener, callback, inShutdown, shutter, cause, caller, hijacked>>

Disconnect(k) ==
    /\ Open(k)
    /\ conn' = [conn EXCEPT ![k] = "closed"]
    /\ UNCHANGED <<transport, launch, listener, callback, inShutdown, shutter, cause, caller, hijacked>>

-----------------------------------------------------------------------------
LaunchRuns ==
    \/ LaunchErrorLogger \/ LaunchRegister \/ LaunchServe \/ LaunchPanics
    \/ (ServeReturns /\ inShutdown) \/ LaunchReturns

ShutterRuns == RunCallbacks \/ CloseConns

Next ==
    /\ launch # "panicked"
    /\ \/ LaunchListen \/ LaunchErrorLogger \/ LaunchRegister \/ LaunchServe
       \/ LaunchPanics \/ ServeReturns \/ LaunchReturns
       \/ RunCallbacks \/ CloseConns
       \/ \E c \in Callers : Shutdown(c) \/ ShutdownReturns(c)
       \/ \E k \in Conns : Accept(k) \/ RequestStart(k) \/ RequestEnd(k) \/ Disconnect(k)

\* Goroutines run; Accept need not fail and clients owe nothing.
Fairness ==
    /\ WF_vars(launch # "panicked" /\ LaunchRuns)
    /\ WF_vars(launch # "panicked" /\ ShutterRuns)

SafetySpec == Init /\ [][Next]_vars

Spec == SafetySpec /\ Fairness

-----------------------------------------------------------------------------
\* Once the shutter has terminated a server whose callback was registered in
\* time, the http.Server has no connection left and gets none, wherever Launch
\* was and however many requests were running (server.go:159-199).
TerminatedMeansClosed ==
    shutter = "terminated" /\ callback = "registered" => Tracked = {}

\* Unlike StandardServer, OnTerminated never gets the ErrServerClosed of a
\* shutdown: the shutter has its error before it closes the server, and keeps
\* it when Launch passes on what Serve returned (server.go:159-161, 183-199).
ClosedIsNotAFailure == cause # "closed"

\* What always holds of the server: the types, what a terminated server left and the
\* error it gives (server.go:159-199).
ServerInv == TypeOK /\ TerminatedMeansClosed /\ ClosedIsNotAFailure

\* A shutter that was told to shut down gets to OnTerminated, with requests
\* running and though the callback waits for the Serve of the goroutine that
\* may itself be in the shutter (server.go:159-199).
ShutterTerminates ==
    shutter # "running" ~> shutter = "terminated" \/ launch = "panicked"

\* A Shutdown whose callback was registered in time ends Launch, even when it
\* comes before Serve (server.go:183-199).
RegisteredShutdownEndsLaunch ==
    callback = "registered" /\ shutter # "running" ~> launch \in {"done", "panicked"}
=============================================================================
