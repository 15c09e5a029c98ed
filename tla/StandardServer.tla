--------------------------- MODULE StandardServer ---------------------------
(***************************************************************************)
(* server/standard/server.go: the life of a StandardServer, from NewServer  *)
(* through Launch to the calls of Shutdown.  One goroutine runs Launch, any  *)
(* number of goroutines call Shutdown, and clients open connections and run  *)
(* requests on them.  They meet in the httpServer field, which Launch writes *)
(* and Shutdown reads without a lock, and in the net/http server, the gRPC   *)
(* server and the shutter, three libraries modelled from their use here.     *)
(***************************************************************************)
CONSTANTS
    ForceCallers,   \* goroutines that call Shutdown(0)
    GraceCallers,   \* goroutines that call Shutdown(d), d # 0
    HttpConns,      \* client connections that carry HTTP/1.1 requests (/healthz)
    GrpcConns       \* client connections that carry gRPC, over HTTP/2

ASSUME CallersAssumption == ForceCallers \cap GraceCallers = {}
ASSUME ConnsAssumption == HttpConns \cap GrpcConns = {}

Callers == ForceCallers \cup GraceCallers
Conns == HttpConns \cup GrpcConns

VARIABLES
    options,        \* the options NewServer received
    launch,         \* where the Launch goroutine is
    listener,       \* the TCP listener
    httpServer,     \* whether the httpServer field is still nil
    inShutdown,     \* http.Server: Shutdown was called
    grpcServer,     \* grpc.Server: serving, or stopped for good
    stopper,        \* the goroutine of GracefulStop of each timed caller
    crashed,        \* whether a panic ended the process
    shutter,        \* progress of the shutter
    cause,          \* the error the shutter was given, "none" before
    caller,         \* where each caller of Shutdown is
    conn,           \* state of each client connection
    hijacked        \* connections the h2c handler took from the http.Server

vars == <<options, launch, listener, httpServer, inShutdown, grpcServer,
          stopper, crashed, shutter, cause, caller, conn, hijacked>>
grpc == <<grpcServer, stopper, crashed>>
libs == <<inShutdown, grpc>>
clients == <<conn, hijacked>>

Options == [health : {"none", "grpc", "http"},         \* HealthCheck, HealthCheckOver
            transport : {"plain", "tls", "neither"}]   \* IsPlainText, SecureTLSConfig

Causes == {"listen", "logger", "config", "closed", "serve"}

TypeOK ==
    /\ options \in Options
    /\ launch \in {"idle", "listening", "create", "serve", "serving", "terminating", "done"}
    /\ listener \in {"none", "open", "closed"}
    /\ httpServer \in {"nil", "set"}
    /\ inShutdown \in BOOLEAN
    /\ grpcServer \in {"serving", "stopped"}
    /\ stopper \in [GraceCallers -> {"none", "begun", "ended"}]
    /\ crashed \in BOOLEAN
    /\ shutter \in {"running", "terminating", "terminated"}
    /\ cause \in Causes \cup {"none"}
    /\ caller \in [Callers -> {"idle", "viaHTTP", "viaGRPC", "closing", "draining",
                               "drained", "expired", "grpcSelect", "grpcStopping",
                               "grpcStopped"}]
    /\ conn \in [Conns -> {"none", "new", "idle", "active", "ending", "closed"}]
    /\ hijacked \subseteq GrpcConns

Init ==
    /\ options \in Options
    /\ launch = "idle"
    /\ listener = "none"
    /\ httpServer = "nil"
    /\ inShutdown = FALSE
    /\ grpcServer = "serving"
    /\ stopper = [c \in GraceCallers |-> "none"]
    /\ crashed = FALSE
    /\ shutter = "running"
    /\ cause = "none"
    /\ caller = [c \in Callers |-> "idle"]
    /\ conn = [k \in Conns |-> "none"]
    /\ hijacked = {}

-----------------------------------------------------------------------------
(* The options, as Launch reads them.                                       *)

HealthOverHTTP == options.health = "http"

\* Only the branch with the health handler looks at SecureTLSConfig.
ServesTLS == HealthOverHTTP /\ options.transport = "tls"

Open(k) == conn[k] \in {"new", "idle", "active", "ending"}

\* The connections http.Server.Shutdown knows of: a hijacked one is forgotten.
Tracked == {k \in Conns \ hijacked : Open(k)}

\* The RPCs grpc.Server knows of, those included that Stop has closed and whose
\* ServeHTTP has yet to return ("ending").
RPCs == {k \in GrpcConns : conn[k] \in {"active", "ending"}}

-----------------------------------------------------------------------------
(* The shutter: Shutdown(err) runs once, keeps the first error and leaves    *)
(* the callbacks of OnTerminated to LaunchTerminated.                        *)

ShutterShutdown(e) ==
    IF shutter = "running"
    THEN shutter' = "terminating" /\ cause' = e
    ELSE UNCHANGED <<shutter, cause>>

-----------------------------------------------------------------------------
(* Launch                                                                    *)

LaunchListen ==
    /\ launch = "idle"
    /\ \/ /\ listener' = "open"
          /\ launch' = "listening"
          /\ UNCHANGED <<shutter, cause>>
       \/ /\ launch' = "terminating"
          /\ ShutterShutdown("listen")
          /\ UNCHANGED listener
    /\ UNCHANGED <<options, httpServer, libs, caller, clients>>

\* Mutant: Launch returns without telling the shutter.
LaunchErrorLogger_Silent ==
    /\ launch = "listening"
    /\ launch' \in {"create", "done"}
    /\ UNCHANGED <<options, listener, httpServer, libs, shutter, cause, caller, clients>>

\* The listener stays open when the error logger cannot be created.
LaunchErrorLogger ==
    /\ launch = "listening"
    /\ \/ launch' = "create" /\ UNCHANGED <<shutter, cause>>
       \/ launch' = "terminating" /\ ShutterShutdown("logger")
    /\ UNCHANGED <<options, listener, httpServer, libs, caller, clients>>

\* The unsynchronised write that Shutdown races with.
LaunchCreateHTTPServer ==
    /\ launch = "create"
    /\ launch' = "serve"
    /\ httpServer' = "set"
    /\ UNCHANGED <<options, listener, libs, shutter, cause, caller, clients>>

\* Serve or ServeTLS: a server already shut down closes the listener and
\* returns ErrServerClosed at once.
LaunchServe ==
    /\ launch = "serve"
    /\ ~(HealthOverHTTP /\ options.transport = "neither")
    /\ IF inShutdown
       THEN /\ launch' = "terminating"
            /\ listener' = "closed"
            /\ ShutterShutdown("closed")
       ELSE /\ launch' = "serving"
            /\ UNCHANGED <<listener, shutter, cause>>
    /\ UNCHANGED <<options, httpServer, libs, caller, clients>>

LaunchInvalidConfig ==
    /\ launch = "serve"
    /\ HealthOverHTTP /\ options.transport = "neither"
    /\ launch' = "terminating"
    /\ ShutterShutdown("config")
    /\ UNCHANGED <<options, listener, httpServer, libs, caller, clients>>

\* What Serve returns: ErrServerClosed once Shutdown has begun, else a
\* permanent failure of Accept; never nil.  Mutant: every error is the first.
ServeError_AnyIsClosed == "closed"
ServeError == IF inShutdown THEN "closed" ELSE "serve"

\* Mutant: ErrServerClosed is filtered out and Launch returns.
ServeReturns_SkipsClosed ==
    /\ launch = "serving"
    /\ listener' = "closed"
    /\ IF inShutdown
       THEN launch' = "done" /\ UNCHANGED <<shutter, cause>>
       ELSE launch' = "terminating" /\ ShutterShutdown("serve")
    /\ UNCHANGED <<options, httpServer, libs, caller, clients>>

ServeReturns ==
    /\ launch = "serving"
    /\ launch' = "terminating"
    /\ listener' = "closed"
    /\ ShutterShutdown(ServeError)
    /\ UNCHANGED <<options, httpServer, libs, caller, clients>>

\* The shutter runs the OnTerminated callbacks, then Launch returns.
LaunchTerminated ==
    /\ launch = "terminating"
    /\ launch' = "done"
    /\ shutter' = "terminated"
    /\ UNCHANGED <<options, listener, httpServer, libs, cause, caller, clients>>

-----------------------------------------------------------------------------
(* Shutdown                                                                  *)

\* Mutant: Shutdown starts with the shutter, before the servers.
ShutdownRead_ShutterFirst(c) ==
    /\ caller[c] = "idle"
    /\ caller' = [caller EXCEPT ![c] = IF httpServer = "set" THEN "viaHTTP" ELSE "viaGRPC"]
    /\ ShutterShutdown("closed")
    /\ UNCHANGED <<options, launch, listener, httpServer, libs, clients>>

\* The read of the httpServer field; what it returned is used a step later.
ShutdownRead(c) ==
    /\ caller[c] = "idle"
    /\ caller' = [caller EXCEPT ![c] = IF httpServer = "set" THEN "viaHTTP" ELSE "viaGRPC"]
    /\ UNCHANGED <<options, launch, listener, httpServer, libs, shutter, cause, clients>>

\* shutdownViaHTTP: http.Server.Shutdown marks the server and closes the
\* listener of a Serve in progress.
ShutdownViaHTTP(c) ==
    /\ caller[c] = "viaHTTP"
    /\ caller' = [caller EXCEPT ![c] = "closing"]
    /\ inShutdown' = TRUE
    /\ listener' = IF launch = "serving" THEN "closed" ELSE listener
    /\ UNCHANGED <<options, launch, httpServer, grpc, shutter, cause, clients>>

\* One pass of http.Server.Shutdown's loop, after Serve returned: close idle
\* connections (a new one counts as idle after 5 s), end when none is left.
HttpShutdownPoll(c) ==
    /\ caller[c] \in {"closing", "draining"}
    /\ launch # "serving"
    /\ \E stale \in SUBSET {k \in Tracked : conn[k] = "new"} :
         LET closing == stale \cup {k \in Tracked : conn[k] = "idle"} IN
         /\ conn' = [k \in Conns |-> IF k \in closing THEN "closed" ELSE conn[k]]
         /\ caller' = [caller EXCEPT ![c] =
                         IF Tracked \subseteq closing THEN "drained" ELSE "draining"]
    /\ UNCHANGED <<options, launch, listener, httpServer, libs, shutter, cause, hijacked>>

\* A zero timeout is no deadline.  Mutant: the test is inverted.
HasDeadline_Inverted(c) == c \in ForceCallers
HasDeadline(c) == c \in GraceCallers

\* Mutant: the error of http.Server.Shutdown is dropped.
HttpShutdownExpires_AsSuccess(c) ==
    /\ caller[c] = "draining"
    /\ HasDeadline(c)
    /\ caller' = [caller EXCEPT ![c] = "drained"]
    /\ UNCHANGED <<options, launch, listener, httpServer, libs, shutter, cause, clients>>

\* The deadline of shutdownViaHTTP's context, which the loop looks at between
\* two passes: the error is logged, no more.
HttpShutdownExpires(c) ==
    /\ caller[c] = "draining"
    /\ HasDeadline(c)
    /\ caller' = [caller EXCEPT ![c] = "expired"]
    /\ UNCHANGED <<options, launch, listener, httpServer, libs, shutter, cause, clients>>

\* What becomes of a connection whose request ended: a server being shut
\* down keeps none alive but those the h2c handler took.
AfterRequest(k, taken) == IF inShutdown /\ k \notin taken THEN "closed" ELSE "idle"

\* grpc.Server.Stop closes the RPCs it finds and waits until none is left ...
GrpcStop(c) ==
    /\ caller' = [caller EXCEPT ![c] = "grpcStopping"]
    /\ conn' = [k \in Conns |-> IF k \in RPCs THEN "ending" ELSE conn[k]]
    /\ UNCHANGED <<options, launch, listener, httpServer, libs, shutter, cause, hijacked>>

\* ... each of them ends once its ServeHTTP has seen that ...
RpcCloses(k) ==
    /\ conn[k] = "ending"
    /\ conn' = [conn EXCEPT ![k] = AfterRequest(k, hijacked)]
    /\ UNCHANGED <<options, launch, listener, httpServer, libs, shutter, cause, caller, hijacked>>

\* ... and only then does it refuse new ones: an RPC that comes while it waits
\* is served, and Stop waits for it too.
GrpcStopped(c) ==
    /\ caller[c] = "grpcStopping"
    /\ RPCs = {}
    /\ grpcServer' = "stopped"
    /\ caller' = [caller EXCEPT ![c] = "grpcStopped"]
    /\ UNCHANGED <<options, launch, listener, httpServer, inShutdown, stopper, crashed,
                   shutter, cause, clients>>

\* shutdownViaGRPC with a zero timeout.
ShutdownGrpcStop(c) ==
    /\ caller[c] = "viaGRPC"
    /\ c \in ForceCallers
    /\ GrpcStop(c)

\* shutdownViaGRPC otherwise: GracefulStop in a goroutine, then a select.
ShutdownGrpcGraceful(c) ==
    /\ caller[c] = "viaGRPC"
    /\ c \in GraceCallers
    /\ stopper' = [stopper EXCEPT ![c] = "begun"]
    /\ caller' = [caller EXCEPT ![c] = "grpcSelect"]
    /\ UNCHANGED <<options, launch, listener, httpServer, inShutdown, grpcServer, crashed,
                   shutter, cause, clients>>

\* The goroutine.  RPCs reach this gRPC server through ServeHTTP, whose transport
\* panics when it is asked to drain; without RPCs there is nothing to drain.
GracefulStop(c) ==
    /\ stopper[c] = "begun"
    /\ IF RPCs = {}
       THEN /\ grpcServer' = "stopped"
            /\ stopper' = [stopper EXCEPT ![c] = "ended"]
            /\ UNCHANGED crashed
       ELSE crashed' = TRUE /\ UNCHANGED <<grpcServer, stopper>>
    /\ UNCHANGED <<options, launch, listener, httpServer, inShutdown, shutter, cause,
                   caller, clients>>

\* The select of shutdownViaGRPC: GracefulStop returned ...
GrpcDrained(c) ==
    /\ caller[c] = "grpcSelect"
    /\ stopper[c] = "ended"
    /\ caller' = [caller EXCEPT ![c] = "grpcStopped"]
    /\ UNCHANGED <<options, launch, listener, httpServer, libs, shutter, cause, clients>>

\* ... or the timeout fired, and the server is stopped by force.
GrpcDrainExpires(c) ==
    /\ caller[c] = "grpcSelect"
    /\ GrpcStop(c)

-----------------------------------------------------------------------------
(* The clients                                                               *)

Accept(k) ==
    /\ launch = "serving"
    /\ listener = "open"
    /\ conn[k] = "none"
    /\ conn' = [conn EXCEPT ![k] = "new"]
    /\ UNCHANGED <<options, launch, listener, httpServer, libs, shutter, cause, caller, hijacked>>

\* Mutant: the h2c handler hijacks HTTP/1.1 connections too.
RequestStart_HijacksAll(k) ==
    /\ conn[k] \in {"new", "idle"}
    /\ hijacked' = IF ServesTLS THEN hijacked ELSE hijacked \cup {k}
    /\ conn' = [conn EXCEPT ![k] =
                  IF k \in GrpcConns /\ grpcServer = "stopped"
                  THEN AfterRequest(k, hijacked') ELSE "active"]
    /\ UNCHANGED <<options, launch, listener, httpServer, libs, shutter, cause, caller>>

\* Mutant: HTTP/2 connections of a TLS server are hijacked too.
RequestStart_HijacksTLS(k) ==
    /\ conn[k] \in {"new", "idle"}
    /\ hijacked' = IF k \in GrpcConns THEN hijacked \cup {k} ELSE hijacked
    /\ conn' = [conn EXCEPT ![k] =
                  IF k \in GrpcConns /\ grpcServer = "stopped"
                  THEN AfterRequest(k, hijacked') ELSE "active"]
    /\ UNCHANGED <<options, launch, listener, httpServer, libs, shutter, cause, caller>>

\* A request arrives.  On a plain-text server the h2c handler hijacks a
\* connection that speaks HTTP/2.  A gRPC server that stopped takes no RPC.
RequestStart(k) ==
    /\ conn[k] \in {"new", "idle"}
    /\ hijacked' = IF k \in GrpcConns /\ ~ServesTLS THEN hijacked \cup {k} ELSE hijacked
    /\ conn' = [conn EXCEPT ![k] =
                  IF k \in GrpcConns /\ grpcServer = "stopped"
                  THEN AfterRequest(k, hijacked') ELSE "active"]
    /\ UNCHANGED <<options, launch, listener, httpServer, libs, shutter, cause, caller>>

RequestEnd(k) ==
    /\ conn[k] = "active"
    /\ conn' = [conn EXCEPT ![k] = AfterRequest(k, hijacked)]
    /\ UNCHANGED <<options, launch, listener, httpServer, libs, shutter, cause, caller, hijacked>>

Disconnect(k) ==
    /\ Open(k)
    /\ conn' = [conn EXCEPT ![k] = "closed"]
    /\ UNCHANGED <<options, launch, listener, httpServer, libs, shutter, cause, caller, hijacked>>

-----------------------------------------------------------------------------
LaunchRuns ==
    \/ LaunchErrorLogger \/ LaunchCreateHTTPServer \/ LaunchServe
    \/ LaunchInvalidConfig \/ LaunchTerminated

ShutdownRuns(c) ==
    \/ ShutdownViaHTTP(c) \/ HttpShutdownPoll(c) \/ HttpShutdownExpires(c)
    \/ ShutdownGrpcStop(c) \/ GrpcStopped(c) \/ ShutdownGrpcGraceful(c)
    \/ GrpcDrained(c) \/ GrpcDrainExpires(c)

Client(k) == Accept(k) \/ RequestStart(k) \/ RequestEnd(k) \/ RpcCloses(k) \/ Disconnect(k)

Next ==
    /\ ~crashed
    /\ \/ LaunchListen \/ LaunchRuns \/ ServeReturns
       \/ \E c \in Callers : ShutdownRead(c) \/ ShutdownRuns(c)
       \/ \E c \in GraceCallers : GracefulStop(c)
       \/ \E k \in Conns : Client(k)

\* While the process lives, the Go scheduler runs the goroutines and timers fire.
\* Nothing obliges a program to call Launch or Shutdown, Accept to fail, or a
\* client to move.
Fairness ==
    /\ WF_vars(~crashed /\ LaunchRuns)
    /\ WF_vars(~crashed /\ ServeReturns /\ inShutdown)
    /\ \A c \in Callers : WF_vars(~crashed /\ ShutdownRuns(c))
    /\ \A c \in GraceCallers : WF_vars(~crashed /\ GracefulStop(c))
    /\ \A k \in GrpcConns : WF_vars(~crashed /\ RpcCloses(k))

SafetySpec == Init /\ [][Next]_vars

Spec == SafetySpec /\ Fairness

-----------------------------------------------------------------------------
(* What holds.                                                               *)

Seen(c) == caller[c] \in {"closing", "draining", "drained", "expired"}
Returned(c) == caller[c] \in {"drained", "expired", "grpcStopped"}

\* Once a Shutdown has returned without error there is no connection left, and
\* never will be, whatever Launch, the clients and other callers were doing:
\* none at all of a TLS server, and of a plain-text server none but HTTP/2
\* connections (server.go:343-348).  Those, the usual ones of gRPC, stay open with
\* their RPCs: the http.Server has forgotten them (WaitsForActiveConnections).
GracefulMeansDrained ==
    (\E c \in Callers : caller[c] = "drained") =>
        \A k \in Conns : Open(k) => k \in GrpcConns /\ ~ServesTLS

\* Every way out of Launch goes through the shutter, with an error that says
\* why, so that OnTerminated always reports the end of the server; and only
\* the end of Launch does (server.go:128-192).
LaunchReports ==
    /\ launch = "done" <=> shutter = "terminated"
    /\ shutter = "running" <=> cause = "none"
    /\ shutter # "running" => launch \in {"terminating", "done"}

\* ErrServerClosed is reported only when a Shutdown found the httpServer field
\* set and got as far as closing it (server.go:247-248).
ClosedOnlyByShutdown ==
    cause = "closed" => \E c \in Callers : Seen(c)

\* A server that began to terminate, for whatever reason, takes no connection,
\* and neither does one whose HTTP shutdown has begun (server.go:343).
NothingAcceptedAtTheEnd ==
    [][(shutter # "running" \/ \E c \in Callers : Seen(c)) =>
          \A k \in Conns : conn[k] = "none" => conn'[k] = "none"]_vars

\* A Shutdown that found the httpServer field set ends in OnTerminated if the
\* program calls Launch at all, even when the server had not begun to serve
\* (server.go:163, 170, 189), unless the panic of another call ends the process.
SeenShutdownTerminates ==
    \A c \in Callers : caller[c] = "viaHTTP" ~> shutter = "terminated" \/ crashed

\* On the HTTP path a Shutdown with a timeout returns whatever the clients do, one
\* without a timeout if no client keeps a request open on a connection of the
\* http.Server for ever (server.go:327-349).
ViaHTTPReturns ==
    /\ \A c \in GraceCallers : caller[c] = "viaHTTP" ~> Returned(c) \/ crashed
    /\ (\A k \in Conns : []<>(k \in hijacked \/ conn[k] \notin {"active", "ending"})) =>
           \A c \in ForceCallers : caller[c] = "viaHTTP" ~> Returned(c) \/ crashed

\* On the gRPC path even Stop waits for an RPC that came too late for it to close:
\* the call returns if the clients leave off (server.go:254-282).
ViaGRPCReturns ==
    (\A k \in GrpcConns : <>[](conn[k] # "active")) =>
        \A c \in Callers : caller[c] = "viaGRPC" ~> Returned(c) \/ crashed

\* Shutdown returns, on either path and as far as the clients let it, or else the
\* GracefulStop of a timed call ends the process (server.go:246-282, 327-349).
ShutdownReturns == ViaHTTPReturns /\ ViaGRPCReturns

\* Seen from outside the server is a ServerLifecycle that gives up the connections
\* of HTTP/2 that the h2c handler takes.
Lifecycle == INSTANCE ServerLifecycle WITH
    Callers <- Callers,
    Conns <- Conns,
    MayGiveUp <- GrpcConns,
    phase <- IF shutter # "running" THEN "down"
             ELSE IF inShutdown THEN "stopping"
             ELSE IF launch = "serving" THEN "up" ELSE "created",
    open <- {k \in Conns : Open(k)},
    givenUp <- hijacked,
    reason <- cause,
    drained <- {c \in Callers : caller[c] = "drained"}

\* The server keeps the promises of ServerLifecycle, which are those of
\* server/interface.go but for what it gives up (server.go:128-349).
LifecycleSpec == Lifecycle!Spec

-----------------------------------------------------------------------------
(* What the documentation says, and the code does not do.                    *)

\* server/interface.go:28-30: "the server will wait for all active connections to
\* be closed before terminating".  A Shutdown that reports success leaves the RPCs
\* of a plain-text server running: http.Server.Shutdown knows nothing of the
\* connections that the h2c handler took (server.go:150, 184, 343-348).
WaitsForActiveConnections ==
    (\E c \in Callers : caller[c] = "drained") => \A k \in Conns : conn[k] # "active"

\* server/interface.go:32-33: "If not all connection are closed within the
\* given timeout, the server will force shutdown."  shutdownViaHTTP logs the
\* expired deadline and leaves the connections alone (server.go:343-345).
ForcedAfterTimeout ==
    (\E c \in Callers : caller[c] = "expired") => Tracked = {}

\* server/interface.go:21-23: Launch blocks "until the server is terminated by
\* a call to Shutdown()".  A Shutdown that reads httpServer before Launch sets
\* it stops the gRPC server only (server.go:247-251): Launch serves for ever.
ShutdownEndsLaunch ==
    \A c \in Callers : (launch # "idle" /\ caller[c] # "idle") ~> launch = "done" \/ crashed

\* server/standard/server.go:76: "WithSecure(...) => Starts a TLS HTTP2
\* endpoint".  Without a health check over HTTP the branch at
\* server.go:181-191 serves plain text.
SecureServesTLS ==
    (launch = "serving" /\ options.transport = "tls") => ServesTLS
=============================================================================
