------------------------------- MODULE Health -------------------------------
(***************************************************************************)
(* The health of a server as clients see it.  StandardServer.healthCheck      *)
(* looks at the shutter, then asks the program; HealthHandler answers over    *)
(* HTTP with what it returned, HealthGRPCHandler over gRPC (Check) or as a    *)
(* stream (Watch) that polls and sends what changed.  ConnectWebServer has    *)
(* the same two steps for its HTTP handler only: the package connectrpc's copy *)
(* of HealthGRPCHandler is given the program's check itself and knows nothing *)
(* of a shutter.  It also starts its streams differently.                    *)
(***************************************************************************)
CONSTANTS
    Probes,         \* clients that ask once in a while
    Watchers,       \* clients of Watch, one stream each
    Checks          \* what the program's HealthCheck may return

Results == [isReady : BOOLEAN, out : {"nil", "value", "unmarshalable"}, err : BOOLEAN]

ASSUME ChecksAssumption == Checks \subseteq Results

Clients == Probes \cup Watchers

VARIABLES
    handler,        \* the package whose handlers the clients ask
    asks,           \* whom each probe asks: HealthHandler, or Check over gRPC
    app,            \* what the program's HealthCheck function returns now
    terminating,    \* the shutter's IsTerminating
    pc,             \* where the handler of each client is
    result,         \* what its call of healthCheck returned, NotReady between calls
    reply,          \* what each probe got last
    current,        \* currentStatus of each stream
    sent,           \* the last message of each stream, "nothing" before
    cancelled       \* the streams whose context is done

vars == <<handler, asks, app, terminating, pc, result, reply, current, sent, cancelled>>

\* What healthCheck returns once the server is terminating.
NotReady == [isReady |-> FALSE, out |-> "nil", err |-> FALSE]

Statuses == {"UNKNOWN", "SERVICE_UNKNOWN", "SERVING", "NOT_SERVING"}
Bodies == {"none", "out", "error:{}", "is_ready:true", "is_ready:false"}

\* Mutant: the streams start as those of the other package.
InitialStatus_Swapped == IF handler = "connectrpc" THEN "SERVICE_UNKNOWN" ELSE "UNKNOWN"
InitialStatus == IF handler = "server" THEN "SERVICE_UNKNOWN" ELSE "UNKNOWN"

TypeOK ==
    /\ handler \in {"server", "connectrpc"}
    /\ asks \in [Probes -> {"http", "grpc"}]
    /\ app \in Checks
    /\ terminating \in BOOLEAN
    /\ pc \in [Clients -> {"idle", "wait", "checking", "answer", "ended"}]
    /\ result \in [Clients -> Results]
    /\ reply \in [Probes -> [code : {"none", "200", "503", "OK", "error"},
                             body : Bodies \cup Statuses]]
    /\ current \in [Watchers -> Statuses]
    /\ sent \in [Watchers -> Statuses \cup {"nothing"}]
    /\ cancelled \subseteq Watchers

Init ==
    /\ handler \in {"server", "connectrpc"}
    /\ asks \in [Probes -> {"http", "grpc"}]
    /\ app \in Checks
    /\ terminating = FALSE
    /\ pc = [c \in Clients |-> "idle"]
    /\ result = [c \in Clients |-> NotReady]
    /\ reply = [p \in Probes |-> [code |-> "none", body |-> "none"]]
    /\ current = [w \in Watchers |-> InitialStatus]
    /\ sent = [w \in Watchers |-> "nothing"]
    /\ cancelled = {}

-----------------------------------------------------------------------------
(* healthCheck                                                               *)

\* Where the handler of a client stands when it calls healthCheck.
Calls(c) == pc[c] = IF c \in Watchers THEN "wait" ELSE "idle"

\* What the handler of a client calls: healthCheck, which has a shutter to look
\* at, or the program's function itself.
LooksAtShutter(c) == handler = "server" \/ (c \in Probes /\ asks[c] = "http")

\* Mutant: the shutter is not looked at.
BeginCheck_IgnoresShutter(c) ==
    /\ Calls(c)
    /\ pc' = [pc EXCEPT ![c] = "checking"]
    /\ UNCHANGED <<handler, asks, app, terminating, result, reply, current, sent, cancelled>>

\* The shutter is looked at first, where there is one ...
BeginCheck(c) ==
    /\ Calls(c)
    /\ IF terminating /\ LooksAtShutter(c)
       THEN /\ pc' = [pc EXCEPT ![c] = "answer"]
            /\ result' = [result EXCEPT ![c] = NotReady]
       ELSE /\ pc' = [pc EXCEPT ![c] = "checking"]
            /\ UNCHANGED result
    /\ UNCHANGED <<handler, asks, app, terminating, reply, current, sent, cancelled>>

\* ... the program is asked later.
RunCheck(c) ==
    /\ pc[c] = "checking"
    /\ pc' = [pc EXCEPT ![c] = "answer"]
    /\ result' = [result EXCEPT ![c] = app]
    /\ UNCHANGED <<handler, asks, app, terminating, reply, current, sent, cancelled>>

-----------------------------------------------------------------------------
(* Answers                                                                   *)

\* Mutant: no body is chosen for a check that is not ready.
Body_NoDefault(r) ==
    CASE r.out = "value" /\ ~r.err -> "out"
      [] r.err -> "error:{}"
      [] OTHER -> IF r.isReady THEN "is_ready:true" ELSE "null"

\* json.Marshal of the error interface finds no exported field: {"error":{}}.
\* An out that does not marshal is replaced by an error of that shape.
Body(r) ==
    CASE r.out = "value" /\ ~r.err -> "out"
      [] r.err \/ r.out = "unmarshalable" -> "error:{}"
      [] OTHER -> IF r.isReady THEN "is_ready:true" ELSE "is_ready:false"

AnswerHTTP(p) ==
    /\ pc[p] = "answer"
    /\ asks[p] = "http"
    /\ pc' = [pc EXCEPT ![p] = "idle"]
    /\ result' = [result EXCEPT ![p] = NotReady]
    /\ reply' = [reply EXCEPT ![p] = [code |-> IF result[p].isReady THEN "200" ELSE "503",
                                      body |-> Body(result[p])]]
    /\ UNCHANGED <<handler, asks, app, terminating, current, sent, cancelled>>

HealthStatus(r) ==
    IF r.err THEN "SERVICE_UNKNOWN" ELSE IF r.isReady THEN "SERVING" ELSE "NOT_SERVING"

\* Check, and List, which wraps the same status.
AnswerGRPC(p) ==
    /\ pc[p] = "answer"
    /\ asks[p] = "grpc"
    /\ pc' = [pc EXCEPT ![p] = "idle"]
    /\ result' = [result EXCEPT ![p] = NotReady]
    /\ reply' = [reply EXCEPT ![p] =
                    IF result[p].err THEN [code |-> "error", body |-> "none"]
                    ELSE [code |-> "OK", body |-> HealthStatus(result[p])]]
    /\ UNCHANGED <<handler, asks, app, terminating, current, sent, cancelled>>

-----------------------------------------------------------------------------
(* Watch                                                                     *)

OpenStream(w) ==
    /\ pc[w] = "idle"
    /\ pc' = [pc EXCEPT ![w] = "wait"]
    /\ UNCHANGED <<handler, asks, app, terminating, result, reply, current, sent, cancelled>>

\* The client goes away; the handler sees it the next time it waits.
CancelStream(w) ==
    /\ pc[w] \in {"wait", "checking", "answer"}
    /\ cancelled' = cancelled \cup {w}
    /\ UNCHANGED <<handler, asks, app, terminating, pc, result, reply, current, sent>>

EndStream(w) ==
    /\ pc[w] = "wait"
    /\ w \in cancelled
    /\ pc' = [pc EXCEPT ![w] = "ended"]
    /\ UNCHANGED <<handler, asks, app, terminating, result, reply, current, sent, cancelled>>

\* Mutant: only the news that the server is ready are sent.
SendStatus_OnlyReady(w) ==
    /\ pc[w] = "answer"
    /\ pc' = [pc EXCEPT ![w] = "wait"]
    /\ current' = [current EXCEPT ![w] = HealthStatus(result[w])]
    /\ sent' = IF result[w].isReady THEN [sent EXCEPT ![w] = HealthStatus(result[w])] ELSE sent
    /\ result' = [result EXCEPT ![w] = NotReady]
    /\ UNCHANGED <<handler, asks, app, terminating, reply, cancelled>>

\* Send when the status changed.  A Send can fail once the client is gone.
SendStatus(w) ==
    /\ pc[w] = "answer"
    /\ LET status == HealthStatus(result[w]) IN
       \/ /\ status = current[w]
          /\ pc' = [pc EXCEPT ![w] = "wait"]
          /\ UNCHANGED <<current, sent>>
       \/ /\ status # current[w]
          /\ current' = [current EXCEPT ![w] = status]
          /\ \/ /\ sent' = [sent EXCEPT ![w] = status]
                /\ pc' = [pc EXCEPT ![w] = "wait"]
             \/ /\ w \in cancelled
                /\ pc' = [pc EXCEPT ![w] = "ended"]
                /\ UNCHANGED sent
    /\ result' = [result EXCEPT ![w] = NotReady]
    /\ UNCHANGED <<handler, asks, app, terminating, reply, cancelled>>

-----------------------------------------------------------------------------
AppChanges ==
    /\ app' \in Checks
    /\ UNCHANGED <<handler, asks, terminating, pc, result, reply, current, sent, cancelled>>

Terminate ==
    /\ terminating' = TRUE
    /\ UNCHANGED <<handler, asks, app, pc, result, reply, current, sent, cancelled>>

Polls(w) == BeginCheck(w) \/ RunCheck(w) \/ SendStatus(w)

Next ==
    \/ AppChanges \/ Terminate
    \/ \E c \in Clients : BeginCheck(c) \/ RunCheck(c)
    \/ \E p \in Probes : AnswerHTTP(p) \/ AnswerGRPC(p)
    \/ \E w \in Watchers : OpenStream(w) \/ CancelStream(w) \/ EndStream(w) \/ SendStatus(w)

SafetySpec == Init /\ [][Next]_vars

\* The loop of Watch goes round every five seconds and health checks return.
Fairness == \A w \in Watchers : WF_vars(Polls(w))

Spec == SafetySpec /\ Fairness

-----------------------------------------------------------------------------
Watching(w) == pc[w] # "idle" /\ w \notin cancelled

\* A health check that was under way when the server began to terminate may
\* still report it ready; none that begins later does, in whatever way
\* StandardServer is asked, or a ConnectWebServer over HTTP, and whatever the
\* program says.  connectrpc's gRPC handler promises nothing here: it goes on
\* to say what the program says (server.go:194-205, connectrpc/server.go:204-210).
NoReadyOnceTerminating ==
    \A c \in Clients :
        [](terminating /\ LooksAtShutter(c) /\ Calls(c) =>
              [](pc[c] = "answer" => result[c] = NotReady))

\* Every stream of StandardServer that stays open learns that the server
\* terminates, even if it was in the middle of a check that said otherwise
\* (health.go:65-86, server.go:194-210).
TerminationIsSeen ==
    \A w \in Watchers :
        terminating /\ LooksAtShutter(w) /\ Watching(w) ~>
            sent[w] = "NOT_SERVING" \/ ~Watching(w)

\* A stream ends up with the status of a program that no longer changes its
\* mind, failing checks included; only a stream of the package server whose
\* checks fail from the start is told nothing (health.go:66, 74-83, 88-99).
WatchConverges ==
    \A w \in Watchers : \A s \in {"SERVING", "NOT_SERVING", "SERVICE_UNKNOWN"} :
        <>[](~terminating /\ s = IF app.err THEN "SERVICE_UNKNOWN"
                                 ELSE IF app.isReady THEN "SERVING" ELSE "NOT_SERVING") =>
            <>[](Watching(w) => \/ sent[w] = s
                                \/ /\ handler = "server"
                                   /\ s = "SERVICE_UNKNOWN"
                                   /\ sent[w] = "nothing")
=============================================================================
