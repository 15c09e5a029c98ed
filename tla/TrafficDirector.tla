--------------------------- MODULE TrafficDirector ---------------------------
(***************************************************************************)
(* server/discovery-service/traffic-director/server.go: the server of a       *)
(* service mesh.  Launch serves an xds.GRPCServer, modelled as the gRPC       *)
(* server it wraps; Shutdown stops it, at once or by a GracefulStop in a      *)
(* goroutine that competes with a timer, and leaves the shutter to Launch.    *)
(***************************************************************************)
CONSTANTS
    ForceCallers,   \* goroutines that call Shutdown(0)
    GraceCallers,   \* goroutines that call Shutdown(d), d # 0
    Conns           \* client connections

ASSUME CallersAssumption == ForceCallers \cap GraceCallers = {}

Callers == ForceCallers \cup GraceCallers

VARIABLES
    launch,     \* where the Launch goroutine is
    xdsServer,  \* "serving"; "quitting" once a Stop began, "draining" once a
                \* GracefulStop did, "done" when either has ended
    cause,      \* the error Launch gave the shutter, "none" before
    caller,     \* where each caller of Shutdown is
    stopper,    \* the goroutine of each timed caller, that runs GracefulStop
    conn        \* state of each client connection

vars == <<launch, xdsServer, cause, caller, stopper, conn>>

TypeOK ==
    /\ launch \in {"idle", "listening", "serving", "terminating", "done"}
    /\ xdsServer \in {"serving", "quitting", "draining", "done"}
    /\ cause \in {"none", "listen", "closed", "serve"}
    /\ caller \in [Callers -> {"idle", "selecting", "stopping", "forced", "graceful"}]
    /\ stopper \in [GraceCallers -> {"none", "started", "waiting", "ended"}]
    /\ conn \in [Conns -> {"none", "idle", "active", "closed"}]

Init ==
    /\ launch = "idle"
    /\ xdsServer = "serving"
    /\ cause = "none"
    /\ caller = [c \in Callers |-> "idle"]
    /\ stopper = [c \in GraceCallers |-> "none"]
    /\ conn = [k \in Conns |-> "none"]

Open(k) == conn[k] \in {"idle", "active"}
NoneOpen == \A k \in Conns : ~Open(k)
CloseAll(K) == conn' = [k \in Conns |-> IF k \in K /\ Open(k) THEN "closed" ELSE conn[k]]

-----------------------------------------------------------------------------
(* Launch                                                                    *)

LaunchListen ==
    /\ launch = "idle"
    /\ \/ launch' = "listening" /\ UNCHANGED cause
       \/ launch' = "terminating" /\ cause' = "listen"
    /\ UNCHANGED <<xdsServer, caller, stopper, conn>>

\* Serve: a server that was stopped before returns ErrServerStopped.
LaunchServe ==
    /\ launch = "listening"
    /\ IF xdsServer = "serving"
       THEN launch' = "serving" /\ UNCHANGED cause
       ELSE launch' = "terminating" /\ cause' = "closed"
    /\ UNCHANGED <<xdsServer, caller, stopper, conn>>

\* Mutant: a nil error is not passed on to the shutter.
ServeReturns_OnlyErrors ==
    /\ launch = "serving"
    /\ \/ xdsServer = "done" /\ launch' = "done" /\ UNCHANGED cause
       \/ xdsServer = "serving" /\ launch' = "terminating" /\ cause' = "serve"
    /\ UNCHANGED <<xdsServer, caller, stopper, conn>>

\* Serve returns nil once the server was stopped for good, or the error of a
\* failed Accept; Launch makes an error of either.
ServeReturns ==
    /\ launch = "serving"
    /\ launch' = "terminating"
    /\ \/ xdsServer = "done" /\ cause' = "closed"
       \/ xdsServer = "serving" /\ cause' = "serve"
    /\ UNCHANGED <<xdsServer, caller, stopper, conn>>

\* The shutter runs the OnTerminated callbacks, then Launch returns.
LaunchTerminated ==
    /\ launch = "terminating"
    /\ launch' = "done"
    /\ UNCHANGED <<xdsServer, cause, caller, stopper, conn>>

-----------------------------------------------------------------------------
(* Shutdown                                                                  *)

\* A Stop marks the server before it closes the connections.
Quitting == IF xdsServer = "serving" THEN "quitting" ELSE xdsServer

ShutdownForce(c) ==
    /\ c \in ForceCallers
    /\ caller[c] = "idle"
    /\ caller' = [caller EXCEPT ![c] = "stopping"]
    /\ xdsServer' = Quitting
    /\ UNCHANGED <<launch, cause, stopper, conn>>

ShutdownGraceful(c) ==
    /\ c \in GraceCallers
    /\ caller[c] = "idle"
    /\ caller' = [caller EXCEPT ![c] = "selecting"]
    /\ stopper' = [stopper EXCEPT ![c] = "started"]
    /\ UNCHANGED <<launch, xdsServer, cause, conn>>

\* GracefulStop closes the connections that run no RPC ...
StopperBegins(c) ==
    /\ stopper[c] = "started"
    /\ stopper' = [stopper EXCEPT ![c] = "waiting"]
    /\ xdsServer' = IF xdsServer = "done" THEN "done" ELSE "draining"
    /\ CloseAll({k \in Conns : conn[k] = "idle"})
    /\ UNCHANGED <<launch, cause, caller>>

\* Mutant: the goroutine sends on the channel instead of closing it.
StopperEnds_Sends(c) ==
    /\ stopper[c] = "waiting"
    /\ NoneOpen
    /\ xdsServer' = "done"
    /\ stopper' = IF caller[c] = "selecting" THEN [stopper EXCEPT ![c] = "ended"] ELSE stopper
    /\ UNCHANGED <<launch, cause, caller, conn>>

\* ... and waits for the others; then the goroutine closes the channel.
StopperEnds(c) ==
    /\ stopper[c] = "waiting"
    /\ NoneOpen
    /\ stopper' = [stopper EXCEPT ![c] = "ended"]
    /\ xdsServer' = "done"
    /\ UNCHANGED <<launch, cause, caller, conn>>

\* The select: the goroutine has ended ...
SelectStopped(c) ==
    /\ c \in GraceCallers
    /\ caller[c] = "selecting"
    /\ stopper[c] = "ended"
    /\ caller' = [caller EXCEPT ![c] = "graceful"]
    /\ UNCHANGED <<launch, xdsServer, cause, stopper, conn>>

\* Mutant: Shutdown returns when the timer fires, without stopping by force.
SelectTimeout_NoStop(c) ==
    /\ caller[c] = "selecting"
    /\ caller' = [caller EXCEPT ![c] = "forced"]
    /\ UNCHANGED <<launch, xdsServer, cause, stopper, conn>>

\* ... or the timer fires, maybe before GracefulStop began, and Stop is called.
SelectTimeout(c) ==
    /\ caller[c] = "selecting"
    /\ caller' = [caller EXCEPT ![c] = "stopping"]
    /\ xdsServer' = Quitting
    /\ UNCHANGED <<launch, cause, stopper, conn>>

\* Mutant: Stop leaves the connections that run an RPC alone.
StopEnds_SparesActive(c) ==
    /\ caller[c] = "stopping"
    /\ caller' = [caller EXCEPT ![c] = "forced"]
    /\ xdsServer' = "done"
    /\ CloseAll({k \in Conns : conn[k] = "idle"})
    /\ UNCHANGED <<launch, cause, stopper>>

\* Stop closes every connection and cancels the RPCs.
StopEnds(c) ==
    /\ caller[c] = "stopping"
    /\ caller' = [caller EXCEPT ![c] = "forced"]
    /\ xdsServer' = "done"
    /\ CloseAll(Conns)
    /\ UNCHANGED <<launch, cause, stopper>>

-----------------------------------------------------------------------------
(* The clients                                                               *)

Accept(k) ==
    /\ launch = "serving" /\ xdsServer = "serving"
    /\ conn[k] = "none"
    /\ conn' = [conn EXCEPT ![k] = "idle"]
    /\ UNCHANGED <<launch, xdsServer, cause, caller, stopper>>

RpcStart(k) ==
    /\ conn[k] = "idle"
    /\ xdsServer \in {"serving", "quitting"}
    /\ conn' = [conn EXCEPT ![k] = "active"]
    /\ UNCHANGED <<launch, xdsServer, cause, caller, stopper>>

\* A connection of a draining server ends with its last RPC.
RpcEnd(k) ==
    /\ conn[k] = "active"
    /\ conn' = [conn EXCEPT ![k] = IF xdsServer = "draining" THEN "closed" ELSE "idle"]
    /\ UNCHANGED <<launch, xdsServer, cause, caller, stopper>>

Disconnect(k) ==
    /\ Open(k)
    /\ conn' = [conn EXCEPT ![k] = "closed"]
    /\ UNCHANGED <<launch, xdsServer, cause, caller, stopper>>

-----------------------------------------------------------------------------
LaunchRuns == LaunchServe \/ (ServeReturns /\ xdsServer = "done") \/ LaunchTerminated

ShutdownRuns(c) == SelectStopped(c) \/ SelectTimeout(c) \/ StopEnds(c)

Stopper(c) == StopperBegins(c) \/ StopperEnds(c)

Next ==
    \/ LaunchListen \/ LaunchServe \/ ServeReturns \/ LaunchTerminated
    \/ \E c \in Callers : ShutdownForce(c) \/ ShutdownGraceful(c) \/ ShutdownRuns(c)
    \/ \E c \in GraceCallers : Stopper(c)
    \/ \E k \in Conns : Accept(k) \/ RpcStart(k) \/ RpcEnd(k) \/ Disconnect(k)

\* Goroutines run and timers fire; clients owe nothing.
Fairness ==
    /\ WF_vars(LaunchRuns)
    /\ \A c \in Callers : WF_vars(ShutdownRuns(c))
    /\ \A c \in GraceCallers : WF_vars(Stopper(c))

SafetySpec == Init /\ [][Next]_vars

Spec == SafetySpec /\ Fairness

-----------------------------------------------------------------------------
Returned(c) == caller[c] \in {"graceful", "forced"}

\* Unlike StandardServer, a Shutdown of either kind that has returned leaves no
\* connection behind and none is accepted later, whatever other calls of
\* Shutdown, their timers and Launch were in the middle of (server.go:165-195).
ReturnedMeansStopped ==
    (\E c \in Callers : Returned(c)) => NoneOpen /\ xdsServer = "done"

\* A Shutdown that has returned leaves no connection behind, and every variable of
\* the server keeps its type (server.go:139-195).
ServerInv == TypeOK /\ ReturnedMeansStopped

\* Shutdown ends Launch with a call of the shutter, be it before Launch begins,
\* while it listens or after Accept failed (server.go:139-158, 165-195).
ShutdownEndsLaunch ==
    \A c \in Callers :
        launch # "idle" /\ caller[c] # "idle" ~> launch = "done" /\ cause # "none"

\* The goroutine of every timed Shutdown comes to its end, even when Shutdown
\* has returned by force and nobody reads its channel (server.go:176-193).
NoStopperIsLeft ==
    \A c \in GraceCallers : caller[c] # "idle" ~> Returned(c) /\ stopper[c] = "ended"

\* Seen from outside the server is a ServerLifecycle that gives no connection up:
\* it keeps the promise of interface.go:28-30 as it is written, and by forced
\* calls of Shutdown too.
Lifecycle == INSTANCE ServerLifecycle WITH
    phase <- IF cause # "none" THEN "down"
             ELSE IF xdsServer # "serving" THEN "stopping"
             ELSE IF launch = "serving" THEN "up" ELSE "created",
    open <- {k \in Conns : Open(k)},
    givenUp <- {},
    MayGiveUp <- {},
    reason <- cause,
    drained <- {c \in Callers : Returned(c)}

\* The server keeps the promises of ServerLifecycle (server.go:139-195).
LifecycleSpec == Lifecycle!Spec
=============================================================================
