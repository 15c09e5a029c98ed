------------------------ MODULE StandardServerProofs ------------------------
(***************************************************************************)
(* The safety of StandardServer for any number of callers of Shutdown and of *)
(* client connections.                                                       *)
(***************************************************************************)
EXTENDS StandardServer, TLAPS

\* The shutter follows Launch, and only Launch.
ShutterFollowsLaunch ==
    /\ launch = "done" <=> shutter = "terminated"
    /\ launch = "terminating" <=> shutter = "terminating"
    /\ shutter = "running" <=> cause = "none"

\* The http.Server is shut down exactly when a caller got that far.
ShutdownWasCalled ==
    /\ inShutdown <=> \E c \in Callers : Seen(c)
    /\ cause = "closed" => inShutdown

\* A server shut down while it serves has no open listener.
ListenerClosed == (inShutdown /\ launch = "serving") => listener # "open"

\* What GracefulMeansDrained needs to be kept: nobody serves any more.
DrainedForGood ==
    (\E c \in Callers : caller[c] = "drained") => Tracked = {} /\ launch # "serving"

\* Nobody shuts the http.Server down before Launch has created it.
SetBeforeUse ==
    /\ \A c \in Callers : Seen(c) \/ caller[c] = "viaHTTP" => httpServer = "set"
    /\ httpServer = "set" => launch \notin {"idle", "listening", "create"}

\* The h2c handler takes no connection of a TLS server.
HijackedIsPlain == hijacked # {} => ~ServesTLS

IInv ==
    /\ TypeOK
    /\ ShutterFollowsLaunch
    /\ ShutdownWasCalled
    /\ ListenerClosed
    /\ DrainedForGood
    /\ SetBeforeUse
    /\ HijackedIsPlain

-----------------------------------------------------------------------------
(* Type correctness.                                                         *)

LEMMA InitTypeOK == Init => TypeOK
  BY DEF Init, TypeOK, Causes

LEMMA LaunchTypeOK ==
  ASSUME TypeOK, LaunchListen \/ LaunchRuns \/ ServeReturns
  PROVE  TypeOK'
<1> USE DEF TypeOK, libs, grpc, clients, Causes, ShutterShutdown
<1>1. CASE LaunchListen BY <1>1 DEF LaunchListen
<1>2. CASE LaunchErrorLogger BY <1>2 DEF LaunchErrorLogger
<1>3. CASE LaunchCreateHTTPServer BY <1>3 DEF LaunchCreateHTTPServer
<1>4. CASE LaunchServe BY <1>4 DEF LaunchServe
<1>5. CASE LaunchInvalidConfig BY <1>5 DEF LaunchInvalidConfig
<1>6. CASE ServeReturns BY <1>6 DEF ServeReturns, ServeError
<1>7. CASE LaunchTerminated BY <1>7 DEF LaunchTerminated
<1> QED BY <1>1, <1>2, <1>3, <1>4, <1>5, <1>6, <1>7 DEF LaunchRuns

LEMMA ShutdownTypeOK ==
  ASSUME TypeOK, NEW c \in Callers, ShutdownRead(c) \/ ShutdownRuns(c)
  PROVE  TypeOK'
<1> USE DEF TypeOK, libs, grpc, clients
<1>1. CASE ShutdownRead(c) BY <1>1 DEF ShutdownRead
<1>2. CASE ShutdownViaHTTP(c) BY <1>2 DEF ShutdownViaHTTP
<1>3. CASE HttpShutdownPoll(c) BY <1>3 DEF HttpShutdownPoll
<1>4. CASE HttpShutdownExpires(c) BY <1>4 DEF HttpShutdownExpires
<1>5. CASE ShutdownGrpcStop(c) BY <1>5 DEF ShutdownGrpcStop, GrpcStop
<1>6. CASE ShutdownGrpcGraceful(c) BY <1>6 DEF ShutdownGrpcGraceful
<1>7. CASE GrpcDrained(c) BY <1>7 DEF GrpcDrained
<1>8. CASE GrpcDrainExpires(c) BY <1>8 DEF GrpcDrainExpires, GrpcStop
<1>9. CASE GrpcStopped(c) BY <1>9 DEF GrpcStopped
<1> QED BY <1>1, <1>2, <1>3, <1>4, <1>5, <1>6, <1>7, <1>8, <1>9 DEF ShutdownRuns

LEMMA StopperTypeOK ==
  ASSUME TypeOK, NEW c \in GraceCallers, GracefulStop(c)
  PROVE  TypeOK'
<1> USE DEF TypeOK, GracefulStop, clients
<1>1. CASE RPCs = {}
  <2>1. stopper' \in [GraceCallers -> {"none", "begun", "ended"}] BY <1>1
  <2> QED BY <1>1, <2>1
<1>2. CASE RPCs # {}
  <2>1. /\ crashed' = TRUE
        /\ UNCHANGED <<options, launch, listener, httpServer, inShutdown, shutter, cause,
                       caller, clients, grpcServer, stopper>>
    BY <1>2
  <2> QED BY <2>1
<1> QED BY <1>1, <1>2

LEMMA ClientTypeOK ==
  ASSUME TypeOK, NEW k \in Conns, Client(k)
  PROVE  TypeOK'
<1> USE DEF TypeOK, libs, grpc
<1>1. CASE Accept(k) BY <1>1 DEF Accept
<1>2. CASE RequestStart(k) BY <1>2 DEF RequestStart, AfterRequest
<1>3. CASE RequestEnd(k) BY <1>3 DEF RequestEnd, AfterRequest
<1>4. CASE Disconnect(k) BY <1>4 DEF Disconnect
<1>5. CASE RpcCloses(k) BY <1>5 DEF RpcCloses, AfterRequest
<1> QED BY <1>1, <1>2, <1>3, <1>4, <1>5 DEF Client

LEMMA NextTypeOK == TypeOK /\ [Next]_vars => TypeOK'
<1> SUFFICES ASSUME TypeOK, [Next]_vars PROVE TypeOK'
  OBVIOUS
<1>1. CASE UNCHANGED vars BY <1>1 DEF TypeOK, vars
<1> QED BY <1>1, LaunchTypeOK, ShutdownTypeOK, StopperTypeOK, ClientTypeOK DEF Next

\* Every variable of the server keeps its type (server.go:101-349).
THEOREM Typing == SafetySpec => []TypeOK
  BY InitTypeOK, NextTypeOK, PTL DEF SafetySpec

-----------------------------------------------------------------------------
(* The inductive invariant.                                                  *)

LEMMA InitIInv == Init => IInv
  BY InitTypeOK DEF Init, IInv, ShutterFollowsLaunch, ShutdownWasCalled, ListenerClosed,
     DrainedForGood, SetBeforeUse, Seen, HijackedIsPlain

\* A step of Launch moves the shutter along and leaves callers, connections
\* and the http.Server's mark alone.
LEMMA LaunchIInv ==
  ASSUME IInv, LaunchListen \/ LaunchRuns \/ ServeReturns
  PROVE  IInv'
<1>0. TypeOK' BY LaunchTypeOK DEF IInv
<1>1. ShutterFollowsLaunch' /\ UNCHANGED <<options, inShutdown, caller, conn, hijacked>>
      /\ (cause' = "closed" => inShutdown)
      /\ (launch' = "serving" => launch = "serve" /\ ~inShutdown)
      /\ (httpServer' = "set" => launch' \notin {"idle", "listening", "create"})
      /\ (httpServer = "set" => httpServer' = "set")
  <2> USE DEF IInv, TypeOK, ShutterFollowsLaunch, ShutdownWasCalled, SetBeforeUse, libs, grpc, clients, ShutterShutdown
  <2>1. CASE LaunchListen BY <2>1 DEF LaunchListen
  <2>2. CASE LaunchErrorLogger BY <2>2 DEF LaunchErrorLogger
  <2>3. CASE LaunchCreateHTTPServer BY <2>3 DEF LaunchCreateHTTPServer
  <2>4. CASE LaunchServe BY <2>4 DEF LaunchServe
  <2>5. CASE LaunchInvalidConfig BY <2>5 DEF LaunchInvalidConfig
  <2>6. CASE ServeReturns BY <2>6 DEF ServeReturns, ServeError
  <2>7. CASE LaunchTerminated BY <2>7 DEF LaunchTerminated
  <2> QED BY <2>1, <2>2, <2>3, <2>4, <2>5, <2>6, <2>7 DEF LaunchRuns
<1>2. ShutdownWasCalled' BY <1>1 DEF IInv, ShutdownWasCalled, Seen
<1>3. ListenerClosed' BY <1>1 DEF ListenerClosed
<1>4. DrainedForGood'
  <2>1. Tracked' = Tracked BY <1>1 DEF Tracked, Open
  <2>2. (\E c \in Callers : caller[c] = "drained") => inShutdown
    BY DEF IInv, ShutdownWasCalled, Seen
  <2> QED BY <1>1, <2>1, <2>2 DEF IInv, DrainedForGood
<1>5. SetBeforeUse' BY <1>1 DEF IInv, SetBeforeUse, Seen
<1>6. HijackedIsPlain' BY <1>1 DEF IInv, HijackedIsPlain, ServesTLS, HealthOverHTTP
<1> QED BY <1>0, <1>1, <1>2, <1>3, <1>4, <1>5, <1>6 DEF IInv

\* Only a pass of http.Server.Shutdown's loop that leaves nothing behind makes
\* a caller "drained", and no caller brings a connection back.
LEMMA ShutdownIInv ==
  ASSUME IInv, NEW c \in Callers, ShutdownRead(c) \/ ShutdownRuns(c)
  PROVE  IInv'
<1>0. TypeOK' BY ShutdownTypeOK DEF IInv
<1> USE DEF IInv, TypeOK, libs, grpc, clients
<1>1. UNCHANGED <<options, launch, httpServer, shutter, cause, hijacked>>
      /\ (listener' = listener \/ (listener' = "closed" /\ launch = "serving"))
      /\ Tracked' \subseteq Tracked
      /\ \A b \in Callers : b # c => caller'[b] = caller[b]
  <2> USE DEF Tracked, Open
  <2>1. CASE ShutdownRead(c) BY <2>1 DEF ShutdownRead
  <2>2. CASE ShutdownViaHTTP(c) BY <2>2 DEF ShutdownViaHTTP
  <2>3. CASE HttpShutdownPoll(c) BY <2>3 DEF HttpShutdownPoll
  <2>4. CASE HttpShutdownExpires(c) BY <2>4 DEF HttpShutdownExpires
  <2>5. CASE ShutdownGrpcStop(c) BY <2>5 DEF ShutdownGrpcStop, GrpcStop, RPCs
  <2>6. CASE ShutdownGrpcGraceful(c) BY <2>6 DEF ShutdownGrpcGraceful
  <2>7. CASE GrpcDrained(c) BY <2>7 DEF GrpcDrained
  <2>8. CASE GrpcDrainExpires(c) BY <2>8 DEF GrpcDrainExpires, GrpcStop, RPCs
  <2>9. CASE GrpcStopped(c) BY <2>9 DEF GrpcStopped
  <2> QED BY <2>1, <2>2, <2>3, <2>4, <2>5, <2>6, <2>7, <2>8, <2>9 DEF ShutdownRuns
<1>2. /\ inShutdown' <=> inShutdown \/ Seen(c)'
      /\ Seen(c) => Seen(c)'
      /\ Seen(c)' \/ caller'[c] = "viaHTTP" => httpServer = "set"
      /\ (inShutdown' /\ launch = "serving") => (inShutdown \/ listener' = "closed")
      /\ caller'[c] = "drained" => Tracked' = {} /\ launch # "serving"
  <2> USE DEF Seen, ShutdownWasCalled, SetBeforeUse
  <2>1. CASE ShutdownRead(c) BY <2>1 DEF ShutdownRead
  <2>2. CASE ShutdownViaHTTP(c) BY <2>2 DEF ShutdownViaHTTP
  <2>3. CASE HttpShutdownPoll(c)
    <3>1. caller'[c] = "drained" => Tracked' = {}
      BY <2>3 DEF HttpShutdownPoll, Tracked, Open
    <3> QED BY <2>3, <3>1 DEF HttpShutdownPoll
  <2>4. CASE HttpShutdownExpires(c) BY <2>4 DEF HttpShutdownExpires
  <2>5. CASE ShutdownGrpcStop(c) BY <2>5 DEF ShutdownGrpcStop, GrpcStop
  <2>6. CASE ShutdownGrpcGraceful(c) BY <2>6 DEF ShutdownGrpcGraceful
  <2>7. CASE GrpcDrained(c) BY <2>7 DEF GrpcDrained
  <2>8. CASE GrpcDrainExpires(c) BY <2>8 DEF GrpcDrainExpires, GrpcStop
  <2>9. CASE GrpcStopped(c) BY <2>9 DEF GrpcStopped
  <2> QED BY <2>1, <2>2, <2>3, <2>4, <2>5, <2>6, <2>7, <2>8, <2>9 DEF ShutdownRuns
<1>3. ShutterFollowsLaunch' BY <1>1 DEF ShutterFollowsLaunch
<1>4. ShutdownWasCalled' BY <1>1, <1>2 DEF ShutdownWasCalled, Seen
<1>5. ListenerClosed' BY <1>1, <1>2 DEF ListenerClosed
<1>6. DrainedForGood'
  <2> SUFFICES ASSUME NEW b \in Callers, caller'[b] = "drained"
               PROVE  Tracked' = {} /\ launch' # "serving"
    BY DEF DrainedForGood
  <2>1. CASE b = c BY <2>1, <1>1, <1>2
  <2>2. CASE b # c BY <2>2, <1>1 DEF DrainedForGood
  <2> QED BY <2>1, <2>2
<1>7. SetBeforeUse' BY <1>1, <1>2 DEF SetBeforeUse, Seen
<1>8. HijackedIsPlain' BY <1>1 DEF HijackedIsPlain, ServesTLS, HealthOverHTTP
<1> QED BY <1>0, <1>3, <1>4, <1>5, <1>6, <1>7, <1>8

\* The goroutine of GracefulStop touches nothing that the invariant is about.
LEMMA StopperIInv ==
  ASSUME IInv, NEW c \in GraceCallers, GracefulStop(c)
  PROVE  IInv'
<1>1. TypeOK' BY StopperTypeOK DEF IInv
<1>2. UNCHANGED <<options, launch, listener, httpServer, inShutdown, shutter, cause, caller,
                  conn, hijacked>>
  BY DEF GracefulStop, clients
<1>3. ShutterFollowsLaunch' /\ ListenerClosed'
  BY <1>2 DEF IInv, ShutterFollowsLaunch, ListenerClosed
<1>4. ShutdownWasCalled' /\ SetBeforeUse'
  BY <1>2 DEF IInv, ShutdownWasCalled, SetBeforeUse, Seen
<1>5. DrainedForGood' /\ HijackedIsPlain'
  BY <1>2 DEF IInv, DrainedForGood, Tracked, Open, HijackedIsPlain, ServesTLS, HealthOverHTTP
<1> QED BY <1>1, <1>3, <1>4, <1>5 DEF IInv

\* A client changes its own connection, and opens one only while the server
\* serves on an open listener.
LEMMA ClientIInv ==
  ASSUME IInv, NEW k \in Conns, Client(k)
  PROVE  IInv'
<1>0. TypeOK' BY ClientTypeOK DEF IInv
<1>1. UNCHANGED <<options, launch, listener, httpServer, inShutdown, shutter, cause, caller>>
      /\ (launch # "serving" => Tracked' \subseteq Tracked)
      /\ (hijacked' = hijacked \/ ~ServesTLS)
  <2> USE DEF IInv, TypeOK, Tracked, Open, libs, grpc
  <2>1. CASE Accept(k) BY <2>1 DEF Accept
  <2>2. CASE RequestStart(k) BY <2>2 DEF RequestStart, AfterRequest
  <2>3. CASE RequestEnd(k) BY <2>3 DEF RequestEnd, AfterRequest
  <2>4. CASE Disconnect(k) BY <2>4 DEF Disconnect
  <2>5. CASE RpcCloses(k) BY <2>5 DEF RpcCloses, AfterRequest
  <2> QED BY <2>1, <2>2, <2>3, <2>4, <2>5 DEF Client
<1>2. ShutterFollowsLaunch' BY <1>1 DEF IInv, ShutterFollowsLaunch
<1>3. ShutdownWasCalled' BY <1>1 DEF IInv, ShutdownWasCalled, Seen
<1>4. ListenerClosed' BY <1>1 DEF IInv, ListenerClosed
<1>5. DrainedForGood' BY <1>1 DEF IInv, DrainedForGood
<1>6. SetBeforeUse' BY <1>1 DEF IInv, SetBeforeUse, Seen
<1>7. HijackedIsPlain' BY <1>1 DEF IInv, HijackedIsPlain, ServesTLS, HealthOverHTTP
<1> QED BY <1>0, <1>2, <1>3, <1>4, <1>5, <1>6, <1>7 DEF IInv

LEMMA NextIInv == IInv /\ [Next]_vars => IInv'
<1> SUFFICES ASSUME IInv, [Next]_vars PROVE IInv'
  OBVIOUS
<1>1. CASE UNCHANGED vars
  <2>1. TypeOK' BY NextTypeOK DEF IInv
  <2>2. ShutterFollowsLaunch' /\ ListenerClosed' BY <1>1 DEF vars, IInv, ShutterFollowsLaunch, ListenerClosed
  <2>3. ShutdownWasCalled' /\ SetBeforeUse'
    BY <1>1 DEF vars, IInv, ShutdownWasCalled, SetBeforeUse, Seen
  <2>4. DrainedForGood' BY <1>1 DEF vars, IInv, DrainedForGood, Tracked, Open
  <2>5. HijackedIsPlain' BY <1>1 DEF vars, IInv, HijackedIsPlain, ServesTLS, HealthOverHTTP
  <2> QED BY <2>1, <2>2, <2>3, <2>4, <2>5 DEF IInv
<1> QED BY <1>1, LaunchIInv, ShutdownIInv, StopperIInv, ClientIInv DEF Next

LEMMA Invariance == SafetySpec => []IInv
  BY InitIInv, NextIInv, PTL DEF SafetySpec

-----------------------------------------------------------------------------
(* The properties of the runs.                                               *)

\* After a Shutdown that returned without error a TLS server has no connection, and
\* a plain-text server none but of HTTP/2, now and for ever (server.go:343-348).
THEOREM GracefulMeansDrainedHolds == SafetySpec => []GracefulMeansDrained
<1>1. IInv => GracefulMeansDrained
  BY DEF IInv, TypeOK, DrainedForGood, HijackedIsPlain, Tracked, GracefulMeansDrained
<1> QED BY <1>1, Invariance, PTL

\* Launch and the shutter end together, with a reason (server.go:128-192).
THEOREM LaunchReportsHolds == SafetySpec => []LaunchReports
<1>1. IInv => LaunchReports BY DEF IInv, TypeOK, ShutterFollowsLaunch, LaunchReports
<1> QED BY <1>1, Invariance, PTL

\* ErrServerClosed has a Shutdown behind it (server.go:247-248).
THEOREM ClosedOnlyByShutdownHolds == SafetySpec => []ClosedOnlyByShutdown
<1>1. IInv => ClosedOnlyByShutdown BY DEF IInv, ShutdownWasCalled, ClosedOnlyByShutdown
<1> QED BY <1>1, Invariance, PTL

\* A server at its end takes no connection (server.go:343).
THEOREM NothingAcceptedAtTheEndHolds == SafetySpec => NothingAcceptedAtTheEnd
<1> DEFINE AtTheEnd == shutter # "running" \/ \E c \in Callers : Seen(c)
           Kept == \A k \in Conns : conn[k] = "none" => conn'[k] = "none"
<1>1. IInv /\ [Next]_vars => [AtTheEnd => Kept]_vars
  <2> SUFFICES ASSUME IInv, Next, AtTheEnd, NEW k \in Conns, conn[k] = "none"
               PROVE  conn'[k] = "none"
    OBVIOUS
  <2> USE DEF IInv, TypeOK
  <2>1. launch # "serving" \/ listener # "open"
    BY DEF ShutterFollowsLaunch, ShutdownWasCalled, ListenerClosed
  <2>2. CASE LaunchListen \/ LaunchRuns \/ ServeReturns
    BY <2>2 DEF LaunchRuns, LaunchListen, LaunchErrorLogger, LaunchCreateHTTPServer, LaunchServe,
       LaunchInvalidConfig, LaunchTerminated, ServeReturns, clients
  <2>3. ASSUME NEW c \in Callers, ShutdownRead(c) \/ ShutdownRuns(c)
        PROVE  conn'[k] = "none"
    BY <2>3 DEF ShutdownRuns, ShutdownRead, ShutdownViaHTTP, HttpShutdownPoll, HttpShutdownExpires,
       ShutdownGrpcStop, GrpcStopped, ShutdownGrpcGraceful, GrpcDrained, GrpcDrainExpires, GrpcStop,
       RPCs, Tracked, clients
  <2>4. ASSUME NEW j \in Conns, Client(j)
        PROVE  conn'[k] = "none"
    BY <2>1, <2>4 DEF Client, Accept, RequestStart, RequestEnd, RpcCloses, Disconnect, Open
  <2>5. ASSUME NEW c \in GraceCallers, GracefulStop(c)
        PROVE  conn'[k] = "none"
    BY <2>5 DEF GracefulStop, clients
  <2> QED BY <2>2, <2>3, <2>4, <2>5 DEF Next
<1> QED BY <1>1, Invariance, PTL DEF SafetySpec, NothingAcceptedAtTheEnd

-----------------------------------------------------------------------------
(* The refinement.                                                           *)

\* The connections that are open, which http.Server.Shutdown knows in part.
OpenConns == {k \in Conns : Open(k)}

LEMMA InitRefines == Init => Lifecycle!Init
  BY DEF Init, Lifecycle!Init, Open

LEMMA LaunchRefines ==
  ASSUME IInv, LaunchListen \/ LaunchRuns \/ ServeReturns
  PROVE  [Lifecycle!Next]_(Lifecycle!vars)
<1> USE DEF IInv, TypeOK, ShutterFollowsLaunch, ShutdownWasCalled, libs, grpc, clients, Causes,
            ShutterShutdown, Lifecycle!vars
<1>1. UNCHANGED <<conn, hijacked, caller>> /\ OpenConns' = OpenConns
  BY DEF LaunchRuns, LaunchListen, LaunchErrorLogger, LaunchCreateHTTPServer, LaunchServe,
     LaunchInvalidConfig, LaunchTerminated, ServeReturns, OpenConns, Open
<1> USE DEF OpenConns
<1>2. launch \in {"idle", "listening", "create"} => ~inShutdown
  BY DEF SetBeforeUse
<1>3. CASE LaunchListen
  BY <1>1, <1>2, <1>3 DEF LaunchListen, Lifecycle!Next, Lifecycle!GoDown
<1>4. CASE LaunchErrorLogger
  BY <1>1, <1>2, <1>4 DEF LaunchErrorLogger, Lifecycle!Next, Lifecycle!GoDown
<1>5. CASE LaunchCreateHTTPServer
  BY <1>1, <1>5 DEF LaunchCreateHTTPServer
<1>6. CASE LaunchServe
  BY <1>1, <1>6 DEF LaunchServe, Lifecycle!Next, Lifecycle!Up, Lifecycle!GoDown
<1>7. CASE LaunchInvalidConfig
  BY <1>1, <1>7 DEF LaunchInvalidConfig, Lifecycle!Next, Lifecycle!GoDown
<1>8. CASE ServeReturns
  BY <1>1, <1>8 DEF ServeReturns, ServeError, Lifecycle!Next, Lifecycle!GoDown
<1>9. CASE LaunchTerminated
  BY <1>1, <1>9 DEF LaunchTerminated
<1> QED BY <1>3, <1>4, <1>5, <1>6, <1>7, <1>8, <1>9 DEF LaunchRuns

\* The steps that only close connections.
LEMMA ReleaseRefines ==
  ASSUME IInv, OpenConns' \subseteq OpenConns,
         UNCHANGED <<launch, shutter, inShutdown, cause, hijacked>>,
         \A c \in Callers : caller'[c] = "drained" <=> caller[c] = "drained"
  PROVE  [Lifecycle!Next]_(Lifecycle!vars)
<1>1. OpenConns' = OpenConns \ (OpenConns \ OpenConns')
      /\ (OpenConns \ OpenConns') \in SUBSET Conns
  BY DEF OpenConns
<1>2. Lifecycle!Release(OpenConns \ OpenConns')
  BY <1>1 DEF Lifecycle!Release, OpenConns
<1> QED BY <1>1, <1>2 DEF Lifecycle!Next

LEMMA ShutdownRefines ==
  ASSUME IInv, NEW c \in Callers, ShutdownRead(c) \/ ShutdownRuns(c)
  PROVE  [Lifecycle!Next]_(Lifecycle!vars)
<1> USE DEF IInv, TypeOK, libs, grpc, clients
<1>1. CASE ShutdownViaHTTP(c)
  <2>1. UNCHANGED <<launch, shutter, cause, hijacked>> /\ OpenConns' = OpenConns /\ inShutdown'
    BY <1>1 DEF ShutdownViaHTTP, OpenConns, Open
  <2>2. {b \in Callers : caller'[b] = "drained"} = {b \in Callers : caller[b] = "drained"}
    BY <1>1 DEF ShutdownViaHTTP
  <2>3. OpenConns' = OpenConns \ {} /\ {} \in SUBSET Conns BY <2>1
  <2>4. CASE inShutdown \/ shutter # "running"
    BY <2>1, <2>2, <2>4 DEF Lifecycle!vars, OpenConns
  <2>5. CASE ~inShutdown /\ shutter = "running"
    <3>1. Lifecycle!Stop({})
      BY <2>1, <2>2, <2>3, <2>5 DEF Lifecycle!Stop, OpenConns
    <3> QED BY <3>1, <2>3 DEF Lifecycle!Next
  <2> QED BY <2>4, <2>5
<1>2. CASE HttpShutdownPoll(c)
  <2>1. UNCHANGED <<launch, shutter, inShutdown, cause, hijacked>> /\ OpenConns' \subseteq OpenConns
    BY <1>2 DEF HttpShutdownPoll, OpenConns, Open
  <2>2. CASE caller'[c] = "drained"
    <3>1. OpenConns' = OpenConns \cap hijacked
      BY <1>2, <2>2 DEF HttpShutdownPoll, Tracked, OpenConns, Open
    <3>2. {b \in Callers : caller'[b] = "drained"} = {b \in Callers : caller[b] = "drained"} \cup {c}
      BY <1>2, <2>2 DEF HttpShutdownPoll
    <3>3. inShutdown BY <1>2 DEF HttpShutdownPoll, ShutdownWasCalled, Seen
    <3>4. Lifecycle!ReportDrained(c)
      BY <2>1, <3>1, <3>2, <3>3 DEF Lifecycle!ReportDrained, OpenConns
    <3> QED BY <3>4 DEF Lifecycle!Next
  <2>3. CASE caller'[c] # "drained"
    BY <1>2, <2>1, <2>3, ReleaseRefines DEF HttpShutdownPoll
  <2> QED BY <2>2, <2>3
<1>3. CASE \/ ShutdownRead(c) \/ HttpShutdownExpires(c) \/ ShutdownGrpcStop(c) \/ GrpcStopped(c)
           \/ ShutdownGrpcGraceful(c) \/ GrpcDrained(c) \/ GrpcDrainExpires(c)
  <2> USE DEF ShutdownRead, HttpShutdownExpires, ShutdownGrpcStop, GrpcStopped,
              ShutdownGrpcGraceful, GrpcDrained, GrpcDrainExpires, GrpcStop
  <2>1. OpenConns' \subseteq OpenConns
    BY <1>3 DEF RPCs, OpenConns, Open
  <2>2. UNCHANGED <<launch, shutter, inShutdown, cause, hijacked>>
        /\ \A b \in Callers : caller'[b] = "drained" <=> caller[b] = "drained"
    BY <1>3
  <2> QED BY <2>1, <2>2, ReleaseRefines
<1> QED BY <1>1, <1>2, <1>3 DEF ShutdownRuns

LEMMA StopperRefines ==
  ASSUME IInv, NEW c \in GraceCallers, GracefulStop(c)
  PROVE  [Lifecycle!Next]_(Lifecycle!vars)
  BY DEF GracefulStop, clients, Lifecycle!vars, Open

\* A request that comes may have the connection hijacked and is refused, if at all, in
\* a way that closes no hijacked connection.
LEMMA RequestStartRefines ==
  ASSUME IInv, NEW k \in Conns, RequestStart(k)
  PROVE  [Lifecycle!Next]_(Lifecycle!vars)
<1> USE DEF IInv, TypeOK, libs, grpc
<1>1. UNCHANGED <<launch, shutter, inShutdown, cause, caller>>
  BY DEF RequestStart
<1>2. CASE hijacked' = hijacked
  <2>1. OpenConns' \subseteq OpenConns
    BY DEF RequestStart, AfterRequest, OpenConns, Open
  <2> QED BY <1>1, <1>2, <2>1, ReleaseRefines
<1>3. CASE hijacked' # hijacked
  <2>1. k \in GrpcConns /\ hijacked' = hijacked \cup {k}
    BY <1>3 DEF RequestStart
  <2>2. conn' = [conn EXCEPT ![k] = conn'[k]] /\ conn'[k] \in {"idle", "active"} /\ Open(k)
    BY <2>1 DEF RequestStart, AfterRequest, Open
  <2>3. OpenConns' = OpenConns /\ k \in OpenConns
    BY <2>2 DEF OpenConns, Open
  <2>4. Lifecycle!GiveUp(k)
    BY <1>1, <2>1, <2>3 DEF Lifecycle!GiveUp, OpenConns
  <2> QED BY <2>4 DEF Lifecycle!Next
<1> QED BY <1>2, <1>3

LEMMA ClientRefines ==
  ASSUME IInv, NEW k \in Conns, Client(k)
  PROVE  [Lifecycle!Next]_(Lifecycle!vars)
<1> USE DEF IInv, TypeOK, libs, grpc
<1>1. CASE Accept(k)
  <2>1. UNCHANGED <<launch, shutter, inShutdown, cause, caller, hijacked>>
    BY <1>1 DEF Accept
  <2>2. shutter = "running" /\ ~inShutdown /\ launch = "serving"
    BY <1>1 DEF Accept, ListenerClosed, ShutterFollowsLaunch
  <2>3. k \notin OpenConns /\ OpenConns' = OpenConns \cup {k}
    BY <1>1 DEF Accept, OpenConns, Open
  <2>4. Lifecycle!Accept(k)
    BY <2>1, <2>2, <2>3 DEF Lifecycle!Accept, OpenConns
  <2> QED BY <2>4 DEF Lifecycle!Next
<1>2. CASE RequestEnd(k) \/ RpcCloses(k) \/ Disconnect(k)
  <2>1. OpenConns' \subseteq OpenConns /\ UNCHANGED <<launch, shutter, inShutdown, cause, caller, hijacked>>
    BY <1>2 DEF RequestEnd, RpcCloses, Disconnect, AfterRequest, OpenConns, Open
  <2> QED BY <2>1, ReleaseRefines
<1> QED BY <1>1, <1>2, RequestStartRefines DEF Client

LEMMA NextRefines == IInv /\ [Next]_vars => [Lifecycle!Next]_(Lifecycle!vars)
<1> SUFFICES ASSUME IInv, [Next]_vars PROVE [Lifecycle!Next]_(Lifecycle!vars)
  OBVIOUS
<1>1. CASE UNCHANGED vars
  BY <1>1 DEF vars, Lifecycle!vars, Open
<1> QED BY <1>1, LaunchRefines, ShutdownRefines, StopperRefines, ClientRefines DEF Next

\* The server implements the lifecycle it promises, but for the connections that it gives
\* up (server/interface.go:21-39, server.go:128-349).
THEOREM Refinement == SafetySpec => LifecycleSpec
<1>1. Init => Lifecycle!Init BY InitRefines
<1>2. IInv /\ [Next]_vars => [Lifecycle!Next]_(Lifecycle!vars) BY NextRefines
<1> QED BY <1>1, <1>2, Invariance, PTL DEF SafetySpec, LifecycleSpec, Lifecycle!Spec
=============================================================================
