------------------------- MODULE ConnectServerProofs --------------------------
(***************************************************************************)
(* The safety of ConnectServer for any number of callers of Shutdown and of   *)
(* client connections.                                                       *)
(***************************************************************************)
EXTENDS MCHealth, TLAPS

\* The shutter has an error once it was told to shut down.
ShutterHasCause == cause = "none" <=> shutter = "running"

\* The callback is not there before Launch registers it.
RegisteredByLaunch ==
    launch \in {"idle", "listening", "register"} => callback = "none"

\* The http.Server is closed by the callback, and by nothing else: when it was
\* registered in time the shutter gets to it.
ClosedByCallback ==
    /\ inShutdown => shutter \in {"closing", "terminated"}
    /\ callback = "registered" /\ shutter \in {"closing", "terminated"} => inShutdown

\* A server that was closed while it served accepts nothing.
ListenerClosed == inShutdown /\ launch = "serving" => listener # "open"

\* What TerminatedMeansClosed needs to be kept: nobody serves any more.
ClosedForGood ==
    shutter = "terminated" /\ callback = "registered" => Web!Tracked = {} /\ launch # "serving"

IInv ==
    /\ Web!TypeOK
    /\ ShutterHasCause
    /\ RegisteredByLaunch
    /\ ClosedByCallback
    /\ ListenerClosed
    /\ ClosedForGood
    /\ Web!ClosedIsNotAFailure

-----------------------------------------------------------------------------
LEMMA InitIInv == Web!Init => IInv
  BY DEF Web!Init, IInv, Web!TypeOK, ShutterHasCause, RegisteredByLaunch, ClosedByCallback,
     ListenerClosed, ClosedForGood, Web!ClosedIsNotAFailure

LEMMA LaunchIInv ==
  ASSUME IInv,
         \/ Web!LaunchListen \/ Web!LaunchErrorLogger \/ Web!LaunchRegister \/ Web!LaunchServe
         \/ Web!LaunchPanics \/ Web!ServeReturns \/ Web!LaunchReturns
  PROVE  IInv'
<1> USE DEF IInv, Web!TypeOK, ShutterHasCause, RegisteredByLaunch, ClosedByCallback,
            ListenerClosed, ClosedForGood, Web!ClosedIsNotAFailure, Web!ShutterShutdown,
            Web!clients
<1>1. UNCHANGED Web!Tracked
  BY DEF Web!LaunchListen, Web!LaunchErrorLogger, Web!LaunchRegister, Web!LaunchServe,
     Web!LaunchPanics, Web!ServeReturns, Web!LaunchReturns, Web!Tracked, Web!Open
<1>2. CASE Web!LaunchListen BY <1>1, <1>2 DEF Web!LaunchListen
<1>3. CASE Web!LaunchErrorLogger BY <1>1, <1>3 DEF Web!LaunchErrorLogger
<1>4. CASE Web!LaunchRegister BY <1>1, <1>4 DEF Web!LaunchRegister
<1>5. CASE Web!LaunchServe BY <1>1, <1>5 DEF Web!LaunchServe
<1>6. CASE Web!LaunchPanics BY <1>1, <1>6 DEF Web!LaunchPanics
<1>7. CASE Web!ServeReturns BY <1>1, <1>7 DEF Web!ServeReturns
<1>8. CASE Web!LaunchReturns BY <1>1, <1>8 DEF Web!LaunchReturns
<1> QED BY <1>2, <1>3, <1>4, <1>5, <1>6, <1>7, <1>8

LEMMA ShutdownIInv ==
  ASSUME IInv,
         \/ Web!RunCallbacks \/ Web!CloseConns
         \/ \E c \in Callers : Web!Shutdown(c) \/ Web!ShutdownReturns(c)
  PROVE  IInv'
<1> USE DEF IInv, Web!TypeOK, ShutterHasCause, RegisteredByLaunch, ClosedByCallback,
            ListenerClosed, ClosedForGood, Web!ClosedIsNotAFailure, Web!ShutterShutdown,
            Web!clients
<1>1. CASE Web!RunCallbacks
  <2>1. UNCHANGED Web!Tracked BY <1>1 DEF Web!RunCallbacks, Web!Tracked, Web!Open
  <2>2. CASE callback = "registered" BY <1>1, <2>1, <2>2 DEF Web!RunCallbacks
  <2>3. CASE callback # "registered" BY <1>1, <2>1, <2>3 DEF Web!RunCallbacks
  <2> QED BY <2>2, <2>3
<1>2. CASE Web!CloseConns
  <2>1. Web!Tracked' = {} BY <1>2 DEF Web!CloseConns, Web!Tracked, Web!Open
  <2>2. conn' \in [Web!Conns -> {"none", "idle", "active", "closed"}] BY <1>2 DEF Web!CloseConns
  <2> QED BY <1>2, <2>1, <2>2 DEF Web!CloseConns
<1>3. ASSUME NEW c \in Callers, Web!Shutdown(c) PROVE IInv'
  <2>1. UNCHANGED Web!Tracked BY <1>3 DEF Web!Shutdown, Web!Tracked, Web!Open
  <2> QED BY <1>3, <2>1 DEF Web!Shutdown
<1>4. ASSUME NEW c \in Callers, Web!ShutdownReturns(c) PROVE IInv'
  <2>1. UNCHANGED Web!Tracked BY <1>4 DEF Web!ShutdownReturns, Web!Tracked, Web!Open
  <2> QED BY <1>4, <2>1 DEF Web!ShutdownReturns
<1> QED BY <1>1, <1>2, <1>3, <1>4

LEMMA ClientIInv ==
  ASSUME IInv, NEW k \in Web!Conns,
         Web!Accept(k) \/ Web!RequestStart(k) \/ Web!RequestEnd(k) \/ Web!Disconnect(k)
  PROVE  IInv'
<1> USE DEF Web!Accept, Web!RequestStart, Web!RequestEnd, Web!Disconnect
<1>1. UNCHANGED <<transport, launch, listener, callback, inShutdown, shutter, cause, caller>>
  OBVIOUS
<1>2. Web!TypeOK' BY DEF IInv, Web!TypeOK
<1>3. CASE Web!Accept(k)
  <2>1. ~(shutter = "terminated" /\ callback = "registered")
    BY <1>3 DEF IInv, ClosedForGood
  <2> QED BY <1>1, <1>2, <2>1 DEF IInv, ShutterHasCause, RegisteredByLaunch,
       ClosedByCallback, ListenerClosed, ClosedForGood, Web!ClosedIsNotAFailure
<1>4. CASE Web!RequestStart(k) \/ Web!RequestEnd(k) \/ Web!Disconnect(k)
  <2>1. Web!Tracked' \subseteq Web!Tracked BY <1>4 DEF IInv, Web!TypeOK, Web!Tracked, Web!Open
  <2> QED BY <1>1, <1>2, <2>1 DEF IInv, ShutterHasCause, RegisteredByLaunch,
       ClosedByCallback, ListenerClosed, ClosedForGood, Web!ClosedIsNotAFailure
<1> QED BY <1>3, <1>4

LEMMA NextIInv == IInv /\ [Web!Next]_(Web!vars) => IInv'
<1> SUFFICES ASSUME IInv, [Web!Next]_(Web!vars) PROVE IInv'
  OBVIOUS
<1>1. CASE UNCHANGED Web!vars
  BY <1>1 DEF Web!vars, Web!clients, IInv, Web!TypeOK, ShutterHasCause, RegisteredByLaunch,
     ClosedByCallback, ListenerClosed, ClosedForGood, Web!ClosedIsNotAFailure, Web!Tracked,
     Web!Open
<1> QED BY <1>1, LaunchIInv, ShutdownIInv, ClientIInv DEF Web!Next

LEMMA Invariance == Web!SafetySpec => []IInv
  BY InitIInv, NextIInv, PTL DEF Web!SafetySpec

\* The types; a shutter that terminated has closed every connection the http.Server
\* knows of, if its callback was registered in time; and ErrServerClosed is never taken
\* for the cause (connectrpc/server.go:159-199).
THEOREM ServerInvHolds == Web!SafetySpec => []ServerInv
<1>1. IInv => ServerInv
  BY DEF IInv, ServerInv, Web!ServerInv, ClosedForGood, Web!TerminatedMeansClosed
<1> QED BY <1>1, Invariance, PTL
=============================================================================
