------------------------ MODULE TrafficDirectorProofs -------------------------
(***************************************************************************)
(* The safety of TrafficDirector for any number of callers of Shutdown and    *)
(* of client connections; the bootstrap file, for any number of processes     *)
(* that share it and of crashes.                                             *)
(***************************************************************************)
EXTENDS MCTrafficDirector, Integers, Sequences, SequenceTheorems, TLAPS

\* Only the end of Serve has a cause.
CauseFollowsLaunch == cause # "none" <=> launch \in {"terminating", "done"}

\* Stop and GracefulStop mark the server before they wait, and a server is done only
\* when no connection is left.
StopsAreSeen ==
    /\ \A c \in Callers : caller[c] = "stopping" => xdsServer # "serving"
    /\ \A c \in GraceCallers : stopper[c] = "waiting" => xdsServer # "serving"
    /\ xdsServer = "done" => NoneOpen

\* Whoever got to the end of a stop has seen the server done, which it stays.
EndsAreForGood ==
    /\ \A c \in GraceCallers : stopper[c] = "ended" => xdsServer = "done"
    /\ \A c \in Callers : Returned(c) => xdsServer = "done"

IInv == TypeOK /\ CauseFollowsLaunch /\ StopsAreSeen /\ EndsAreForGood

-----------------------------------------------------------------------------
LEMMA InitIInv == Init => IInv
  BY CallersAssumption DEF Init, IInv, TypeOK, CauseFollowsLaunch, StopsAreSeen, EndsAreForGood, Returned,
     NoneOpen, Open, Callers

LEMMA LaunchIInv ==
  ASSUME IInv, LaunchListen \/ LaunchServe \/ ServeReturns \/ LaunchTerminated
  PROVE  IInv'
<1> USE DEF LaunchListen, LaunchServe, ServeReturns, LaunchTerminated
<1>1. TypeOK' BY DEF IInv, TypeOK
<1>2. CauseFollowsLaunch' BY DEF IInv, TypeOK, CauseFollowsLaunch
<1>3. UNCHANGED <<xdsServer, caller, stopper, conn>> OBVIOUS
<1>4. StopsAreSeen' /\ EndsAreForGood'
  BY <1>3 DEF IInv, StopsAreSeen, EndsAreForGood, Returned, NoneOpen, Open
<1> QED BY <1>1, <1>2, <1>4 DEF IInv

LEMMA ShutdownIInv ==
  ASSUME IInv, NEW c \in Callers,
         ShutdownForce(c) \/ ShutdownGraceful(c) \/ ShutdownRuns(c)
  PROVE  IInv'
<1> USE DEF IInv, TypeOK, CauseFollowsLaunch, StopsAreSeen, EndsAreForGood, Returned,
            NoneOpen, Open
<1>1. CASE ShutdownForce(c) BY <1>1 DEF ShutdownForce, Quitting
<1>2. CASE ShutdownGraceful(c) BY <1>2 DEF ShutdownGraceful
<1>3. CASE SelectStopped(c) BY <1>3 DEF SelectStopped
<1>4. CASE SelectTimeout(c) BY <1>4 DEF SelectTimeout, Quitting
<1>5. CASE StopEnds(c) BY <1>5 DEF StopEnds, CloseAll
<1> QED BY <1>1, <1>2, <1>3, <1>4, <1>5 DEF ShutdownRuns

LEMMA StopperIInv ==
  ASSUME IInv, NEW c \in GraceCallers, Stopper(c)
  PROVE  IInv'
<1> USE DEF IInv, TypeOK, CauseFollowsLaunch, StopsAreSeen, EndsAreForGood, Returned,
            NoneOpen, Open
<1>1. CASE StopperBegins(c) BY <1>1 DEF StopperBegins, CloseAll
<1>2. CASE StopperEnds(c) BY <1>2 DEF StopperEnds
<1> QED BY <1>1, <1>2 DEF Stopper

LEMMA ClientIInv ==
  ASSUME IInv, NEW k \in Conns, Accept(k) \/ RpcStart(k) \/ RpcEnd(k) \/ Disconnect(k)
  PROVE  IInv'
<1> USE DEF Accept, RpcStart, RpcEnd, Disconnect
<1>1. UNCHANGED <<launch, xdsServer, cause, caller, stopper>> OBVIOUS
<1>2. TypeOK' BY DEF IInv, TypeOK
<1>3. xdsServer = "done" => NoneOpen'
  BY DEF IInv, TypeOK, StopsAreSeen, NoneOpen, Open
<1> QED BY <1>1, <1>2, <1>3 DEF IInv, CauseFollowsLaunch, StopsAreSeen, EndsAreForGood, Returned

LEMMA NextIInv == IInv /\ [Next]_vars => IInv'
<1> SUFFICES ASSUME IInv, [Next]_vars PROVE IInv'
  OBVIOUS
<1>1. CASE UNCHANGED vars
  BY <1>1 DEF vars, IInv, TypeOK, CauseFollowsLaunch, StopsAreSeen, EndsAreForGood, Returned,
     NoneOpen, Open
<1> QED BY <1>1, LaunchIInv, ShutdownIInv, StopperIInv, ClientIInv DEF Next

LEMMA Invariance == SafetySpec => []IInv
  BY InitIInv, NextIInv, PTL DEF SafetySpec

\* A Shutdown of either kind that has returned leaves the server stopped, without a
\* connection, for ever (traffic-director/server.go:165-195).
THEOREM ServerInvHolds == SafetySpec => []ServerInv
<1>1. IInv => ServerInv
  BY DEF IInv, ServerInv, ReturnedMeansStopped, StopsAreSeen, EndsAreForGood
<1> QED BY <1>1, Invariance, PTL

-----------------------------------------------------------------------------
(* The server implements ServerLifecycle.                                    *)

LEMMA InitRefines == Init => Lifecycle!Init
  BY DEF Init, Lifecycle!Init, Open, Returned

\* Steps in which connections leave at most.
LEMMA ReleaseRefines ==
  ASSUME UNCHANGED <<launch, xdsServer, cause>>,
         {k \in Conns : Open(k)}' \subseteq {k \in Conns : Open(k)},
         {c \in Callers : Returned(c)}' = {c \in Callers : Returned(c)}
  PROVE  Lifecycle!Next
<1> DEFINE inCare == {k \in Conns : Open(k)}
<1>1. inCare' = inCare \ (inCare \ inCare') /\ inCare \ inCare' \in SUBSET Conns
  OBVIOUS
<1>2. Lifecycle!Release(inCare \ inCare')
  BY <1>1 DEF Lifecycle!Release
<1> QED BY <1>1, <1>2 DEF Lifecycle!Next

\* Steps that mark the server, with which connections may leave.
LEMMA StopRefines ==
  ASSUME IInv, UNCHANGED <<launch, cause>>, xdsServer' # "serving",
         {k \in Conns : Open(k)}' \subseteq {k \in Conns : Open(k)},
         {c \in Callers : Returned(c)}' = {c \in Callers : Returned(c)}
  PROVE  Lifecycle!Next
<1> DEFINE inCare == {k \in Conns : Open(k)}
<1> DEFINE K == inCare \ inCare'
<1>1. inCare' = inCare \ K /\ K \in SUBSET Conns
  OBVIOUS
<1>2. CASE cause = "none" /\ xdsServer = "serving"
  <2>1. Lifecycle!Stop(K) BY <1>1, <1>2 DEF Lifecycle!Stop
  <2> QED BY <1>1, <2>1 DEF Lifecycle!Next
<1>3. CASE ~(cause = "none" /\ xdsServer = "serving")
  <2>1. Lifecycle!Release(K) BY <1>1, <1>3 DEF Lifecycle!Release
  <2> QED BY <1>1, <2>1 DEF Lifecycle!Next
<1> QED BY <1>2, <1>3

\* Steps with which a Shutdown returns.
LEMMA ReturnRefines ==
  ASSUME IInv, NEW c \in Callers, UNCHANGED <<launch, cause>>,
         xdsServer # "serving", xdsServer' = "done", NoneOpen',
         {b \in Callers : Returned(b)}' = {b \in Callers : Returned(b)} \cup {c}
  PROVE  Lifecycle!Next
<1>1. {k \in Conns : Open(k)}' = {} BY DEF NoneOpen, Open
<1>2. Lifecycle!ReportDrained(c) BY <1>1 DEF Lifecycle!ReportDrained
<1> QED BY <1>2 DEF Lifecycle!Next

LEMMA LaunchRefines ==
  ASSUME IInv, LaunchListen \/ LaunchServe \/ ServeReturns \/ LaunchTerminated
  PROVE  [Lifecycle!Next]_(Lifecycle!vars)
<1> USE DEF IInv, TypeOK, CauseFollowsLaunch
<1>1. UNCHANGED <<xdsServer, {k \in Conns : Open(k)}, {c \in Callers : Returned(c)}>>
  BY DEF LaunchListen, LaunchServe, ServeReturns, LaunchTerminated, Open, Returned
<1>2. CASE UNCHANGED cause
  <2>1. CASE launch' = "serving"
    BY <1>1, <1>2, <2>1 DEF LaunchListen, LaunchServe, ServeReturns, LaunchTerminated,
       Lifecycle!Next, Lifecycle!Up, Lifecycle!vars
  <2>2. CASE launch' # "serving"
    BY <1>1, <1>2, <2>2 DEF LaunchListen, LaunchServe, ServeReturns, LaunchTerminated,
       Lifecycle!vars
  <2> QED BY <2>1, <2>2
<1>3. CASE ~UNCHANGED cause
  <2>1. cause = "none" /\ cause' \in {"listen", "closed", "serve"}
    BY <1>3 DEF LaunchListen, LaunchServe, ServeReturns, LaunchTerminated
  <2>2. Lifecycle!GoDown(cause')
    BY <1>1, <1>3, <2>1 DEF LaunchListen, LaunchServe, ServeReturns, LaunchTerminated,
       Lifecycle!GoDown
  <2> QED BY <2>1, <2>2 DEF Lifecycle!Next
<1> QED BY <1>2, <1>3

LEMMA ShutdownRefines ==
  ASSUME IInv, NEW c \in Callers,
         ShutdownForce(c) \/ ShutdownGraceful(c) \/ ShutdownRuns(c)
  PROVE  [Lifecycle!Next]_(Lifecycle!vars)
<1> USE DEF IInv, TypeOK
<1>1. CASE ShutdownForce(c) \/ SelectTimeout(c)
  <2>1. UNCHANGED <<launch, cause, {k \in Conns : Open(k)}>> /\ xdsServer' # "serving"
    BY <1>1 DEF ShutdownForce, SelectTimeout, Quitting, Open
  <2>2. {b \in Callers : Returned(b)}' = {b \in Callers : Returned(b)}
    BY <1>1 DEF ShutdownForce, SelectTimeout, Returned
  <2> QED BY <2>1, <2>2, StopRefines
<1>2. CASE ShutdownGraceful(c)
  <2>1. UNCHANGED <<launch, cause, xdsServer, {k \in Conns : Open(k)}>>
    BY <1>2 DEF ShutdownGraceful, Open
  <2>2. {b \in Callers : Returned(b)}' = {b \in Callers : Returned(b)}
    BY <1>2 DEF ShutdownGraceful, Returned
  <2> QED BY <2>1, <2>2, ReleaseRefines
<1>3. CASE SelectStopped(c)
  <2>1. UNCHANGED <<launch, cause, xdsServer>> /\ xdsServer = "done" /\ NoneOpen'
    BY <1>3 DEF SelectStopped, EndsAreForGood, StopsAreSeen, NoneOpen, Open
  <2>2. {b \in Callers : Returned(b)}' = {b \in Callers : Returned(b)} \cup {c}
    BY <1>3 DEF SelectStopped, Returned
  <2> QED BY <2>1, <2>2, ReturnRefines
<1>4. CASE StopEnds(c)
  <2>1. UNCHANGED <<launch, cause>> /\ xdsServer # "serving" /\ xdsServer' = "done" /\ NoneOpen'
    BY <1>4 DEF StopEnds, StopsAreSeen, CloseAll, NoneOpen, Open
  <2>2. {b \in Callers : Returned(b)}' = {b \in Callers : Returned(b)} \cup {c}
    BY <1>4 DEF StopEnds, Returned
  <2> QED BY <2>1, <2>2, ReturnRefines
<1> QED BY <1>1, <1>2, <1>3, <1>4 DEF ShutdownRuns

LEMMA StopperRefines ==
  ASSUME IInv, NEW c \in GraceCallers, Stopper(c)
  PROVE  Lifecycle!Next
<1>1. UNCHANGED <<launch, cause>> /\ xdsServer' # "serving"
  BY DEF Stopper, StopperBegins, StopperEnds
<1>2. {k \in Conns : Open(k)}' \subseteq {k \in Conns : Open(k)}
  BY DEF Stopper, StopperBegins, StopperEnds, CloseAll, Open
<1>3. {b \in Callers : Returned(b)}' = {b \in Callers : Returned(b)}
  BY DEF Stopper, StopperBegins, StopperEnds, Returned
<1> QED BY <1>1, <1>2, <1>3, StopRefines

LEMMA ClientRefines ==
  ASSUME IInv, NEW k \in Conns, Accept(k) \/ RpcStart(k) \/ RpcEnd(k) \/ Disconnect(k)
  PROVE  Lifecycle!Next
<1> USE DEF IInv, TypeOK
<1>1. UNCHANGED <<launch, xdsServer, cause, {b \in Callers : Returned(b)}>>
  BY DEF Accept, RpcStart, RpcEnd, Disconnect, Returned
<1>2. CASE Accept(k)
  <2>1. cause = "none" BY <1>2 DEF Accept, CauseFollowsLaunch
  <2>2. k \notin {j \in Conns : Open(j)}
        /\ {j \in Conns : Open(j)}' = {j \in Conns : Open(j)} \cup {k}
    BY <1>2 DEF Accept, Open
  <2>3. Lifecycle!Accept(k) BY <1>1, <1>2, <2>1, <2>2 DEF Accept, Lifecycle!Accept
  <2> QED BY <2>3 DEF Lifecycle!Next
<1>3. CASE RpcStart(k) \/ RpcEnd(k) \/ Disconnect(k)
  <2>1. {j \in Conns : Open(j)}' \subseteq {j \in Conns : Open(j)}
    BY <1>3 DEF RpcStart, RpcEnd, Disconnect, Open
  <2> QED BY <1>1, <2>1, ReleaseRefines
<1> QED BY <1>2, <1>3

LEMMA NextRefines == IInv /\ [Next]_vars => [Lifecycle!Next]_(Lifecycle!vars)
<1> SUFFICES ASSUME IInv, [Next]_vars PROVE [Lifecycle!Next]_(Lifecycle!vars)
  OBVIOUS
<1>1. CASE UNCHANGED vars
  BY <1>1 DEF vars, Lifecycle!vars, Open, Returned
<1> QED BY <1>1, LaunchRefines, ShutdownRefines, StopperRefines, ClientRefines DEF Next

\* The traffic director server implements the lifecycle, and calls of Shutdown that
\* stop it by force keep the promise too (server/interface.go:21-39,
\* traffic-director/server.go:139-195).
THEOREM Refinement == SafetySpec => LifecycleSpec
<1>1. Init => Lifecycle!Init BY InitRefines
<1>2. IInv /\ [Next]_vars => [Lifecycle!Next]_(Lifecycle!vars) BY NextRefines
<1> QED BY <1>1, <1>2, Invariance, PTL DEF SafetySpec, LifecycleSpec, Lifecycle!Spec

-----------------------------------------------------------------------------
(* The bootstrap file: what the invariant says of it                         *)

\* The processes that write are set up to generate the file, and each is where its calls of
\* Write have left it.
WritersAdvance ==
    \A p \in Procs :
        /\ pc[p] \in {"create", "write", "newline", "close"} => p \in File!Generators
        /\ pc[p] = "write" => offset[p] = 0
        /\ pc[p] = "newline" => offset[p] = File!Length(config[p])
        /\ pc[p] = "close" => offset[p] = File!Length(config[p]) + 1

\* The file f has the whole of the config c.
Holds(f, c) == \A i \in 1 .. File!Length(c) : f[i] = [of |-> c, part |-> i]

\* The file f as the writers leave it who write n tokens and a newline each.
Shape(f, n) ==
    /\ Len(f) \in {0, n, n + 1}
    /\ Len(f) = n + 1 => f[n + 1] = File!Newline

\* Of configs of one length, the file has one in full, or somebody has yet to write it.
OneLength ==
    \E n \in 1 .. 3 :
        /\ \A p \in File!Writing : File!Length(config[p]) = n
        /\ Shape(file, n)
        /\ \/ \E p \in Procs : pc[p] = "write"
           \/ Len(file) >= n /\ \E c \in File!Configs : File!Length(c) = n /\ Holds(file, c)

SameLengths == ~spoiled => OneLength \/ (file = File!Absent /\ File!Writing = {})

\* The owner writes alone, and the file is what it has written.
OwnerIsAlone ==
    \A p \in Procs : owner = p =>
        /\ File!Writing \subseteq {p}
        /\ pc[p] = "write" => file = <<>>
        /\ pc[p] = "newline" => file = File!Json(config[p])
        /\ pc[p] = "close" \/ (pc[p] = "booted" /\ p \in File!Generators) =>
              file = File!Text(config[p])

FileIInv == File!TypeOK /\ WritersAdvance /\ SameLengths /\ OwnerIsAlone

-----------------------------------------------------------------------------
(* Configs as tokens, and writes at an offset                                *)

LEMMA LengthIs == ASSUME NEW c \in File!Configs PROVE File!Length(c) \in 1 .. 3
BY DEF File!Configs, File!Infos, File!Length

LEMMA JsonIs ==
  ASSUME NEW c \in File!Configs
  PROVE  /\ Len(File!Json(c)) = File!Length(c)
         /\ DOMAIN File!Json(c) = 1 .. File!Length(c)
         /\ \A i \in 1 .. File!Length(c) : File!Json(c)[i] = [of |-> c, part |-> i]
BY LengthIs DEF File!Json

LEMMA TextIs ==
  ASSUME NEW c \in File!Configs
  PROVE  /\ Len(File!Text(c)) = File!Length(c) + 1
         /\ Holds(File!Text(c), c)
         /\ File!Text(c)[File!Length(c) + 1] = File!Newline
         /\ File!Text(c) = [i \in 1 .. File!Length(c) + 1 |->
                IF i <= File!Length(c) THEN File!Json(c)[i] ELSE File!Newline]
<1> DEFINE j == File!Json(c)
           n == File!Length(c)
           S == {j[i] : i \in 1 .. n} \cup {File!Newline}
           l == <<File!Newline>>
           t == [i \in 1 .. n + 1 |-> IF i <= n THEN j[i] ELSE File!Newline]
<1>1. n \in 1 .. 3 BY LengthIs
<1>2. Len(j) = n /\ DOMAIN j = 1 .. n /\ \A i \in 1 .. n : j[i] = [of |-> c, part |-> i]
  BY JsonIs
<1>3. j = [i \in 1 .. n |-> [of |-> c, part |-> i]] BY DEF File!Json
<1>4. File!Text(c) = j \o l BY DEF File!Text
<1> HIDE DEF n, j
<1>5. j \in Seq(S)
  <2>1. j \in [1 .. n -> S] BY <1>2, <1>3
  <2>2. n \in Nat BY <1>1
  <2> HIDE DEF S
  <2> QED BY <2>1, <2>2
<1>6. l \in Seq(S) /\ Len(l) = 1 /\ l[1] = File!Newline OBVIOUS
<1>7. t \in Seq(S) /\ Len(t) = n + 1 BY <1>1, <1>2
<1> HIDE DEF S, l
<1>8. /\ j \o l \in Seq(S) /\ Len(j \o l) = Len(j) + Len(l)
      /\ \A i \in 1 .. Len(j) + Len(l) :
            (j \o l)[i] = IF i <= Len(j) THEN j[i] ELSE l[i - Len(j)]
  BY <1>5, <1>6, ConcatProperties
<1>9. ASSUME NEW i \in 1 .. n + 1
      PROVE  (j \o l)[i] = IF i <= n THEN j[i] ELSE File!Newline
  BY <1>1, <1>2, <1>6, <1>8
<1>10. \A i \in 1 .. n + 1 : t[i] = IF i <= n THEN j[i] ELSE File!Newline OBVIOUS
<1> HIDE DEF t
<1>11. Len(j \o l) = n + 1 BY <1>1, <1>2, <1>6, <1>8
<1>12. j \o l = t
  <2>1. \A i \in 1 .. Len(j \o l) : (j \o l)[i] = t[i] BY <1>9, <1>10, <1>11
  <2>2. j \o l \in Seq(S) /\ t \in Seq(S) /\ Len(j \o l) = Len(t) BY <1>7, <1>8, <1>11
  <2> QED BY <2>1, <2>2, SeqEqual
<1>13. Holds(j \o l, c) BY <1>1, <1>2, <1>9 DEF Holds, n
<1>14. (j \o l)[n + 1] = File!Newline
  <2>1. n + 1 \in 1 .. n + 1 /\ ~(n + 1 <= n) BY <1>1
  <2> QED BY <1>9, <2>1, Zenon
<1> QED BY <1>4, <1>11, <1>12, <1>13, <1>14 DEF n, t, j

LEMMA WriteAtIs ==
  ASSUME NEW f, NEW tokens, NEW at \in Nat, Len(f) \in Nat, Len(tokens) \in Nat
  PROVE  LET g == File!WriteAt(f, at, tokens)
             n == IF Len(f) > at + Len(tokens) THEN Len(f) ELSE at + Len(tokens)
         IN  /\ Len(g) = n
             /\ \A i \in 1 .. n :
                   g[i] = IF i \in at + 1 .. at + Len(tokens) THEN tokens[i - at]
                          ELSE IF i <= Len(f) THEN f[i] ELSE File!Hole
BY DEF File!WriteAt

\* The owner's writes.
LEMMA OwnersWrites ==
  ASSUME NEW c \in File!Configs
  PROVE  /\ File!WriteAt(<<>>, 0, File!Json(c)) = File!Json(c)
         /\ File!WriteAt(File!Json(c), File!Length(c), <<File!Newline>>) = File!Text(c)
<1> DEFINE j == File!Json(c)
           n == File!Length(c)
           l == <<File!Newline>>
<1>1. n \in 1 .. 3 BY LengthIs
<1>2. Len(j) = n /\ DOMAIN j = 1 .. n /\ j = [i \in 1 .. n |-> j[i]] BY JsonIs DEF File!Json
<1>3. File!Text(c) = [i \in 1 .. n + 1 |-> IF i <= n THEN j[i] ELSE File!Newline] BY TextIs
<1> HIDE DEF j, n
<1>4. Len(<<>>) = 0 /\ Len(l) = 1 /\ l[1] = File!Newline OBVIOUS
<1> HIDE DEF l
<1>5. File!WriteAt(<<>>, 0, j) = j
  <2>1. (IF Len(<<>>) > 0 + Len(j) THEN Len(<<>>) ELSE 0 + Len(j)) = n BY <1>1, <1>2, <1>4
  <2>2. ASSUME NEW i \in 1 .. n
        PROVE  (IF i \in 0 + 1 .. 0 + Len(j) THEN j[i - 0]
                ELSE IF i <= Len(<<>>) THEN <<>>[i] ELSE File!Hole) = j[i]
    BY <1>1, <1>2
  <2>3. File!WriteAt(<<>>, 0, j) = [i \in 1 .. n |-> j[i]] BY <2>1, <2>2 DEF File!WriteAt
  <2> QED BY <1>2, <2>3
<1>6. File!WriteAt(j, n, l) = [i \in 1 .. n + 1 |-> IF i <= n THEN j[i] ELSE File!Newline]
  <2>1. (IF Len(j) > n + Len(l) THEN Len(j) ELSE n + Len(l)) = n + 1 BY <1>1, <1>2, <1>4
  <2>2. ASSUME NEW i \in 1 .. n + 1
        PROVE  (IF i \in n + 1 .. n + Len(l) THEN l[i - n]
                ELSE IF i <= Len(j) THEN j[i] ELSE File!Hole)
                = IF i <= n THEN j[i] ELSE File!Newline
    BY <1>1, <1>2, <1>4
  <2> QED BY <2>1, <2>2 DEF File!WriteAt
<1> QED BY <1>3, <1>5, <1>6 DEF j, n, l

-----------------------------------------------------------------------------
LEMMA FileInit == File!Init => FileIInv
<1> SUFFICES ASSUME File!Init PROVE FileIInv
  OBVIOUS
<1>1. /\ setup \in [Procs -> File!Setups] /\ healthy \in BOOLEAN /\ crashes = 0
      /\ pc = [p \in Procs |-> "off"] /\ config = [p \in Procs |-> File!NoConfig(p)]
      /\ offset = [p \in Procs |-> 0] /\ owner = "none" /\ spoiled = FALSE
  BY DEF File!Init
<1>2. \A p \in Procs : File!NoConfig(p) \in File!Configs
  BY DEF File!NoConfig, File!Configs, File!Infos
<1>3. \/ file = File!Absent
      \/ \E c \in File!Configs : File!Length(c) = 3 /\ file = File!Text(c)
  <2>1. ASSUME NEW p \in Procs
        PROVE  LET c == [File!NoConfig(p) EXCEPT !.info = "GKE"]
               IN  c \in File!Configs /\ File!Length(c) = 3
    BY DEF File!NoConfig, File!Configs, File!Infos, File!Length
  <2>2. \/ file = File!Absent
        \/ \E p \in Procs : file = File!Text([File!NoConfig(p) EXCEPT !.info = "GKE"])
    BY DEF File!Init
  <2> QED BY <2>1, <2>2
<1>4. File!Writing = {} BY <1>1 DEF File!Writing
<1>5. CASE file = File!Absent
  <2>1. SameLengths BY <1>4, <1>5 DEF SameLengths
  <2>2. File!TypeOK
    <3>1. spoiled \in BOOLEAN BY <1>1, Zenon
    <3>2. crashes \in 0 .. MaxCrashes BY <1>1, BootstrapAssumption DEF File!ConstantsOK
    <3> QED BY <1>1, <1>2, <1>5, <3>1, <3>2 DEF File!TypeOK
  <2>3. WritersAdvance BY <1>1 DEF WritersAdvance
  <2>4. OwnerIsAlone BY <1>1, BootstrapAssumption DEF OwnerIsAlone, File!ConstantsOK
  <2> QED BY <2>1, <2>2, <2>3, <2>4 DEF FileIInv
<1>6. CASE \E c \in File!Configs : File!Length(c) = 3 /\ file = File!Text(c)
  <2>1. PICK c \in File!Configs : File!Length(c) = 3 /\ file = File!Text(c) BY <1>6
  <2>2. Len(file) = 4 /\ Holds(file, c) /\ file[4] = File!Newline
    <3>1. /\ Len(file) = File!Length(c) + 1 /\ Holds(file, c)
          /\ file[File!Length(c) + 1] = File!Newline
      BY <2>1, TextIs
    <3>2. File!Length(c) + 1 = 4 BY <2>1
    <3> QED BY <3>1, <3>2
  <2>3. Shape(file, 3) BY <2>2 DEF Shape
  <2>4. OneLength
    <3>1. Len(file) >= 3 BY <2>2
    <3> QED BY <1>4, <2>1, <2>2, <2>3, <3>1 DEF OneLength
  <2>5. File!TypeOK
    <3>1. spoiled \in BOOLEAN BY <1>1, Zenon
    <3>2. crashes \in 0 .. MaxCrashes BY <1>1, BootstrapAssumption DEF File!ConstantsOK
    <3> QED BY <1>1, <1>2, <2>2, <3>1, <3>2 DEF File!TypeOK
  <2>6. WritersAdvance BY <1>1 DEF WritersAdvance
  <2>7. OwnerIsAlone BY <1>1, BootstrapAssumption DEF OwnerIsAlone, File!ConstantsOK
  <2> QED BY <2>4, <2>5, <2>6, <2>7 DEF FileIInv, SameLengths
<1> QED BY <1>3, <1>5, <1>6

\* What the steps need of the types.
LEMMA FileTypes ==
  ASSUME File!TypeOK
  PROVE  /\ Len(file) \in 0 .. 4
         /\ \A p \in Procs : /\ config[p] \in File!Configs
                             /\ File!Length(config[p]) \in 1 .. 3
                             /\ File!NoConfig(p) \in File!Configs
                             /\ offset[p] \in 0 .. 4
<1>1. Len(File!Absent) = 1 BY DEF File!Absent
<1>2. \A p \in Procs : config[p] \in File!Configs /\ offset[p] \in 0 .. 4 BY DEF File!TypeOK
<1>3. \A p \in Procs : File!NoConfig(p) \in File!Configs
  BY DEF File!NoConfig, File!Configs, File!Infos
<1> QED BY <1>1, <1>2, <1>3, LengthIs DEF File!TypeOK

\* What the invariant says of the lengths looks at the writers and the file alone.
LEMMA OneLengthStays ==
  ASSUME OneLength, UNCHANGED file, File!Writing' \subseteq File!Writing,
         \A q \in File!Writing' : config'[q] = config[q],
         \A q \in Procs : pc[q] = "write" => pc'[q] = "write"
  PROVE  OneLength'
<1>1. PICK n \in 1 .. 3 :
         /\ \A q \in File!Writing : File!Length(config[q]) = n
         /\ Shape(file, n)
         /\ \/ \E q \in Procs : pc[q] = "write"
            \/ Len(file) >= n /\ \E c \in File!Configs : File!Length(c) = n /\ Holds(file, c)
  BY DEF OneLength
<1>2. \A q \in File!Writing' : File!Length(config'[q]) = n BY <1>1
<1>3. Shape(file', n) BY <1>1
<1>4. \/ \E q \in Procs : pc'[q] = "write"
      \/ Len(file') >= n /\ \E c \in File!Configs : File!Length(c) = n /\ Holds(file', c)
  BY <1>1
<1> QED BY <1>2, <1>3, <1>4 DEF OneLength

\* A process that leaves: only a writer does so in the middle, and that spoils the file.
LEMMA LeavingKeeps ==
  ASSUME FileIInv, NEW p \in Procs, NEW to \in {"off", "serving"}, File!Leaves(p, to),
         UNCHANGED <<setup, owner>>, healthy' \in BOOLEAN, crashes' \in 0 .. MaxCrashes,
         spoiled' = (spoiled \/ p \in File!Writing),
         file' = file \/ (p \in File!Writing /\ Len(file') \in 0 .. 4)
  PROVE  FileIInv'
<1>1. /\ pc' = [pc EXCEPT ![p] = to] /\ config' = [config EXCEPT ![p] = File!NoConfig(p)]
      /\ offset' = [offset EXCEPT ![p] = 0]
  BY DEF File!Leaves
<1>2. File!TypeOK BY DEF FileIInv
<1>3. File!NoConfig(p) \in File!Configs BY <1>2, FileTypes
<1>4. File!TypeOK'
  <2>1. spoiled' \in BOOLEAN BY Zenon
  <2>2. file' = File!Absent \/ Len(file') \in 0 .. 4 BY <1>2 DEF File!TypeOK
  <2> QED BY <1>1, <1>2, <1>3, <2>1, <2>2 DEF File!TypeOK
<1>5. /\ pc'[p] = to
      /\ \A q \in Procs \ {p} : pc'[q] = pc[q] /\ config'[q] = config[q] /\ offset'[q] = offset[q]
  BY <1>1, <1>2 DEF File!TypeOK
<1>6. File!Writing' = File!Writing \ {p} BY <1>5 DEF File!Writing
<1>7. WritersAdvance' BY <1>5 DEF FileIInv, WritersAdvance, File!Generators
<1>8. SameLengths'
  <2>1. SUFFICES ASSUME ~spoiled' PROVE OneLength' \/ (file = File!Absent /\ File!Writing = {})'
    BY DEF SameLengths
  <2>2. ~spoiled /\ p \notin File!Writing /\ file' = file BY <2>1
  <2>3. CASE OneLength
    <3>1. \A q \in File!Writing' : config'[q] = config[q] BY <1>5, <1>6 DEF File!Writing
    <3>2. \A q \in Procs : pc[q] = "write" => pc'[q] = "write"
      BY <1>5, <2>2 DEF File!Writing
    <3> QED BY <1>6, <2>2, <2>3, <3>1, <3>2, OneLengthStays
  <2>4. CASE file = File!Absent /\ File!Writing = {} BY <1>6, <2>2, <2>4 DEF File!Absent
  <2> QED BY <2>2, <2>3, <2>4 DEF FileIInv, SameLengths
<1>9. OwnerIsAlone'
  <2>1. SUFFICES ASSUME NEW q \in Procs, owner' = q
                 PROVE  /\ File!Writing' \subseteq {q}
                        /\ pc'[q] = "write" => file' = <<>>
                        /\ pc'[q] = "newline" => file' = File!Json(config'[q])
                        /\ pc'[q] = "close" \/ (pc'[q] = "booted" /\ q \in File!Generators') =>
                              file' = File!Text(config'[q])
    BY DEF OwnerIsAlone
  <2>2. /\ File!Writing \subseteq {q}
        /\ pc[q] = "write" => file = <<>>
        /\ pc[q] = "newline" => file = File!Json(config[q])
        /\ pc[q] = "close" \/ (pc[q] = "booted" /\ q \in File!Generators) =>
              file = File!Text(config[q])
    BY <2>1 DEF FileIInv, OwnerIsAlone
  <2>3. File!Generators' = File!Generators BY DEF File!Generators, File!Complete
  <2>4. CASE q = p BY <1>5, <1>6, <2>2, <2>4
  <2>5. CASE q # p BY <1>5, <1>6, <2>2, <2>3, <2>5
  <2> QED BY <2>4, <2>5
<1> QED BY <1>4, <1>7, <1>8, <1>9 DEF FileIInv

LEMMA StartKeeps == ASSUME FileIInv, NEW p \in Procs, File!Start(p) PROVE FileIInv'
<1>1. /\ pc[p] = "off" /\ UNCHANGED <<setup, healthy, crashes, offset, file, owner, spoiled>>
      /\ \/ /\ pc' = [pc EXCEPT ![p] = "booted"] /\ UNCHANGED config
            /\ File!Outcome(setup[p]) = "nil"
         \/ /\ pc' = [pc EXCEPT ![p] = "create"]
            /\ \E info \in File!Infos : config' = [config EXCEPT ![p].info = info]
            /\ File!Outcome(setup[p]) = "generate"
  BY DEF File!Start, File!world, File!history
<1>2. File!TypeOK BY DEF FileIInv
<1>3. p \in File!Generators <=> File!Outcome(setup[p]) = "generate"
  BY <1>2 DEF File!TypeOK, File!Outcome, File!Generators, File!Complete, File!Setups
<1>4. File!Generators' = File!Generators BY <1>1 DEF File!Generators, File!Complete
<1>5. config' \in [Procs -> File!Configs]
  BY <1>1, <1>2 DEF File!TypeOK, File!Configs
<1>6. /\ \A q \in Procs \ {p} : pc'[q] = pc[q] /\ config'[q] = config[q]
      /\ pc'[p] \in {"booted", "create"} /\ (pc'[p] = "create" => p \in File!Generators)
      /\ pc'[p] = "booted" => p \notin File!Generators
  BY <1>1, <1>2, <1>3 DEF File!TypeOK
<1>7. File!Writing' = File!Writing /\ p \notin File!Writing BY <1>1, <1>6 DEF File!Writing
<1>8. File!TypeOK' BY <1>1, <1>2, <1>5 DEF File!TypeOK
<1>9. WritersAdvance' BY <1>1, <1>4, <1>6 DEF FileIInv, WritersAdvance
<1>10. SameLengths'
  <2>1. OneLength => OneLength'
    <3>1. \A q \in File!Writing : config'[q] = config[q] BY <1>6, <1>7 DEF File!Writing
    <3>2. \A q \in Procs : pc[q] = "write" => pc'[q] = "write" BY <1>1, <1>6
    <3>3. file' = file BY <1>1
    <3> QED BY <1>7, <3>1, <3>2, <3>3, OneLengthStays
  <2> QED BY <1>1, <1>7, <2>1 DEF FileIInv, SameLengths, File!Absent
<1>11. OwnerIsAlone'
  BY <1>1, <1>4, <1>6, <1>7 DEF FileIInv, OwnerIsAlone
<1> QED BY <1>8, <1>9, <1>10, <1>11 DEF FileIInv

LEMMA DyingKeeps ==
  ASSUME FileIInv, NEW p \in Procs, File!Dies(p),
         file' = file \/ (p \in File!Writing /\ Len(file') \in 0 .. 4)
  PROVE  FileIInv'
BY LeavingKeeps DEF File!Dies, File!world, FileIInv, File!TypeOK

\* A file that was just made is empty, and who made it has yet to write.
LEMMA CreateKeeps == ASSUME FileIInv, NEW p \in Procs, File!Create(p) PROVE FileIInv'
<1>1. CASE File!Dies(p) /\ UNCHANGED file BY <1>1, DyingKeeps
<1>2. CASE ~(File!Dies(p) /\ UNCHANGED file)
  <2>1. /\ pc[p] = "create" /\ pc' = [pc EXCEPT ![p] = "write"] /\ file' = <<>>
        /\ offset' = [offset EXCEPT ![p] = 0]
        /\ owner' = IF File!Writing = {} THEN p ELSE "none"
        /\ spoiled' = \E q \in File!Writing :
                         spoiled \/ File!Length(config[q]) # File!Length(config[p])
        /\ UNCHANGED <<setup, healthy, crashes, config>>
    BY <1>2 DEF File!Create, File!world
  <2>2. File!TypeOK BY DEF FileIInv
  <2>3. Len(file') = 0 BY <2>1
  <2>4. File!TypeOK'
    <3>1. spoiled' \in BOOLEAN BY <2>1, Zenon
    <3>2. owner' \in Procs \cup {"none"} BY <2>1
    <3> QED BY <2>1, <2>2, <2>3, <3>1, <3>2 DEF File!TypeOK
  <2>5. /\ pc'[p] = "write" /\ offset'[p] = 0
        /\ \A q \in Procs \ {p} : pc'[q] = pc[q] /\ offset'[q] = offset[q]
    BY <2>1, <2>2 DEF File!TypeOK
  <2>6. File!Writing' = File!Writing \cup {p} BY <2>5 DEF File!Writing
  <2>7. File!Generators' = File!Generators BY <2>1 DEF File!Generators, File!Complete
  <2>8. WritersAdvance'
    BY <2>1, <2>5, <2>7 DEF FileIInv, WritersAdvance
  <2>9. SameLengths'
    <3>1. SUFFICES ASSUME ~spoiled' PROVE OneLength'
      BY DEF SameLengths
    <3> DEFINE n == File!Length(config[p])
    <3>2. n \in 1 .. 3 BY <2>2, FileTypes
    <3>3. \A q \in File!Writing : File!Length(config[q]) = n BY <2>1, <3>1
    <3> HIDE DEF n
    <3>4. \A q \in File!Writing' : File!Length(config'[q]) = n BY <2>1, <2>6, <3>3 DEF n
    <3>5. Shape(file', n)
      <4>1. Len(file') \in {0, n, n + 1} /\ Len(file') # n + 1 BY <2>3, <3>2
      <4> QED BY <4>1 DEF Shape
    <3> QED BY <2>5, <3>2, <3>4, <3>5 DEF OneLength
  <2>10. OwnerIsAlone'
    <3>1. SUFFICES ASSUME NEW q \in Procs, owner' = q
                   PROVE  /\ File!Writing' \subseteq {q}
                          /\ pc'[q] = "write" /\ file' = <<>>
      BY DEF OwnerIsAlone
    <3>2. File!Writing = {} /\ q = p
      BY <2>1, <3>1, BootstrapAssumption DEF File!ConstantsOK
    <3> QED BY <2>1, <2>5, <2>6, <3>2
  <2> QED BY <2>4, <2>8, <2>9, <2>10 DEF FileIInv
<1> QED BY <1>1, <1>2

\* A writer that goes on: what is left to show of the file.
LEMMA WritingKeeps ==
  ASSUME FileIInv, NEW p \in File!Writing, NEW to \in {"newline", "close", "booted"},
         pc' = [pc EXCEPT ![p] = to], UNCHANGED <<setup, healthy, crashes, config, owner, spoiled>>,
         offset' \in [Procs -> 0 .. 4], Len(file') \in 0 .. 4,
         \A q \in Procs \ {p} : offset'[q] = offset[q],
         to = "newline" => offset'[p] = File!Length(config[p]),
         to = "close" => offset'[p] = File!Length(config[p]) + 1,
         SameLengths',
         owner = p => CASE to = "newline" -> file' = File!Json(config[p])
                        [] to \in {"close", "booted"} -> file' = File!Text(config[p])
  PROVE  FileIInv'
<1>1. File!TypeOK /\ p \in Procs BY DEF FileIInv, File!Writing
<1>2. pc'[p] = to /\ \A q \in Procs \ {p} : pc'[q] = pc[q] BY <1>1 DEF File!TypeOK
<1>3. File!TypeOK'
  <2>1. spoiled' \in BOOLEAN BY <1>1 DEF File!TypeOK
  <2> QED BY <1>1, <2>1 DEF File!TypeOK
<1>4. File!Writing' \subseteq File!Writing BY <1>2 DEF File!Writing
<1>5. File!Generators' = File!Generators BY DEF File!Generators, File!Complete
<1>6. WritersAdvance'
  BY <1>2, <1>5 DEF FileIInv, WritersAdvance, File!Writing
<1>7. OwnerIsAlone'
  <2>1. SUFFICES ASSUME NEW q \in Procs, owner = q
                 PROVE  /\ File!Writing' \subseteq {q}
                        /\ pc'[q] = "write" => file' = <<>>
                        /\ pc'[q] = "newline" => file' = File!Json(config'[q])
                        /\ pc'[q] = "close" \/ (pc'[q] = "booted" /\ q \in File!Generators') =>
                              file' = File!Text(config'[q])
    BY DEF OwnerIsAlone
  <2>2. q = p /\ File!Writing \subseteq {q} BY <2>1 DEF FileIInv, OwnerIsAlone
  <2>3. CASE to = "newline" BY <1>2, <1>4, <2>1, <2>2, <2>3
  <2>4. CASE to = "close" BY <1>2, <1>4, <2>1, <2>2, <2>4
  <2>5. CASE to = "booted" BY <1>2, <1>4, <2>1, <2>2, <2>5
  <2> QED BY <2>3, <2>4, <2>5
<1> QED BY <1>3, <1>6, <1>7 DEF FileIInv

LEMMA WriteConfigKeeps == ASSUME FileIInv, NEW p \in Procs, File!WriteConfig(p) PROVE FileIInv'
<1> DEFINE c == config[p]
           n == File!Length(c)
           j == File!Json(c)
<1>1. File!TypeOK BY DEF FileIInv
<1>2. c \in File!Configs /\ n \in 1 .. 3 /\ Len(file) \in 0 .. 4 BY <1>1, FileTypes
<1>3. Len(j) = n /\ \A i \in 1 .. n : j[i] = [of |-> c, part |-> i] BY <1>2, JsonIs
<1>4. /\ pc[p] = "write" /\ p \in File!Writing /\ offset[p] = 0
      /\ \/ /\ pc' = [pc EXCEPT ![p] = "newline"]
            /\ file' = File!WriteAt(file, 0, j)
            /\ offset' = [offset EXCEPT ![p] = @ + Len(j)]
            /\ UNCHANGED <<setup, healthy, crashes, config, owner, spoiled>>
         \/ /\ \E k \in 0 .. Len(j) - 1 :
                  file' = File!WriteAt(file, 0, SubSeq(j, 1, k))
            /\ File!Dies(p)
  <2>1. pc[p] = "write" BY DEF File!WriteConfig, File!Write
  <2>2. offset[p] = 0 BY <2>1 DEF FileIInv, WritersAdvance
  <2> QED BY <2>1, <2>2 DEF File!WriteConfig, File!Write, File!Writing, File!world, File!history
<1> HIDE DEF c, n, j
<1>5. ASSUME NEW k \in 0 .. Len(j) - 1, file' = File!WriteAt(file, 0, SubSeq(j, 1, k)), File!Dies(p)
      PROVE  FileIInv'
  <2> DEFINE t == SubSeq(j, 1, k)
  <2>1. Len(t) \in 0 .. 2 BY <1>2, <1>3, <1>5
  <2> HIDE DEF t
  <2>2. Len(file') \in 0 .. 4
    <3>1. Len(file) \in Nat /\ Len(t) \in Nat /\ 0 \in Nat BY <1>2, <2>1
    <3>2. Len(file') = IF Len(file) > 0 + Len(t) THEN Len(file) ELSE 0 + Len(t)
      BY <1>5, <3>1, WriteAtIs DEF t
    <3> QED BY <1>2, <2>1, <3>2
  <2> QED BY <1>4, <1>5, <2>2, DyingKeeps
<1>6. ASSUME pc' = [pc EXCEPT ![p] = "newline"], file' = File!WriteAt(file, 0, j),
             offset' = [offset EXCEPT ![p] = @ + Len(j)],
             UNCHANGED <<setup, healthy, crashes, config, owner, spoiled>>
      PROVE  FileIInv'
  <2>1. /\ Len(file') = IF Len(file) > n THEN Len(file) ELSE n
        /\ \A i \in 1 .. n : file'[i] = [of |-> c, part |-> i]
        /\ \A i \in n + 1 .. Len(file) : file'[i] = file[i]
    <3> DEFINE m == IF Len(file) > 0 + Len(j) THEN Len(file) ELSE 0 + Len(j)
    <3>1. /\ Len(file') = m
          /\ \A i \in 1 .. m :
                file'[i] = IF i \in 0 + 1 .. 0 + Len(j) THEN j[i - 0]
                           ELSE IF i <= Len(file) THEN file[i] ELSE File!Hole
      BY <1>2, <1>3, <1>6, WriteAtIs
    <3>2. m = IF Len(file) > n THEN Len(file) ELSE n BY <1>2, <1>3
    <3> HIDE DEF m
    <3>3. ASSUME NEW i \in 1 .. n PROVE file'[i] = [of |-> c, part |-> i]
      <4>1. i \in 1 .. m /\ i \in 0 + 1 .. 0 + Len(j) /\ i - 0 = i BY <1>2, <1>3, <3>2
      <4> QED BY <1>3, <3>1, <4>1
    <3>4. ASSUME NEW i \in n + 1 .. Len(file) PROVE file'[i] = file[i]
      <4>1. i \in 1 .. m /\ i \notin 0 + 1 .. 0 + Len(j) /\ i <= Len(file)
        BY <1>2, <1>3, <3>2
      <4> QED BY <3>1, <4>1
    <3> QED BY <3>1, <3>2, <3>3, <3>4
  <2>2. /\ offset' \in [Procs -> 0 .. 4] /\ offset'[p] = n
        /\ \A q \in Procs \ {p} : offset'[q] = offset[q]
    BY <1>1, <1>2, <1>3, <1>4, <1>6 DEF File!TypeOK
  <2>3. SameLengths'
    <3>1. SUFFICES ASSUME ~spoiled PROVE OneLength'
      BY <1>6 DEF SameLengths
    <3>2. OneLength BY <1>4, <3>1 DEF FileIInv, SameLengths
    <3>3. PICK m \in 1 .. 3 :
             (\A q \in File!Writing : File!Length(config[q]) = m) /\ Shape(file, m)
      BY <3>2 DEF OneLength
    <3>4. m = n BY <1>4, <3>3 DEF n, c
    <3>5. File!Writing' = File!Writing BY <1>1, <1>4, <1>6 DEF File!Writing, File!TypeOK
    <3>6. Shape(file', n)
      <4>1. Len(file) \in {0, n, n + 1} /\ (Len(file) = n + 1 => file[n + 1] = File!Newline)
        BY <3>3, <3>4 DEF Shape
      <4>2. Len(file') \in {n, n + 1} BY <1>2, <2>1, <4>1
      <4>3. ASSUME Len(file') = n + 1 PROVE file'[n + 1] = File!Newline
        <5>1. Len(file) = n + 1 BY <1>2, <2>1, <4>1, <4>3
        <5>2. n + 1 \in n + 1 .. Len(file) BY <1>2, <5>1
        <5> QED BY <2>1, <4>1, <5>1, <5>2
      <4> QED BY <4>2, <4>3 DEF Shape
    <3>7. Len(file') >= n BY <1>2, <2>1
    <3>8. Holds(file', c) BY <2>1 DEF Holds, n
    <3>9. \A q \in File!Writing' : File!Length(config'[q]) = n BY <1>6, <3>3, <3>4, <3>5
    <3>10. n = File!Length(c) BY DEF n
    <3> QED BY <1>2, <3>6, <3>7, <3>8, <3>9, <3>10 DEF OneLength
  <2>4. owner = p => file' = j
    <3>1. owner = p => file = <<>> BY <1>4 DEF FileIInv, OwnerIsAlone
    <3> QED BY <1>2, <1>6, <3>1, OwnersWrites DEF j
  <2>5. Len(file') \in 0 .. 4 BY <1>2, <2>1
  <2> QED BY <1>4, <1>6, <2>2, <2>3, <2>4, <2>5, WritingKeeps DEF n, j, c
<1> QED BY <1>4, <1>5, <1>6

LEMMA WriteNewlineKeeps ==
  ASSUME FileIInv, NEW p \in Procs, File!WriteNewline(p) PROVE FileIInv'
<1> DEFINE c == config[p]
           n == File!Length(c)
           l == <<File!Newline>>
<1>1. File!TypeOK BY DEF FileIInv
<1>2. c \in File!Configs /\ n \in 1 .. 3 /\ Len(file) \in 0 .. 4 BY <1>1, FileTypes
<1>3. Len(l) = 1 /\ l[1] = File!Newline OBVIOUS
<1>4. /\ pc[p] = "newline" /\ p \in File!Writing /\ offset[p] = n
      /\ \/ /\ pc' = [pc EXCEPT ![p] = "close"]
            /\ file' = File!WriteAt(file, n, l)
            /\ offset' = [offset EXCEPT ![p] = @ + Len(l)]
            /\ UNCHANGED <<setup, healthy, crashes, config, owner, spoiled>>
         \/ /\ \E k \in 0 .. Len(l) - 1 :
                  file' = File!WriteAt(file, n, SubSeq(l, 1, k))
            /\ File!Dies(p)
  <2>1. pc[p] = "newline" BY DEF File!WriteNewline, File!Write
  <2>2. offset[p] = n BY <2>1 DEF FileIInv, WritersAdvance
  <2> QED BY <2>1, <2>2 DEF File!WriteNewline, File!Write, File!Writing, File!world, File!history
<1> HIDE DEF c, n, l
<1>5. ASSUME NEW k \in 0 .. Len(l) - 1, file' = File!WriteAt(file, n, SubSeq(l, 1, k)), File!Dies(p)
      PROVE  FileIInv'
  <2> DEFINE t == SubSeq(l, 1, k)
  <2>1. Len(t) = 0 BY <1>3, <1>5
  <2> HIDE DEF t
  <2>2. Len(file') \in 0 .. 4
    <3>1. Len(file) \in Nat /\ Len(t) \in Nat /\ n \in Nat BY <1>2, <2>1
    <3>2. Len(file') = IF Len(file) > n + Len(t) THEN Len(file) ELSE n + Len(t)
      BY <1>5, <3>1, WriteAtIs DEF t
    <3> QED BY <1>2, <2>1, <3>2
  <2> QED BY <1>4, <1>5, <2>2, DyingKeeps
<1>6. ASSUME pc' = [pc EXCEPT ![p] = "close"], file' = File!WriteAt(file, n, l),
             offset' = [offset EXCEPT ![p] = @ + Len(l)],
             UNCHANGED <<setup, healthy, crashes, config, owner, spoiled>>
      PROVE  FileIInv'
  <2>1. /\ Len(file') = IF Len(file) > n + 1 THEN Len(file) ELSE n + 1
        /\ \A i \in 1 .. n : i <= Len(file) => file'[i] = file[i]
        /\ file'[n + 1] = File!Newline
    <3> DEFINE m == IF Len(file) > n + Len(l) THEN Len(file) ELSE n + Len(l)
    <3>1. /\ Len(file') = m
          /\ \A i \in 1 .. m :
                file'[i] = IF i \in n + 1 .. n + Len(l) THEN l[i - n]
                           ELSE IF i <= Len(file) THEN file[i] ELSE File!Hole
      BY <1>2, <1>3, <1>6, WriteAtIs
    <3>2. m = IF Len(file) > n + 1 THEN Len(file) ELSE n + 1 BY <1>2, <1>3
    <3> HIDE DEF m
    <3>3. ASSUME NEW i \in 1 .. n, i <= Len(file) PROVE file'[i] = file[i]
      <4>1. i \in 1 .. m /\ i \notin n + 1 .. n + Len(l) BY <1>2, <1>3, <3>2
      <4> QED BY <3>1, <3>3, <4>1
    <3>4. file'[n + 1] = File!Newline
      <4>1. /\ n + 1 \in 1 .. m /\ n + 1 \in n + 1 .. n + Len(l) /\ (n + 1) - n = 1
        BY <1>2, <1>3, <3>2
      <4> QED BY <1>3, <3>1, <4>1
    <3> QED BY <3>1, <3>2, <3>3, <3>4
  <2>2. /\ offset' \in [Procs -> 0 .. 4] /\ offset'[p] = n + 1
        /\ \A q \in Procs \ {p} : offset'[q] = offset[q]
    BY <1>1, <1>2, <1>3, <1>4, <1>6 DEF File!TypeOK
  <2>3. SameLengths'
    <3>1. SUFFICES ASSUME ~spoiled PROVE OneLength'
      BY <1>6 DEF SameLengths
    <3>2. OneLength BY <1>4, <3>1 DEF FileIInv, SameLengths
    <3>3. PICK m \in 1 .. 3 :
             /\ \A q \in File!Writing : File!Length(config[q]) = m
             /\ Shape(file, m)
             /\ \/ \E q \in Procs : pc[q] = "write"
                \/ Len(file) >= m /\ \E d \in File!Configs : File!Length(d) = m /\ Holds(file, d)
      BY <3>2 DEF OneLength
    <3>4. m = n BY <1>4, <3>3 DEF n, c
    <3>5. File!Writing' = File!Writing BY <1>1, <1>4, <1>6 DEF File!Writing, File!TypeOK
    <3>6. Len(file') = n + 1
      <4>1. Len(file) \in {0, n, n + 1} BY <3>3, <3>4 DEF Shape
      <4> QED BY <1>2, <2>1, <4>1
    <3>7. Shape(file', n) BY <2>1, <3>6 DEF Shape
    <3>8. \A q \in Procs : pc[q] = "write" => pc'[q] = "write" BY <1>1, <1>4, <1>6 DEF File!TypeOK
    <3>9. ASSUME Len(file) >= n, NEW d \in File!Configs, File!Length(d) = n, Holds(file, d)
          PROVE  Holds(file', d)
      <4>1. \A i \in 1 .. n : i <= Len(file) BY <1>2, <3>9
      <4> QED BY <2>1, <3>9, <4>1 DEF Holds
    <3>10. Len(file') >= n BY <1>2, <3>6
    <3>11. \/ \E q \in Procs : pc'[q] = "write"
           \/ Len(file') >= n /\ \E d \in File!Configs : File!Length(d) = n /\ Holds(file', d)
      BY <3>3, <3>4, <3>8, <3>9, <3>10
    <3>12. \A q \in File!Writing' : File!Length(config'[q]) = n BY <1>6, <3>3, <3>4, <3>5
    <3> QED BY <1>2, <3>7, <3>11, <3>12 DEF OneLength
  <2>4. owner = p => file' = File!Text(c)
    <3>1. owner = p => file = File!Json(c) BY <1>4 DEF FileIInv, OwnerIsAlone, c
    <3> QED BY <1>2, <1>6, <3>1, OwnersWrites DEF n, l
  <2>5. Len(file') \in 0 .. 4
    BY <1>2, <2>1
  <2> QED BY <1>4, <1>6, <2>2, <2>3, <2>4, <2>5, WritingKeeps DEF n, c
<1> QED BY <1>4, <1>5, <1>6

LEMMA CloseKeeps == ASSUME FileIInv, NEW p \in Procs, File!Close(p) PROVE FileIInv'
<1>1. File!TypeOK /\ pc[p] = "close" /\ p \in File!Writing
  BY DEF FileIInv, File!Close, File!Writing
<1>2. CASE File!Dies(p) BY <1>2, DyingKeeps DEF File!Close
<1>3. CASE ~File!Dies(p)
  <2>1. /\ pc' = [pc EXCEPT ![p] = "booted"]
        /\ UNCHANGED <<setup, healthy, crashes, config, offset, file, owner, spoiled>>
    BY <1>3 DEF File!Close, File!world, File!history
  <2>2. /\ \A q \in Procs \ {p} : pc'[q] = pc[q] /\ pc'[p] = "booted"
        /\ offset' \in [Procs -> 0 .. 4] /\ Len(file') \in 0 .. 4
    BY <1>1, <2>1, FileTypes DEF File!TypeOK
  <2>3. File!Writing' \subseteq File!Writing BY <1>1, <2>1, <2>2 DEF File!Writing
  <2>4. SameLengths'
    <3>1. \A q \in Procs : pc[q] = "write" => pc'[q] = "write" BY <1>1, <2>2
    <3>2. OneLength => OneLength' BY <2>1, <2>3, <3>1, OneLengthStays
    <3> QED BY <1>1, <2>1, <3>2 DEF FileIInv, SameLengths
  <2>5. owner = p => file' = File!Text(config[p]) BY <1>1, <2>1 DEF FileIInv, OwnerIsAlone
  <2> QED BY <1>1, <2>1, <2>2, <2>4, <2>5, WritingKeeps
<1> QED BY <1>2, <1>3

LEMMA CrashKeeps ==
  ASSUME FileIInv, NEW p \in Procs, File!Crash(p)
  PROVE  FileIInv'
<1>1. /\ File!Leaves(p, "off") /\ UNCHANGED <<setup, healthy, file, owner>>
      /\ spoiled' = (spoiled \/ p \in File!Writing) /\ crashes' = crashes + 1
      /\ crashes < MaxCrashes /\ crashes \in 0 .. MaxCrashes /\ healthy \in BOOLEAN
  BY DEF File!Crash, FileIInv, File!TypeOK
<1>2. crashes' \in 0 .. MaxCrashes BY <1>1, BootstrapAssumption DEF File!ConstantsOK
<1> QED BY <1>1, <1>2, LeavingKeeps

LEMMA MakeServerKeeps == ASSUME FileIInv, NEW p \in Procs, File!MakeServer(p) PROVE FileIInv'
<1>1. PICK to \in {"off", "serving"} : File!Leaves(p, to) BY DEF File!MakeServer
<1>2. /\ pc[p] = "booted" /\ UNCHANGED <<setup, healthy, crashes, file, owner, spoiled>>
      /\ healthy \in BOOLEAN /\ crashes \in 0 .. MaxCrashes /\ spoiled \in BOOLEAN
  BY DEF File!MakeServer, File!world, File!history, FileIInv, File!TypeOK
<1>3. spoiled' = (spoiled \/ p \in File!Writing)
  <2>1. p \notin File!Writing BY <1>2 DEF File!Writing
  <2> QED BY <1>2, <2>1, Zenon
<1> QED BY <1>1, <1>2, <1>3, LeavingKeeps

LEMMA FileNext == FileIInv /\ [File!Next]_(File!vars) => FileIInv'
<1> SUFFICES ASSUME FileIInv, [File!Next]_(File!vars) PROVE FileIInv'
  OBVIOUS
<1>1. ASSUME NEW p \in Procs, File!Step(p) PROVE FileIInv'
  BY <1>1, StartKeeps, CreateKeeps, WriteConfigKeeps, WriteNewlineKeeps, CloseKeeps,
     MakeServerKeeps DEF File!Step
<1>2. ASSUME healthy' \in BOOLEAN,
             UNCHANGED <<setup, crashes, pc, config, offset, file, owner, spoiled>>
      PROVE  FileIInv'
  <2>1. /\ File!Writing' = File!Writing /\ File!Generators' = File!Generators
        /\ File!Absent' = File!Absent
    BY <1>2 DEF File!Writing, File!Generators, File!Complete, File!Absent
  <2>2. File!TypeOK' BY <1>2 DEF FileIInv, File!TypeOK
  <2>3. WritersAdvance' BY <1>2, <2>1 DEF FileIInv, WritersAdvance
  <2>4. OneLength => OneLength' BY <1>2, <2>1, OneLengthStays
  <2>5. SameLengths' BY <1>2, <2>1, <2>4 DEF FileIInv, SameLengths
  <2>6. OwnerIsAlone' BY <1>2, <2>1 DEF FileIInv, OwnerIsAlone
  <2> QED BY <2>2, <2>3, <2>5, <2>6 DEF FileIInv
<1>3. healthy \in BOOLEAN BY DEF FileIInv, File!TypeOK
<1>4. CASE File!HealthChanges
  BY <1>2, <1>3, <1>4 DEF File!HealthChanges, File!history
<1>5. CASE UNCHANGED File!vars
  BY <1>2, <1>3, <1>5 DEF File!vars, File!world, File!history
<1> QED BY <1>1, <1>4, <1>5, CrashKeeps DEF File!Next

LEMMA FileIsInvariant == File!Spec => []FileIInv
BY FileInit, FileNext, PTL DEF File!Spec

\* However many processes share the file, and however they fail and crash: when Bootstrap
\* has returned nil, the file is all of what the process generated, unless another created
\* it or had it open (server/discovery-service/traffic-director/bootstrap.go:126-146).
THEOREM BootstrapInvHolds == File!Spec => []BootstrapInv
<1>1. FileIInv => BootstrapInv
  <2>1. FileIInv => File!NilMeansWritten
    BY DEF FileIInv, OwnerIsAlone, File!NilMeansWritten, File!Generators
  <2> QED BY <2>1 DEF FileIInv, BootstrapInv
<1> QED BY <1>1, FileIsInvariant, PTL

\* However many processes share the file: once nobody writes it, it can be read, unless a
\* writer failed half way or two wrote configs of different lengths
\* (server/discovery-service/traffic-director/bootstrap.go:126-146).
THEOREM QuietFileIsReadableHolds == File!Spec => []QuietFileIsReadable
<1>1. ASSUME FileIInv PROVE QuietFileIsReadable
  <2>1. SUFFICES ASSUME file # File!Absent, File!Writing = {}, ~spoiled
                 PROVE  File!Readable(file)
    BY DEF QuietFileIsReadable, File!QuietFileIsReadable
  <2>2. OneLength BY <1>1, <2>1 DEF FileIInv, SameLengths
  <2>3. \A p \in Procs : pc[p] # "write" BY <2>1 DEF File!Writing
  <2>4. PICK n \in 1 .. 3 :
           Shape(file, n) /\ Len(file) >= n
           /\ \E c \in File!Configs : File!Length(c) = n /\ Holds(file, c)
    BY <2>2, <2>3 DEF OneLength
  <2>5. PICK c \in File!Configs : File!Length(c) = n /\ Holds(file, c) BY <2>4
  <2> DEFINE j == File!Json(c)
             S == {j[i] : i \in 1 .. n}
  <2>6. Len(j) = n /\ \A i \in 1 .. n : j[i] = file[i] BY <2>5, JsonIs DEF Holds
  <2>7. file[1] = [of |-> c, part |-> 1] BY <2>4, <2>5 DEF Holds
  <2>8. Len(file) \in {n, n + 1} /\ (Len(file) = n + 1 => file[n + 1] = File!Newline)
    BY <2>4 DEF Shape
  <2>9. file # <<>>
    <3>1. Len(<<>>) = 0 /\ Len(file) # 0 BY <2>4
    <3> QED BY <3>1
  <2> HIDE DEF j
  <2>10. File!IsPrefix(j, file)
    <3>1. 1 \in Int /\ n \in Int /\ 1 <= n /\ n - 1 + 1 = n BY <2>4
    <3>2. /\ SubSeq(j, 1, n) \in Seq(S) /\ Len(SubSeq(j, 1, n)) = n
          /\ \A i \in 1 .. n : SubSeq(j, 1, n)[i] = j[1 + i - 1]
      BY <3>1, SubSeqProperties
    <3>3. /\ SubSeq(file, 1, n) \in Seq(S) /\ Len(SubSeq(file, 1, n)) = n
          /\ \A i \in 1 .. n : SubSeq(file, 1, n)[i] = file[1 + i - 1]
      <4>1. \A i \in 1 .. n : file[i] \in S BY <2>6
      <4> QED BY <3>1, <4>1, SubSeqProperties
    <3>4. \A i \in 1 .. n : 1 + i - 1 = i OBVIOUS
    <3>5. \A i \in 1 .. n : SubSeq(j, 1, n)[i] = SubSeq(file, 1, n)[i]
      BY <2>6, <3>2, <3>3, <3>4
    <3> HIDE DEF S
    <3>6. SubSeq(j, 1, n) = SubSeq(file, 1, n) BY <3>2, <3>3, <3>5, SeqEqual
    <3> QED BY <2>4, <2>6, <3>6 DEF File!IsPrefix
  <2>11. \A i \in Len(j) + 1 .. Len(file) : file[i] = File!Newline
    BY <2>4, <2>6, <2>8
  <2>12. file[1].part = 1 /\ File!Json(file[1].of) = j BY <2>7 DEF j
  <2> QED BY <2>1, <2>9, <2>10, <2>11, <2>12 DEF File!Readable
<1> QED BY <1>1, FileIsInvariant, PTL
=============================================================================
