----------------------------- MODULE HealthProofs -----------------------------
(***************************************************************************)
(* The safety of Health for any number of probes and streams, and any checks  *)
(* of the program.                                                           *)
(***************************************************************************)
EXTENDS Health, TLAPS

LEMMA InitTypeOK == Init => TypeOK
<1> SUFFICES ASSUME Init PROVE TypeOK
  OBVIOUS
<1>1. NotReady \in Results BY DEF NotReady, Results
<1>2. InitialStatus \in Statuses BY DEF InitialStatus, Statuses
<1>3. reply \in [Probes -> [code : {"none", "200", "503", "OK", "error"},
                           body : Bodies \cup Statuses]]
  BY DEF Init, Bodies
<1>4. result \in [Clients -> Results] BY <1>1 DEF Init
<1>5. current \in [Watchers -> Statuses] BY <1>2 DEF Init
<1> QED BY <1>3, <1>4, <1>5 DEF Init, TypeOK

LEMMA CheckTypeOK ==
  ASSUME TypeOK, NEW c \in Clients, BeginCheck(c) \/ RunCheck(c)
  PROVE  TypeOK'
<1>1. CASE BeginCheck(c)
  <2>1. NotReady \in Results BY DEF NotReady, Results
  <2>2. pc' \in [Clients -> {"idle", "wait", "checking", "answer", "ended"}]
    BY <1>1 DEF BeginCheck, TypeOK
  <2>3. result' \in [Clients -> Results] BY <1>1, <2>1 DEF BeginCheck, TypeOK
  <2> QED BY <1>1, <2>2, <2>3 DEF BeginCheck, TypeOK
<1>2. CASE RunCheck(c) BY <1>2, ChecksAssumption DEF RunCheck, TypeOK
<1> QED BY <1>1, <1>2

LEMMA ProbeTypeOK ==
  ASSUME TypeOK, NEW p \in Probes, AnswerHTTP(p) \/ AnswerGRPC(p)
  PROVE  TypeOK'
<1>1. p \in Clients /\ result[p] \in Results BY DEF TypeOK, Clients
<1>2. Body(result[p]) \in Bodies /\ HealthStatus(result[p]) \in Statuses
  BY <1>1 DEF Body, Bodies, HealthStatus, Statuses, Results
<1>3. CASE AnswerHTTP(p)
  BY <1>1, <1>2, <1>3 DEF AnswerHTTP, TypeOK, Results, NotReady
<1>4. CASE AnswerGRPC(p)
  BY <1>1, <1>2, <1>4 DEF AnswerGRPC, TypeOK, Results, NotReady, Bodies
<1> QED BY <1>3, <1>4

LEMMA StreamTypeOK ==
  ASSUME TypeOK, NEW w \in Watchers,
         OpenStream(w) \/ CancelStream(w) \/ EndStream(w) \/ SendStatus(w)
  PROVE  TypeOK'
<1>1. w \in Clients /\ result[w] \in Results BY DEF TypeOK, Clients
<1>2. HealthStatus(result[w]) \in Statuses BY <1>1 DEF HealthStatus, Statuses, Results
<1>3. CASE OpenStream(w) BY <1>1, <1>3 DEF OpenStream, TypeOK
<1>4. CASE CancelStream(w) BY <1>4 DEF CancelStream, TypeOK
<1>5. CASE EndStream(w) BY <1>1, <1>5 DEF EndStream, TypeOK
<1>6. CASE SendStatus(w)
  <2>1. NotReady \in Results BY DEF NotReady, Results
  <2>2. result' \in [Clients -> Results] BY <1>6, <2>1 DEF SendStatus, TypeOK
  <2>3. current' \in [Watchers -> Statuses] /\ sent' \in [Watchers -> Statuses \cup {"nothing"}]
    BY <1>2, <1>6 DEF SendStatus, TypeOK
  <2>4. pc' \in [Clients -> {"idle", "wait", "checking", "answer", "ended"}]
    BY <1>1, <1>6 DEF SendStatus, TypeOK
  <2> QED BY <1>6, <2>2, <2>3, <2>4 DEF SendStatus, TypeOK
<1> QED BY <1>3, <1>4, <1>5, <1>6

LEMMA NextTypeOK == TypeOK /\ [Next]_vars => TypeOK'
<1> SUFFICES ASSUME TypeOK, [Next]_vars PROVE TypeOK'
  OBVIOUS
<1>1. CASE UNCHANGED vars BY <1>1 DEF vars, TypeOK
<1>2. CASE AppChanges BY <1>2 DEF AppChanges, TypeOK
<1>3. CASE Terminate BY <1>3 DEF Terminate, TypeOK
<1> QED BY <1>1, <1>2, <1>3, CheckTypeOK, ProbeTypeOK, StreamTypeOK DEF Next

\* Every variable keeps its type: answers have a body and streams a status
\* (server.go:194-321, health.go:40-99).
THEOREM Typing == SafetySpec => []TypeOK
  BY InitTypeOK, NextTypeOK, PTL DEF SafetySpec

-----------------------------------------------------------------------------
\* A client of a handler that looks at the shutter, none of whose checks began
\* before the server terminated.
AskedLate(c) ==
    /\ terminating
    /\ LooksAtShutter(c)
    /\ pc[c] # "checking"
    /\ pc[c] = "answer" => result[c] = NotReady

LEMMA NextAskedLate ==
  ASSUME NEW c \in Clients
  PROVE  TypeOK /\ AskedLate(c) /\ [Next]_vars => AskedLate(c)'
<1> SUFFICES ASSUME TypeOK, AskedLate(c), [Next]_vars PROVE AskedLate(c)'
  OBVIOUS
<1> USE DEF TypeOK, AskedLate
<1>0. UNCHANGED <<handler, asks>>
  BY DEF Next, vars, BeginCheck, RunCheck, AnswerHTTP, AnswerGRPC, OpenStream, CancelStream,
     EndStream, SendStatus, AppChanges, Terminate
<1>7. LooksAtShutter(c)' BY <1>0 DEF LooksAtShutter
<1>1. CASE UNCHANGED vars BY <1>1, <1>7 DEF vars
<1>2. CASE AppChanges \/ Terminate BY <1>2, <1>7 DEF AppChanges, Terminate
<1>3. ASSUME NEW d \in Clients, BeginCheck(d) \/ RunCheck(d) PROVE AskedLate(c)'
  BY <1>3, <1>7 DEF BeginCheck, RunCheck
<1>4. ASSUME NEW p \in Probes, AnswerHTTP(p) \/ AnswerGRPC(p) PROVE AskedLate(c)'
  BY <1>4, <1>7 DEF AnswerHTTP, AnswerGRPC, Clients
<1>5. ASSUME NEW w \in Watchers, OpenStream(w) \/ CancelStream(w) \/ EndStream(w)
      PROVE  AskedLate(c)'
  BY <1>5, <1>7 DEF OpenStream, CancelStream, EndStream, Clients
<1>6. ASSUME NEW w \in Watchers, SendStatus(w) PROVE AskedLate(c)'
  BY <1>6, <1>7 DEF SendStatus, Clients
<1> QED BY <1>1, <1>2, <1>3, <1>4, <1>5, <1>6 DEF Next

\* No check that begins once the server terminates reports it ready, in whatever way
\* StandardServer is asked, or a ConnectWebServer over HTTP, and whatever the program
\* says (server.go:194-205, connectrpc/server.go:204-210).
THEOREM NoReadyOnceTerminatingHolds == SafetySpec => NoReadyOnceTerminating
<1>1. ASSUME NEW c \in Clients
      PROVE  SafetySpec => [](terminating /\ LooksAtShutter(c) /\ Calls(c) =>
                                [](pc[c] = "answer" => result[c] = NotReady))
  <2>1. terminating /\ LooksAtShutter(c) /\ Calls(c) => AskedLate(c) BY DEF Calls, AskedLate
  <2>2. TypeOK /\ AskedLate(c) /\ [Next]_vars => AskedLate(c)' BY NextAskedLate
  <2>3. AskedLate(c) => (pc[c] = "answer" => result[c] = NotReady) BY DEF AskedLate
  <2> QED BY <2>1, <2>2, <2>3, Typing, PTL DEF SafetySpec
<1> QED BY <1>1 DEF NoReadyOnceTerminating
=============================================================================
