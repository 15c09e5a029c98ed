--------------------------- MODULE ConnPoolProofs ---------------------------
(***************************************************************************)
(* A ConnPool, for any number of connections, callers, closers and calls, and *)
(* a counter of any width.  First Close, then the balance of the connections. *)
(***************************************************************************)
EXTENDS ConnPool, FiniteSetTheorems, TLAPS

\* The state of Close; the counter and its tickets do not matter.
CloseTypeOK ==
    /\ closed \subseteq Conns
    /\ next \in [Closers -> 0 .. Num]
    /\ own \in [Closers -> SUBSET Conns]
    /\ errs \in [Closers -> SUBSET Conns]
    /\ outcome \in [Closers -> {"none", "nil", "error"}]

\* What a closer has gone past is closed, and of two that went past it one at
\* least got an error for it.
OneWins ==
    /\ \A g \in Closers : \A n \in Conns : n < next[g] => n \in closed
    /\ \A g, h \in Closers : \A n \in Conns :
          g # h /\ n < next[g] /\ n < next[h] => n \in errs[g] \/ n \in errs[h]

\* What a closer has gone past it closed itself, or it got an error for it.
ItsOwnOrAnError ==
    \A g \in Closers : \A n \in Conns : n < next[g] => n \in own[g] \/ n \in errs[g]

\* What Close returns is decided when its loop is over, and final.
OutcomeIsFinal ==
    \A g \in Closers :
        /\ outcome[g] # "none" => next[g] = Num
        /\ outcome[g] = "nil" => errs[g] = {}

CloseInv == CloseTypeOK /\ OneWins /\ ItsOwnOrAnError /\ OutcomeIsFinal

LEMMA CloseInit == Init => CloseInv
  BY NumAssumption DEF Init, CloseInv, CloseTypeOK, OneWins, ItsOwnOrAnError, OutcomeIsFinal, Conns

LEMMA CloseStep == ASSUME CloseInv, NEW g \in Closers, CloseNext(g) PROVE CloseInv'
<1> USE NumAssumption DEF CloseInv, CloseTypeOK, CloseNext, Conns
<1>0. next[g] \in 0 .. Num /\ next[g] \in Conns /\ next[g] + 1 \in 0 .. Num OBVIOUS
<1>1. CloseTypeOK'
  <2>1. closed' \subseteq Conns BY <1>0
  <2>2. next' \in [Closers -> 0 .. Num] BY <1>0
  <2>3. errs' \in [Closers -> SUBSET Conns] BY <1>0
  <2>4. own' \in [Closers -> SUBSET Conns] BY <1>0
  <2> QED BY <2>1, <2>2, <2>3, <2>4
<1>2. \A h \in Closers : \A n \in Conns : n < next'[h] => n \in closed'
  BY DEF OneWins
<1>3. ASSUME NEW h \in Closers, NEW i \in Closers, NEW n \in Conns,
             h # i, n < next'[h], n < next'[i]
      PROVE  n \in errs'[h] \/ n \in errs'[i]
  <2>1. CASE n = next[g] /\ (h = g \/ i = g)
    <3>1. n \in closed BY <1>3, <2>1 DEF OneWins
    <3> QED BY <1>3, <2>1, <3>1
  <2>2. CASE ~(n = next[g] /\ (h = g \/ i = g))
    <3>1. n < next[h] /\ n < next[i] BY <1>3, <2>2
    <3>2. errs[h] \subseteq errs'[h] /\ errs[i] \subseteq errs'[i] OBVIOUS
    <3> QED BY <1>3, <3>1, <3>2 DEF OneWins
  <2> QED BY <2>1, <2>2
<1>4. OutcomeIsFinal' BY DEF OutcomeIsFinal
<1>5. ASSUME NEW h \in Closers, NEW n \in Conns, n < next'[h]
      PROVE  n \in own'[h] \/ n \in errs'[h]
  <2>1. CASE h = g /\ n = next[g] BY <2>1
  <2>2. CASE ~(h = g /\ n = next[g])
    <3>1. n < next[h] BY <1>5, <2>2
    <3>2. own[h] \subseteq own'[h] /\ errs[h] \subseteq errs'[h] OBVIOUS
    <3> QED BY <3>1, <3>2 DEF ItsOwnOrAnError
  <2> QED BY <2>1, <2>2
<1> QED BY <1>1, <1>2, <1>3, <1>4, <1>5 DEF OneWins, ItsOwnOrAnError

LEMMA CloseNextInv == CloseInv /\ [Next]_vars => CloseInv'
<1> SUFFICES ASSUME CloseInv, [Next]_vars PROVE CloseInv'
  OBVIOUS
<1>1. CASE UNCHANGED vars
  BY <1>1 DEF vars, CloseInv, CloseTypeOK, OneWins, ItsOwnOrAnError, OutcomeIsFinal
<1>2. ASSUME NEW g \in Callers, Inc(g) \/ Pick(g) PROVE CloseInv'
  BY <1>2 DEF Inc, Pick, CloseInv, CloseTypeOK, OneWins, ItsOwnOrAnError, OutcomeIsFinal
<1>3. ASSUME NEW g \in Closers, CloseReturns(g) PROVE CloseInv'
  BY <1>3 DEF CloseReturns, CloseInv, CloseTypeOK, OneWins, ItsOwnOrAnError, OutcomeIsFinal
<1>4. ASSUME NEW n \in Conns, UserCloses(n) PROVE CloseInv'
  BY <1>4 DEF UserCloses, CloseInv, CloseTypeOK, OneWins, ItsOwnOrAnError, OutcomeIsFinal
<1> QED BY <1>1, <1>2, <1>3, <1>4, CloseStep DEF Next

LEMMA CloseInvariance == Spec => []CloseInv
  BY CloseInit, CloseNextInv, PTL DEF Spec

\* A Close that returned closed every connection (conn.go:33-45).
THEOREM CloseClosesAllHolds == Spec => []CloseClosesAll
<1>1. ASSUME CloseInv PROVE CloseClosesAll
  <2> SUFFICES ASSUME NEW g \in Closers, outcome[g] # "none" PROVE closed = Conns
    BY DEF CloseClosesAll
  <2>1. next[g] = Num BY <1>1 DEF CloseInv, OutcomeIsFinal
  <2>2. \A n \in Conns : n < Num BY NumAssumption DEF Conns
  <2> QED BY <1>1, <2>1, <2>2 DEF CloseInv, CloseTypeOK, OneWins
<1> QED BY <1>1, CloseInvariance, PTL

\* Of any number of calls of Close at most one reports success, and it closed every
\* connection itself (conn.go:36-42).
THEOREM OneCloseSucceedsHolds == Spec => []OneCloseSucceeds
<1>1. ASSUME CloseInv PROVE OneCloseSucceeds
  <2> SUFFICES ASSUME NEW g \in Closers, outcome[g] = "nil"
               PROVE  /\ own[g] = Conns
                      /\ \A h \in Closers : outcome[h] = "nil" => g = h
    BY DEF OneCloseSucceeds
  <2>1. \A h \in Closers : outcome[h] = "nil" => next[h] = Num /\ errs[h] = {}
    BY <1>1 DEF CloseInv, OutcomeIsFinal
  <2>2. \A n \in Conns : n < Num BY NumAssumption DEF Conns
  <2>3. own[g] = Conns
    BY <1>1, <2>1, <2>2 DEF CloseInv, CloseTypeOK, ItsOwnOrAnError
  <2>4. 0 \in Conns BY NumAssumption DEF Conns
  <2>5. ASSUME NEW h \in Closers, outcome[h] = "nil", g # h PROVE FALSE
    BY <1>1, <2>1, <2>2, <2>4, <2>5 DEF CloseInv, OneWins
  <2> QED BY <2>3, <2>5
<1> QED BY <1>1, CloseInvariance, PTL
-----------------------------------------------------------------------------
\* The balance

LEMMA DivModUnique ==
  ASSUME NEW m \in Nat \ {0}, NEW q \in Int, NEW r \in 0 .. m - 1
  PROVE  (q * m + r) % m = r /\ (q * m + r) \div m = q
  OBVIOUS

LEMMA DivModNext ==
  ASSUME NEW m \in Nat \ {0}, NEW c \in Nat
  PROVE  /\ c % m \in 0 .. m - 1 /\ c \div m \in Nat
         /\ c % m = m - 1 => (c + 1) % m = 0 /\ (c + 1) \div m = c \div m + 1
         /\ c % m # m - 1 => (c + 1) % m = (c % m) + 1 /\ (c + 1) \div m = c \div m
<1>1. PICK q \in Nat, r \in 0 .. m - 1 : c = q * m + r /\ q = c \div m /\ r = c % m
  OBVIOUS
<1>2. ASSUME r = m - 1 PROVE (c + 1) % m = 0 /\ (c + 1) \div m = q + 1
  <2>0. (q + 1) * m = q * m + m /\ q * m \in Nat BY <1>1
  <2>1. c + 1 = (q + 1) * m + 0 BY <1>1, <1>2, <2>0
  <2>2. ((q + 1) * m + 0) % m = 0 /\ ((q + 1) * m + 0) \div m = q + 1
    BY DivModUnique
  <2> QED BY ONLY <2>1, <2>2
<1>3. ASSUME r # m - 1 PROVE (c + 1) % m = r + 1 /\ (c + 1) \div m = q
  <2>1. c + 1 = q * m + (r + 1) /\ r + 1 \in 0 .. m - 1 BY <1>1, <1>3
  <2>2. (q * m + (r + 1)) % m = r + 1 /\ (q * m + (r + 1)) \div m = q BY <2>1, DivModUnique
  <2> QED BY ONLY <2>1, <2>2
<1>4. c % m = r /\ c \div m = q BY <1>1
<1> QED BY <1>2, <1>3, <1>4, Zenon

\* The callers whose ticket is for connection n, which they have not picked yet.
Holders(n) == {g \in Callers : ticket[g] # None /\ ConnOf(ticket[g]) = n}

\* How many tickets there were for connection n so far.
Sent(n) == given[n] + Cardinality(Holders(n))

PoolTypeOK ==
    /\ idx \in 0 .. Modulus - 1 /\ idx = calls % Modulus
    /\ calls \in 0 .. MaxCalls
    /\ ticket \in [Callers -> 0 .. Modulus]
    /\ given \in [Conns -> Nat]
    /\ \A n \in Conns : IsFiniteSet(Holders(n))

LastTurn == ConnOf(Modulus - 1)

\* The counter goes round the connections. Each turn gives every connection one ticket, but for the last
\* turn of each wrap, which ends at the last value of the counter, the turn it is in, and
\* the ticket 0 that the first turn leaves out.
BalancedAt(turns) ==
    \A n \in Conns :
        Sent(n) = turns + (IF n <= LastTurn THEN Wraps ELSE 0)
                  + (IF n <= ConnOf(idx) THEN 1 ELSE 0) - (IF n = 0 THEN 1 ELSE 0)
Balanced == \E turns \in Int : BalancedAt(turns)

NoMoreThanCalls == \A n \in Conns : Sent(n) <= calls

CountInv == PoolTypeOK /\ Balanced /\ NoMoreThanCalls

LEMMA CountInit == Init => CountInv
<1> SUFFICES ASSUME Init PROVE CountInv OBVIOUS
<1>1. Modulus \in Nat \ {0} /\ Num \in Nat \ {0} BY ModulusAssumption, NumAssumption
<1>2. \A n : Holders(n) = {} BY DEF Init, Holders
<1>3. \A n \in Conns : IsFiniteSet(Holders(n)) /\ Sent(n) = 0
  BY <1>2, FS_EmptySet DEF Sent, Init
<1>4. 0 % Modulus = 0 /\ 0 \div Modulus = 0 /\ 0 % Num = 0 BY <1>1
<1>5. PoolTypeOK
  <2>1. idx \in 0 .. Modulus - 1 /\ idx = calls % Modulus /\ calls \in 0 .. MaxCalls
    BY <1>1, <1>4, MaxCallsAssumption DEF Init
  <2>2. ticket \in [Callers -> 0 .. Modulus] BY <1>1 DEF Init, None
  <2>3. given \in [Conns -> Nat] BY DEF Init
  <2> QED BY <1>3, <2>1, <2>2, <2>3 DEF PoolTypeOK
<1>6. Balanced
  <2>1. BalancedAt(0)
    BY <1>3, <1>4 DEF Init, Wraps, Conns, BalancedAt, LastTurn, ConnOf
  <2> QED BY <2>1 DEF Balanced
<1>7. NoMoreThanCalls BY <1>3 DEF NoMoreThanCalls, Init
<1> QED BY <1>5, <1>6, <1>7 DEF CountInv

\* What the values of CountInv are.
LEMMA Ranges ==
  ASSUME CountInv
  PROVE  /\ Conns = 0 .. Num - 1 /\ Num \in Nat \ {0} /\ Modulus \in Nat \ {0}
         /\ \A t \in Nat : ConnOf(t) \in Conns
         /\ calls \in Nat /\ idx \in Nat /\ idx \in 0 .. Modulus - 1 /\ Wraps \in Nat
         /\ LastTurn \in 0 .. Num - 1 /\ ConnOf(idx) \in 0 .. Num - 1
         /\ \A n \in Conns : Cardinality(Holders(n)) \in Nat /\ Sent(n) \in Nat
<1>1. Conns = 0 .. Num - 1 /\ Num \in Nat \ {0} /\ Modulus \in Nat \ {0}
  BY NumAssumption, ModulusAssumption DEF Conns
<1>2. \A t \in Nat : ConnOf(t) \in Conns BY <1>1, DivModNext DEF ConnOf
<1>3. calls \in Nat /\ idx \in Nat /\ idx \in 0 .. Modulus - 1
  BY <1>1, MaxCallsAssumption DEF CountInv, PoolTypeOK
<1>4. Wraps \in Nat BY <1>1, <1>3, DivModNext DEF Wraps
<1>5. LastTurn \in 0 .. Num - 1 /\ ConnOf(idx) \in 0 .. Num - 1
  <2>1. Modulus - 1 \in Nat BY <1>1
  <2> QED BY <1>1, <1>2, <1>3, <2>1 DEF LastTurn
<1>6. ASSUME NEW n \in Conns PROVE Cardinality(Holders(n)) \in Nat /\ Sent(n) \in Nat
  <2>1. IsFiniteSet(Holders(n)) /\ given[n] \in Nat BY DEF CountInv, PoolTypeOK
  <2>2. Cardinality(Holders(n)) \in Nat BY <2>1, FS_CardinalityType
  <2> QED BY <2>1, <2>2 DEF Sent
<1> QED BY <1>1, <1>2, <1>3, <1>4, <1>5, <1>6

\* A new ticket is one more for its connection.
LEMMA IncSends ==
  ASSUME CountInv, NEW g \in Callers, Inc(g)
  PROVE  /\ \A n \in Conns : IsFiniteSet(Holders(n)')
         /\ \A n \in Conns : Sent(n)' = Sent(n) + (IF n = ConnOf(idx') THEN 1 ELSE 0)
<1>1. ticket[g] = None /\ ticket' = [ticket EXCEPT ![g] = idx'] /\ idx' # None
  BY ModulusAssumption DEF CountInv, PoolTypeOK, Inc, None
<1>2. ASSUME NEW n \in Conns, n # ConnOf(idx') PROVE Holders(n)' = Holders(n)
  BY <1>1, <1>2 DEF CountInv, PoolTypeOK, Holders
<1>3. ASSUME NEW n \in Conns, n = ConnOf(idx')
      PROVE  Holders(n)' = Holders(n) \cup {g} /\ g \notin Holders(n)
  BY <1>1, <1>3 DEF CountInv, PoolTypeOK, Holders
<1>4. given' = given BY DEF Inc
<1>5. ASSUME NEW n \in Conns
      PROVE  /\ IsFiniteSet(Holders(n)')
             /\ Cardinality(Holders(n)') =
                   Cardinality(Holders(n)) + IF n = ConnOf(idx') THEN 1 ELSE 0
  <2>1. IsFiniteSet(Holders(n)) /\ Cardinality(Holders(n)) \in Nat
    BY Ranges DEF CountInv, PoolTypeOK
  <2>2. CASE n = ConnOf(idx')
    <3>1. Holders(n)' = Holders(n) \cup {g} /\ g \notin Holders(n) BY <1>3, <2>2
    <3>2. /\ IsFiniteSet(Holders(n) \cup {g})
          /\ Cardinality(Holders(n) \cup {g}) = Cardinality(Holders(n)) + 1
      BY <2>1, <3>1, FS_AddElement
    <3> QED BY <2>2, <3>1, <3>2
  <2>3. CASE n # ConnOf(idx') BY <1>2, <2>1, <2>3
  <2> QED BY <2>2, <2>3
<1>6. ASSUME NEW n \in Conns
      PROVE  Sent(n)' = Sent(n) + IF n = ConnOf(idx') THEN 1 ELSE 0
  <2>1. given[n] \in Nat /\ Cardinality(Holders(n)) \in Nat
    BY Ranges DEF CountInv, PoolTypeOK
  <2> QED BY <1>4, <1>5, <2>1 DEF Sent
<1> QED BY <1>5, <1>6

\* To pick a connection moves a ticket from its holder to the connection.
LEMMA PickSends ==
  ASSUME CountInv, NEW g \in Callers, Pick(g)
  PROVE  /\ given' \in [Conns -> Nat]
         /\ \A n \in Conns : IsFiniteSet(Holders(n)')
         /\ \A n \in Conns : Sent(n)' = Sent(n)
<1>1. /\ ticket[g] # None /\ ticket' = [ticket EXCEPT ![g] = None]
      /\ given' = [given EXCEPT ![ConnOf(ticket[g])] = @ + 1]
  BY DEF Pick
<1>0. ConnOf(ticket[g]) \in Conns
  BY NumAssumption, ModulusAssumption DEF CountInv, PoolTypeOK, ConnOf, Conns
<1>2. ASSUME NEW n \in Conns, n # ConnOf(ticket[g])
      PROVE  Holders(n)' = Holders(n) /\ given'[n] = given[n]
  BY <1>0, <1>1, <1>2 DEF CountInv, PoolTypeOK, Holders
<1>3. ASSUME NEW n \in Conns, n = ConnOf(ticket[g])
      PROVE  Holders(n)' = Holders(n) \ {g} /\ g \in Holders(n) /\ given'[n] = given[n] + 1
  BY <1>0, <1>1, <1>3 DEF CountInv, PoolTypeOK, Holders
<1>4. given' \in [Conns -> Nat] BY <1>0, <1>1 DEF CountInv, PoolTypeOK
<1>5. ASSUME NEW n \in Conns
      PROVE  /\ IsFiniteSet(Holders(n)')
             /\ given'[n] + Cardinality(Holders(n)') = given[n] + Cardinality(Holders(n))
  <2>1. /\ IsFiniteSet(Holders(n)) /\ given[n] \in Nat
        /\ Cardinality(Holders(n)) \in Nat
    BY Ranges DEF CountInv, PoolTypeOK
  <2>2. CASE n = ConnOf(ticket[g])
    <3>1. /\ Holders(n)' = Holders(n) \ {g} /\ g \in Holders(n)
          /\ given'[n] = given[n] + 1
      BY <1>3, <2>2
    <3>2. /\ IsFiniteSet(Holders(n) \ {g})
          /\ Cardinality(Holders(n) \ {g}) = Cardinality(Holders(n)) - 1
      BY <2>1, <3>1, FS_RemoveElement
    <3> QED BY <2>1, <3>1, <3>2
  <2>3. CASE n # ConnOf(ticket[g]) BY <1>2, <2>1, <2>3
  <2> QED BY <2>2, <2>3
<1> QED BY <1>4, <1>5 DEF Sent

LEMMA CounterMoves ==
  ASSUME CountInv, NEW g \in Callers, Inc(g)
  PROVE  /\ idx' \in 0 .. Modulus - 1 /\ idx' = calls' % Modulus /\ calls' \in 0 .. MaxCalls
         /\ ConnOf(idx') \in Conns
         /\ idx = Modulus - 1 => ConnOf(idx') = 0 /\ Wraps' = Wraps + 1
         /\ idx # Modulus - 1 =>
               /\ Wraps' = Wraps
               /\ ConnOf(idx) = Num - 1 => ConnOf(idx') = 0
               /\ ConnOf(idx) # Num - 1 => ConnOf(idx') = ConnOf(idx) + 1
<1>1. /\ calls \in Nat /\ idx \in 0 .. Modulus - 1 /\ idx = calls % Modulus
      /\ calls' = calls + 1 /\ calls' \in 0 .. MaxCalls /\ idx' = (idx + 1) % Modulus
  BY MaxCallsAssumption DEF CountInv, PoolTypeOK, Inc
<1>2. /\ Modulus \in Nat \ {0} /\ Num \in Nat \ {0}
  BY ModulusAssumption, NumAssumption
<1>3. idx' \in 0 .. Modulus - 1
  <2>1. idx + 1 \in Nat BY <1>1
  <2> QED BY <1>1, <1>2, <2>1, DivModNext
<1>4. ConnOf(idx') \in Conns
  <2>1. idx' \in Nat BY <1>2, <1>3
  <2> QED BY <2>1, Ranges
<1>5. CASE idx = Modulus - 1
  <2>1. calls' % Modulus = 0 /\ Wraps' = Wraps + 1 BY <1>1, <1>2, <1>5, DivModNext DEF Wraps
  <2>2. idx' = 0 BY <1>1, <1>2, <1>5
  <2>3. ConnOf(idx') = 0 BY <1>2, <2>2 DEF ConnOf
  <2> QED BY <1>1, <1>3, <1>4, <1>5, <2>1, <2>2, <2>3
<1>6. CASE idx # Modulus - 1
  <2>1. calls' % Modulus = idx + 1 /\ Wraps' = Wraps BY <1>1, <1>2, <1>6, DivModNext DEF Wraps
  <2>2. idx' = idx + 1 BY <1>1, <1>2, <1>6
  <2>3. /\ ConnOf(idx) = Num - 1 => ConnOf(idx') = 0
        /\ ConnOf(idx) # Num - 1 => ConnOf(idx') = ConnOf(idx) + 1
    <3>1. idx \in Nat BY <1>1
    <3> QED BY <1>2, <2>2, <3>1, DivModNext DEF ConnOf
  <2> QED BY <1>1, <1>3, <1>4, <1>6, <2>1, <2>2, <2>3
<1> QED BY <1>5, <1>6

\* The ticket goes to the connection after the last one, or to the first one when a turn
\* or a wrap is over.
LEMMA IncBalanced ==
  ASSUME CountInv, NEW g \in Callers, Inc(g)
  PROVE  Balanced'
<1> DEFINE Share(n, turns, wraps, last) ==
      turns + (IF n <= LastTurn THEN wraps ELSE 0)
      + (IF n <= last THEN 1 ELSE 0) - (IF n = 0 THEN 1 ELSE 0)
<1>1. PICK turns \in Int : BalancedAt(turns) BY DEF CountInv, Balanced
<1>2. /\ Num \in Nat \ {0} /\ Wraps \in Nat /\ Conns = 0 .. Num - 1
      /\ LastTurn \in 0 .. Num - 1 /\ ConnOf(idx) \in 0 .. Num - 1
  BY Ranges
<1>3. \E later \in Int : \A n \in Conns :
         Share(n, turns, Wraps, ConnOf(idx)) + (IF n = ConnOf(idx') THEN 1 ELSE 0)
            = Share(n, later, Wraps', ConnOf(idx'))
  <2>1. CASE idx = Modulus - 1
    <3>1. ConnOf(idx') = 0 /\ Wraps' = Wraps + 1 /\ ConnOf(idx) = LastTurn
      BY <2>1, CounterMoves DEF LastTurn
    <3>2. ASSUME NEW n \in Conns
          PROVE  Share(n, turns, Wraps, ConnOf(idx)) + (IF n = ConnOf(idx') THEN 1 ELSE 0)
                    = Share(n, turns, Wraps', ConnOf(idx'))
      BY <1>2, <3>1
    <3> QED BY <3>2
  <2>2. CASE idx # Modulus - 1 /\ ConnOf(idx) = Num - 1
    <3>1. ConnOf(idx') = 0 /\ Wraps' = Wraps BY <2>2, CounterMoves
    <3>2. ASSUME NEW n \in Conns
          PROVE  Share(n, turns, Wraps, ConnOf(idx)) + (IF n = ConnOf(idx') THEN 1 ELSE 0)
                    = Share(n, turns + 1, Wraps', ConnOf(idx'))
      BY <1>2, <2>2, <3>1
    <3>3. turns + 1 \in Int OBVIOUS
    <3> HIDE DEF Share
    <3> QED BY <3>2, <3>3
  <2>3. CASE idx # Modulus - 1 /\ ConnOf(idx) # Num - 1
    <3>1. ConnOf(idx') = ConnOf(idx) + 1 /\ Wraps' = Wraps BY <2>3, CounterMoves
    <3>2. ASSUME NEW n \in Conns
          PROVE  Share(n, turns, Wraps, ConnOf(idx)) + (IF n = ConnOf(idx') THEN 1 ELSE 0)
                    = Share(n, turns, Wraps', ConnOf(idx'))
      BY <1>2, <3>1
    <3> QED BY <3>2
  <2> QED BY <2>1, <2>2, <2>3
<1>4. PICK later \in Int : \A n \in Conns :
         Share(n, turns, Wraps, ConnOf(idx)) + (IF n = ConnOf(idx') THEN 1 ELSE 0)
            = Share(n, later, Wraps', ConnOf(idx'))
  BY <1>3
<1>5. ASSUME NEW n \in Conns
      PROVE  Sent(n)' = Share(n, later, Wraps', ConnOf(idx'))
  <2>1. Sent(n)' = Sent(n) + IF n = ConnOf(idx') THEN 1 ELSE 0 BY IncSends
  <2>2. Sent(n) = Share(n, turns, Wraps, ConnOf(idx)) BY <1>1 DEF BalancedAt
  <2> HIDE DEF Share
  <2> QED BY <1>4, <2>1, <2>2
<1>6. BalancedAt(later)' BY <1>5 DEF BalancedAt, LastTurn, ConnOf
<1> QED BY <1>6 DEF Balanced

LEMMA CountNext == CountInv /\ [Next]_vars => CountInv'
<1> SUFFICES ASSUME CountInv, [Next]_vars PROVE CountInv'
  OBVIOUS
<1>1. ASSUME NEW g \in Callers, Inc(g) PROVE CountInv'
  <2>1. PoolTypeOK'
    <3>1. idx' = calls' % Modulus /\ idx' \in 0 .. Modulus - 1 /\ calls' \in 0 .. MaxCalls
      BY <1>1, CounterMoves
    <3>2. ticket' \in [Callers -> 0 .. Modulus]
      BY <1>1, <3>1, ModulusAssumption DEF CountInv, PoolTypeOK, Inc
    <3> QED BY <1>1, <3>1, <3>2, IncSends DEF CountInv, PoolTypeOK, Inc
  <2>2. NoMoreThanCalls'
    <3>1. calls' = calls + 1 BY <1>1 DEF Inc
    <3>2. ASSUME NEW n \in Conns PROVE Sent(n)' <= calls'
      <4>1. Sent(n)' = Sent(n) + IF n = ConnOf(idx') THEN 1 ELSE 0 BY <1>1, IncSends
      <4>2. Sent(n) <= calls /\ Sent(n) \in Nat /\ calls \in Nat
        BY Ranges DEF CountInv, NoMoreThanCalls
      <4> QED BY <3>1, <4>1, <4>2
    <3> QED BY <3>2 DEF NoMoreThanCalls
  <2> QED BY <1>1, <2>1, <2>2, IncBalanced DEF CountInv
<1>2. ASSUME NEW g \in Callers, Pick(g) PROVE CountInv'
  <2>1. PoolTypeOK'
    <3>1. ticket' \in [Callers -> 0 .. Modulus]
      <4>1. Modulus \in 0 .. Modulus BY Ranges
      <4> QED BY <1>2, <4>1 DEF CountInv, PoolTypeOK, Pick, None
    <3> QED BY <1>2, <3>1, PickSends DEF CountInv, PoolTypeOK, Pick
  <2>2. UNCHANGED <<idx, calls, Wraps>> BY <1>2 DEF Pick, Wraps
  <2>3. Balanced'
    <3>1. PICK turns \in Int : BalancedAt(turns) BY DEF CountInv, Balanced
    <3>2. BalancedAt(turns)' BY <1>2, <2>2, <3>1, PickSends DEF BalancedAt, LastTurn, ConnOf
    <3> QED BY <3>2 DEF Balanced
  <2>4. NoMoreThanCalls' BY <1>2, <2>2, PickSends DEF CountInv, NoMoreThanCalls
  <2> QED BY <2>1, <2>3, <2>4 DEF CountInv
<1>3. CASE UNCHANGED <<idx, calls, ticket, given>>
  <2>1. \A n : UNCHANGED <<Holders(n), Sent(n)>> BY <1>3 DEF Sent, Holders
  <2>2. UNCHANGED <<Wraps, ConnOf(idx)>> BY <1>3 DEF Wraps
  <2>3. Balanced'
    <3>1. PICK turns \in Int : BalancedAt(turns) BY DEF CountInv, Balanced
    <3>2. BalancedAt(turns)' BY <2>1, <2>2, <3>1 DEF BalancedAt, LastTurn
    <3> QED BY <3>2 DEF Balanced
  <2> QED BY <1>3, <2>1, <2>3 DEF CountInv, PoolTypeOK, NoMoreThanCalls
<1> QED BY <1>1, <1>2, <1>3 DEF Next, CloseNext, CloseReturns, UserCloses, vars

LEMMA CountImplies == CountInv => BalancedUpToWraps
<1> SUFFICES ASSUME CountInv, Idle, NEW m \in Conns, NEW n \in Conns
             PROVE  given[m] <= given[n] + 1 + Wraps
  BY DEF BalancedUpToWraps
<1>1. PICK turns \in Int : BalancedAt(turns)
  BY DEF CountInv, Balanced
<1>2. \A i \in Conns : Holders(i) = {} BY DEF Idle, Holders
<1>3. \A i \in Conns : Sent(i) = given[i]
  BY <1>2, FS_EmptySet DEF CountInv, PoolTypeOK, Sent
<1>4. ASSUME NEW i \in Conns
      PROVE  /\ i \in 0 .. Num - 1
             /\ given[i] = turns + (IF i <= LastTurn THEN Wraps ELSE 0)
                  + (IF i <= ConnOf(idx) THEN 1 ELSE 0) - (IF i = 0 THEN 1 ELSE 0)
  BY <1>1, <1>3, Ranges DEF BalancedAt
<1>5. /\ Num \in Nat \ {0} /\ Wraps \in Nat
      /\ LastTurn \in 0 .. Num - 1 /\ ConnOf(idx) \in 0 .. Num - 1
  BY Ranges
<1> QED BY <1>4, <1>5
\* However the callers interleave, a pool hands its connections out equally often, up to
\* one and the wraps of its counter (conn.go:28-31).
THEOREM PoolInvHolds == Spec => []PoolInv
<1>1. ASSUME CountInv, CloseInv PROVE TypeOK
  <2>1. given \in [Conns -> 0 .. MaxCalls]
    <3>1. ASSUME NEW n \in Conns PROVE given[n] \in 0 .. MaxCalls
      <4>1. /\ given[n] \in Nat /\ Cardinality(Holders(n)) \in Nat
            /\ given[n] + Cardinality(Holders(n)) <= calls
            /\ calls \in 0 .. MaxCalls
        BY <1>1, Ranges DEF CountInv, PoolTypeOK, NoMoreThanCalls, Sent
      <4> QED BY <4>1, MaxCallsAssumption
    <3> QED BY <1>1, <3>1 DEF CountInv, PoolTypeOK
  <2> QED BY <1>1, <2>1 DEF TypeOK, CountInv, PoolTypeOK, CloseInv, CloseTypeOK
<1> QED BY <1>1, CountInit, CountNext, CountImplies, CloseInvariance, PTL DEF Spec, PoolInv
=============================================================================
