------------------------------ MODULE ConnPool ------------------------------
(***************************************************************************)
(* conn.go: RoundRobinConnPool.  Any number of goroutines take connections   *)
(* from the pool, Conn() being an atomic increment of a counter of fixed     *)
(* width and an index computed from its result, while others close it.       *)
(***************************************************************************)
EXTENDS Naturals, FiniteSets

CONSTANTS
    Num,        \* connections in the pool
    Width,      \* bits of the counter: 32 in the code
    Callers,    \* goroutines that call Conn, Invoke or NewStream
    Closers,    \* goroutines that call Close
    MaxCalls    \* bound on the calls of Conn, for TLC

ASSUME NumAssumption == Num \in Nat \ {0}
ASSUME WidthAssumption == Width \in Nat \ {0}
ASSUME MaxCallsAssumption == MaxCalls \in Nat

Conns == 0 .. Num - 1
Modulus == 2 ^ Width

\* Follows from WidthAssumption, but the provers know nothing of powers.
ASSUME ModulusAssumption == Modulus \in Nat \ {0}

VARIABLES
    idx,        \* the counter
    calls,      \* how many times Conn was called
    ticket,     \* what each caller got from the counter, None between calls
    given,      \* how many times each connection was handed out
    closed,     \* the connections whose Close was called
    next,       \* the connection each closer is at: Num when its loop is over
    own,        \* history: the connections each closer closed before anybody else
    errs,       \* the connections whose Close failed, for each closer
    outcome     \* what each Close returned

vars == <<idx, calls, ticket, given, closed, next, own, errs, outcome>>

None == Modulus

TypeOK ==
    /\ idx \in 0 .. Modulus - 1
    /\ calls \in 0 .. MaxCalls
    /\ ticket \in [Callers -> 0 .. Modulus]
    /\ given \in [Conns -> 0 .. MaxCalls]
    /\ closed \subseteq Conns
    /\ next \in [Closers -> 0 .. Num]
    /\ own \in [Closers -> SUBSET Conns]
    /\ errs \in [Closers -> SUBSET Conns]
    /\ outcome \in [Closers -> {"none", "nil", "error"}]

Init ==
    /\ idx = 0
    /\ calls = 0
    /\ ticket = [g \in Callers |-> None]
    /\ given = [n \in Conns |-> 0]
    /\ closed = {}
    /\ next = [g \in Closers |-> 0]
    /\ own = [g \in Closers |-> {}]
    /\ errs = [g \in Closers |-> {}]
    /\ outcome = [g \in Closers |-> "none"]

\* idx.Inc(): the first ticket is 1, and the counter wraps.
Inc(g) ==
    /\ ticket[g] = None
    /\ calls < MaxCalls
    /\ calls' = calls + 1
    /\ idx' = (idx + 1) % Modulus
    /\ ticket' = [ticket EXCEPT ![g] = idx']
    /\ UNCHANGED <<given, closed, next, own, errs, outcome>>

\* Mutant: the last connection is left out.
ConnOf_OffByOne(t) == IF Num = 1 THEN 0 ELSE t % (Num - 1)
ConnOf(t) == t % Num

\* The index of the ticket, and the connection is handed out, closed or not.
Pick(g) ==
    /\ ticket[g] # None
    /\ ticket' = [ticket EXCEPT ![g] = None]
    /\ given' = [given EXCEPT ![ConnOf(ticket[g])] = @ + 1]
    /\ UNCHANGED <<idx, calls, closed, next, own, errs, outcome>>

\* Mutant: the loop of Close ends with the first error.
CloseNext_StopsAtError(g) ==
    /\ next[g] < Num
    /\ next' = [next EXCEPT ![g] = IF next[g] \in closed THEN Num ELSE @ + 1]
    /\ closed' = closed \cup {next[g]}
    /\ own' = [own EXCEPT ![g] = IF next[g] \in closed THEN @ ELSE @ \cup {next[g]}]
    /\ errs' = [errs EXCEPT ![g] = IF next[g] \in closed THEN @ \cup {next[g]} ELSE @]
    /\ UNCHANGED <<idx, calls, ticket, given, outcome>>

\* Mutant: that a connection is closed already is not an error.
CloseNext_IgnoresClosed(g) ==
    /\ next[g] < Num
    /\ next' = [next EXCEPT ![g] = @ + 1]
    /\ closed' = closed \cup {next[g]}
    /\ own' = [own EXCEPT ![g] = IF next[g] \in closed THEN @ ELSE @ \cup {next[g]}]
    /\ UNCHANGED <<idx, calls, ticket, given, errs, outcome>>

\* One turn of the loop of Close.  A connection that is already closed, by
\* another closer or by its user, returns an error.
CloseNext(g) ==
    /\ next[g] < Num
    /\ next' = [next EXCEPT ![g] = @ + 1]
    /\ closed' = closed \cup {next[g]}
    /\ own' = [own EXCEPT ![g] = IF next[g] \in closed THEN @ ELSE @ \cup {next[g]}]
    /\ errs' = [errs EXCEPT ![g] = IF next[g] \in closed THEN @ \cup {next[g]} ELSE @]
    /\ UNCHANGED <<idx, calls, ticket, given, outcome>>

CloseReturns(g) ==
    /\ next[g] = Num
    /\ outcome[g] = "none"
    /\ outcome' = [outcome EXCEPT ![g] = IF errs[g] # {} THEN "error" ELSE "nil"]
    /\ UNCHANGED <<idx, calls, ticket, given, closed, next, own, errs>>

\* The program closes a connection it gave to the pool.
UserCloses(n) ==
    /\ n \notin closed
    /\ closed' = closed \cup {n}
    /\ UNCHANGED <<idx, calls, ticket, given, next, own, errs, outcome>>

Next ==
    \/ \E g \in Callers : Inc(g) \/ Pick(g)
    \/ \E g \in Closers : CloseNext(g) \/ CloseReturns(g)
    \/ \E n \in Conns : UserCloses(n)

Spec == Init /\ [][Next]_vars

-----------------------------------------------------------------------------
Wraps == calls \div Modulus
Idle == \A g \in Callers : ticket[g] = None

\* However the callers interleave, when none is in the middle of a call the
\* connections were handed out equally often, give or take one, and one more
\* for every time the counter wrapped (conn.go:28-31).
BalancedUpToWraps ==
    Idle => \A m, n \in Conns : given[m] <= given[n] + 1 + Wraps

\* When no caller is in the middle of a call, the connections were handed out equally
\* often, up to one and the wraps of the counter (conn.go:28-31).
PoolInv == TypeOK /\ BalancedUpToWraps

\* Any Close that returned closed every connection, whatever failed on the way
\* and whoever closed some of them before (conn.go:33-45).
CloseClosesAll ==
    \A g \in Closers : outcome[g] # "none" => closed = Conns

\* A Close that reports success closed every connection itself, none of them was
\* closed by another closer or by its user before, and no other Close reports it
\* (conn.go:36-42).
OneCloseSucceeds ==
    \A g \in Closers : outcome[g] = "nil" =>
        /\ own[g] = Conns
        /\ \A h \in Closers : outcome[h] = "nil" => g = h
=============================================================================
