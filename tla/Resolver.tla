------------------------------ MODULE Resolver ------------------------------
(***************************************************************************)
(* server/standard/resolver.go: the "betterdns" name resolver.  One Resolver *)
(* is registered for the whole process; every Build of a client connection   *)
(* starts a goroutine, manageConnections, with a context of its own, but all *)
(* of them share the Resolver's cancelContext and its channel rn.            *)
(***************************************************************************)
EXTENDS Naturals, Sequences, FiniteSets

CONSTANTS
    Builds,     \* the calls of Build, one goroutine each
    Answers,    \* the address lists a lookup of the name can return
    Failure,    \* a lookup that fails
    Overlap     \* whether a Build may come before the Close of the one before:
                \* several client connections, or one that goes idle and back

ASSUME AnswersAssumption == Failure \notin Answers /\ \A s \in Answers : s \in Seq(Nat) /\ s # <<>>
ASSUME OverlapAssumption == Overlap \in BOOLEAN

VARIABLES
    malformed,      \* the Builds whose target parseTarget refuses
    dns,            \* what a lookup returns now
    rn,             \* whether the channel rn (of capacity 1) is full
    cancelContext,  \* the Build whose context Close cancels, {} before any
    cancelled,      \* the Builds whose context is cancelled
    closed,         \* the Builds whose client connection called Close
    mgr,            \* where each goroutine is
    addresses,      \* its local variables: the addresses of this round (<<>> between),
    lastAddresses,  \*   those last passed to UpdateState, which its client
                    \*   connection knows,
    forceUpdate     \*   and whether ResolveNow was called since

vars == <<malformed, dns, rn, cancelContext, cancelled, closed, mgr, addresses, lastAddresses,
          forceUpdate>>
shared == <<rn, cancelContext, cancelled, closed>>
locals == <<addresses, lastAddresses, forceUpdate>>

TypeOK ==
    /\ malformed \subseteq Builds
    /\ dns \in Answers \cup {Failure}
    /\ rn \in BOOLEAN
    /\ cancelContext \in {{}} \cup {{b} : b \in Builds}
    /\ cancelled \subseteq Builds
    /\ closed \subseteq Builds
    /\ mgr \in [Builds -> {"none", "wait", "resolve", "update", "sleep", "done", "panicked"}]
    /\ addresses \in [Builds -> Answers \cup {<<>>}]
    /\ lastAddresses \in [Builds -> Answers \cup {<<>>}]
    /\ forceUpdate \in [Builds -> BOOLEAN]

Init ==
    /\ malformed \in SUBSET Builds
    /\ dns \in Answers \cup {Failure}
    /\ rn = FALSE
    /\ cancelContext = {}
    /\ cancelled = {}
    /\ closed = {}
    /\ mgr = [b \in Builds |-> "none"]
    /\ addresses = [b \in Builds |-> <<>>]
    /\ lastAddresses = [b \in Builds |-> <<>>]
    /\ forceUpdate = [b \in Builds |-> FALSE]

Open(b) == mgr[b] # "none" /\ b \notin closed

-----------------------------------------------------------------------------
\* Mutant: the lists are compared without sorting them.
SameAddresses_Unsorted(s, t) == s = t

\* Mutant: the lengths are compared, and no more.
SameAddresses_LengthOnly(s, t) == Len(s) = Len(t)

\* Equal once sorted: some renumbering of the one is the other.
SameAddresses(s, t) ==
    /\ Len(s) = Len(t)
    /\ \E p \in [DOMAIN s -> DOMAIN t] :
         /\ \A i, j \in DOMAIN s : i # j => p[i] # p[j]
         /\ \A i \in DOMAIN s : s[i] = t[p[i]]

-----------------------------------------------------------------------------
(* The calls of gRPC: each finds the one Resolver.                           *)

\* Mutant: the context of the first Build is kept.
Build_KeepsFirst(b) ==
    /\ mgr[b] = "none"
    /\ Overlap \/ \A o \in Builds : ~Open(o)
    /\ cancelContext' = IF cancelContext = {} THEN {b} ELSE cancelContext
    /\ mgr' = [mgr EXCEPT ![b] = "resolve"]
    /\ UNCHANGED <<malformed, dns, rn, cancelled, closed, locals>>

\* The cancel function of the Build before is overwritten.
Build(b) ==
    /\ mgr[b] = "none"
    /\ Overlap \/ \A o \in Builds : ~Open(o)
    /\ cancelContext' = {b}
    /\ mgr' = [mgr EXCEPT ![b] = "resolve"]
    /\ UNCHANGED <<malformed, dns, rn, cancelled, closed, locals>>

\* A full channel drops the request.
ResolveNow(b) ==
    /\ Open(b)
    /\ rn' = TRUE
    /\ UNCHANGED <<malformed, dns, cancelContext, cancelled, closed, mgr, locals>>

\* Mutant: one context for all, created when the Resolver is registered.
Close_CancelsAll(b) ==
    /\ Open(b)
    /\ closed' = closed \cup {b}
    /\ cancelled' = Builds
    /\ UNCHANGED <<malformed, dns, rn, cancelContext, mgr, locals>>

Close(b) ==
    /\ Open(b)
    /\ closed' = closed \cup {b}
    /\ cancelled' = cancelled \cup cancelContext
    /\ UNCHANGED <<malformed, dns, rn, cancelContext, mgr, locals>>

-----------------------------------------------------------------------------
(* manageConnections.  The first round does not wait.                        *)

ContextDone(b) ==
    /\ mgr[b] = "wait"
    /\ b \in cancelled
    /\ mgr' = [mgr EXCEPT ![b] = "done"]
    /\ UNCHANGED <<malformed, dns, shared, locals>>

\* Five seconds have passed.
Tick(b) ==
    /\ mgr[b] = "wait"
    /\ mgr' = [mgr EXCEPT ![b] = "resolve"]
    /\ UNCHANGED <<malformed, dns, shared, locals>>

\* A select may prefer rn to a context that is done.
TakeResolveNow(b) ==
    /\ mgr[b] = "wait"
    /\ rn
    /\ rn' = FALSE
    /\ forceUpdate' = [forceUpdate EXCEPT ![b] = TRUE]
    /\ mgr' = [mgr EXCEPT ![b] = "resolve"]
    /\ UNCHANGED <<malformed, dns, cancelContext, cancelled, closed, addresses, lastAddresses>>

\* parseTarget refuses the target: the panic ends the process.
ParsePanics(b) ==
    /\ mgr[b] = "resolve"
    /\ b \in malformed
    /\ mgr' = [mgr EXCEPT ![b] = "panicked"]
    /\ UNCHANGED <<malformed, dns, shared, locals>>

\* Mutant: the round goes on after a failed lookup.
Lookup_IgnoresError(b) ==
    /\ mgr[b] = "resolve"
    /\ b \notin malformed
    /\ mgr' = [mgr EXCEPT ![b] = "update"]
    /\ addresses' = [addresses EXCEPT ![b] = dns]
    /\ UNCHANGED <<malformed, dns, shared, lastAddresses, forceUpdate>>

\* net.LookupIP; what it returned is published a step later.
Lookup(b) ==
    /\ mgr[b] = "resolve"
    /\ b \notin malformed
    /\ IF dns = Failure
       THEN mgr' = [mgr EXCEPT ![b] = "sleep"] /\ UNCHANGED addresses
       ELSE /\ mgr' = [mgr EXCEPT ![b] = "update"]
            /\ addresses' = [addresses EXCEPT ![b] = dns]
    /\ UNCHANGED <<malformed, dns, shared, lastAddresses, forceUpdate>>

\* The five seconds after a failed lookup, in which nothing is looked at.
Sleep(b) ==
    /\ mgr[b] = "sleep"
    /\ mgr' = [mgr EXCEPT ![b] = "wait"]
    /\ UNCHANGED <<malformed, dns, shared, locals>>

\* UpdateState, when the addresses changed or ResolveNow was called.
Update(b) ==
    /\ mgr[b] = "update"
    /\ mgr' = [mgr EXCEPT ![b] = "wait"]
    /\ IF SameAddresses(addresses[b], lastAddresses[b]) /\ ~forceUpdate[b]
       THEN UNCHANGED <<lastAddresses, forceUpdate>>
       ELSE /\ lastAddresses' = [lastAddresses EXCEPT ![b] = addresses[b]]
            /\ forceUpdate' = [forceUpdate EXCEPT ![b] = FALSE]
    /\ addresses' = [addresses EXCEPT ![b] = <<>>]
    /\ UNCHANGED <<malformed, dns, shared>>

-----------------------------------------------------------------------------
\* The name's addresses change, or lookups start or stop to fail.
DnsChanges ==
    /\ dns' \in Answers \cup {Failure}
    /\ UNCHANGED <<malformed, shared, mgr, locals>>

Manages(b) == Tick(b) \/ Lookup(b) \/ Sleep(b) \/ Update(b) \/ ParsePanics(b)

Alive == \A b \in Builds : mgr[b] # "panicked"

Next ==
    /\ Alive
    /\ \/ DnsChanges
       \/ \E b \in Builds : Build(b) \/ ResolveNow(b) \/ Close(b)
       \/ \E b \in Builds : ContextDone(b) \/ TakeResolveNow(b) \/ Manages(b)

\* Goroutines run, timers fire and lookups return.  A select that is often
\* offered a done context takes it one day: it chooses at random.
Fairness ==
    \A b \in Builds : WF_vars(Alive /\ Manages(b)) /\ SF_vars(Alive /\ ContextDone(b))

SafetySpec == Init /\ [][Next]_vars

Spec == SafetySpec /\ Fairness

-----------------------------------------------------------------------------
\* Close ends the goroutine of its own Build and no other: an open connection
\* is always looked after (resolver.go:147-153, 167-170).  It holds while the
\* Builds come one after the other, as those of a single client connection.
CloseIsItsOwn ==
    /\ cancelled = closed
    /\ \A b \in Builds : mgr[b] = "done" => b \in closed

\* How often each address occurs, the meaning of sameAddresses.
SameBag(s, t) ==
    \A a \in {s[i] : i \in DOMAIN s} \cup {t[i] : i \in DOMAIN t} :
        Cardinality({i \in DOMAIN s : s[i] = a}) = Cardinality({i \in DOMAIN t : t[i] = a})

\* A name server that rotates its answers disturbs nobody: a connection is
\* updated when the set of addresses changed or somebody asked for it
\* (resolver.go:75-98, 136).
QuietWhileRotating ==
    [][\A b \in Builds :
          lastAddresses'[b] # lastAddresses[b] =>
             forceUpdate[b] \/ ~SameBag(lastAddresses'[b], lastAddresses[b])]_vars

\* However the name changed, lookups failed, and ResolveNow, timers and Close
\* interleaved, an open connection ends up with the addresses of a name that no
\* longer changes, if no target panics (resolver.go:100-145).
Converges ==
    []Alive /\ (\E s \in Answers : <>[](dns = s)) =>
        \A b \in Builds : <>[](Open(b) => dns # Failure /\ SameBag(lastAddresses[b], dns))

\* The goroutine of a closed connection comes to its end, be it in a lookup,
\* asleep or woken by ResolveNow (resolver.go:107-113, 127).
ClosedIsReleased ==
    \A b \in Builds : b \in closed ~> mgr[b] = "done" \/ ~Alive
=============================================================================
