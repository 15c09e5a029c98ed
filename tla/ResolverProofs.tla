--------------------------- MODULE ResolverProofs ---------------------------
(***************************************************************************)
(* Resolver, for any number of Builds and any answers of the name server; for  *)
(* CloseIsItsOwn, of Builds that come one after the other.                    *)
(***************************************************************************)
EXTENDS Resolver, Functions, FiniteSetTheorems, SequenceTheorems, TLAPS

\* The fields that the goroutines and gRPC share; the addresses do not matter.
ControlOK ==
    /\ cancelled \subseteq Builds
    /\ closed \subseteq Builds
    /\ mgr \in [Builds -> {"none", "wait", "resolve", "update", "sleep", "done", "panicked"}]

\* The one open connection owns the context that Close would cancel.
OwnsContext ==
    /\ \A b \in Builds : Open(b) => cancelContext = {b}
    /\ \A b \in closed : mgr[b] # "none"

IInv == ControlOK /\ OwnsContext /\ CloseIsItsOwn

LEMMA InitIInv == Init => IInv
  BY DEF Init, IInv, ControlOK, OwnsContext, CloseIsItsOwn, Open

\* A goroutine moves on: it neither starts nor closes, and stops if cancelled.
LEMMA GoroutineKeepsIInv ==
  ASSUME IInv, NEW b \in Builds, UNCHANGED <<cancelContext, cancelled, closed>>, mgr[b] # "none",
         NEW to \in {"wait", "resolve", "update", "sleep", "done", "panicked"},
         mgr' = [mgr EXCEPT ![b] = to], to = "done" => b \in cancelled
  PROVE  IInv'
  BY DEF IInv, ControlOK, OwnsContext, CloseIsItsOwn, Open

LEMMA NextIInv == ASSUME ~Overlap, IInv, [Next]_vars PROVE IInv'
<1> USE DEF shared, locals
<1>1. CASE UNCHANGED vars
  BY <1>1 DEF vars, IInv, ControlOK, OwnsContext, CloseIsItsOwn, Open
<1>2. CASE DnsChanges
  BY <1>2 DEF DnsChanges, IInv, ControlOK, OwnsContext, CloseIsItsOwn, Open
<1>3. ASSUME NEW b \in Builds, Build(b) PROVE IInv'
  <2> USE <1>3 DEF Build, IInv, ControlOK
  <2>1. ControlOK' OBVIOUS
  <2>2. b \notin closed BY DEF OwnsContext
  <2>3. \A o \in Builds : Open(o)' => o = b BY DEF Open
  <2>4. OwnsContext' BY <2>2, <2>3 DEF OwnsContext
  <2>5. CloseIsItsOwn' BY DEF CloseIsItsOwn
  <2> QED BY <2>1, <2>4, <2>5
<1>4. ASSUME NEW b \in Builds, ResolveNow(b) PROVE IInv'
  BY <1>4 DEF ResolveNow, IInv, ControlOK, OwnsContext, CloseIsItsOwn, Open
<1>5. ASSUME NEW b \in Builds, Close(b) PROVE IInv'
  BY <1>5 DEF Close, IInv, ControlOK, OwnsContext, CloseIsItsOwn, Open
<1>6. ASSUME NEW b \in Builds, ContextDone(b) PROVE IInv'
  BY <1>6, GoroutineKeepsIInv DEF ContextDone
<1>7. ASSUME NEW b \in Builds, TakeResolveNow(b) PROVE IInv'
  BY <1>7, GoroutineKeepsIInv DEF TakeResolveNow
<1>8. ASSUME NEW b \in Builds, Manages(b) PROVE IInv'
  <2>1. CASE Tick(b) BY <2>1, GoroutineKeepsIInv DEF Tick
  <2>2. CASE Lookup(b) BY <2>2, GoroutineKeepsIInv DEF Lookup
  <2>3. CASE Sleep(b) BY <2>3, GoroutineKeepsIInv DEF Sleep
  <2>4. CASE Update(b) BY <2>4, GoroutineKeepsIInv DEF Update
  <2>5. CASE ParsePanics(b) BY <2>5, GoroutineKeepsIInv DEF ParsePanics
  <2> QED BY <1>8, <2>1, <2>2, <2>3, <2>4, <2>5 DEF Manages
<1> QED BY <1>1, <1>2, <1>3, <1>4, <1>5, <1>6, <1>7, <1>8 DEF Next

\* While the Builds come one after the other, Close ends the goroutine of its
\* own Build and no open connection loses its own (resolver.go:147-153, 167-170).
THEOREM CloseIsItsOwnHolds == ASSUME ~Overlap PROVE SafetySpec => []CloseIsItsOwn
<1>1. IInv /\ [Next]_vars => IInv' BY NextIInv
<1>2. IInv => CloseIsItsOwn BY DEF IInv
<1> QED BY <1>1, <1>2, InitIInv, PTL DEF SafetySpec

-----------------------------------------------------------------------------
LEMMA NextTypeOK == TypeOK /\ [Next]_vars => TypeOK'
<1> SUFFICES ASSUME TypeOK, [Next]_vars PROVE TypeOK'
  OBVIOUS
<1> USE DEF shared, locals, TypeOK
<1>1. CASE UNCHANGED vars BY <1>1 DEF vars
<1>2. CASE DnsChanges BY <1>2 DEF DnsChanges
<1>3. ASSUME NEW b \in Builds, Build(b) PROVE TypeOK' BY <1>3 DEF Build
<1>4. ASSUME NEW b \in Builds, ResolveNow(b) PROVE TypeOK' BY <1>4 DEF ResolveNow
<1>5. ASSUME NEW b \in Builds, Close(b) PROVE TypeOK' BY <1>5 DEF Close
<1>6. ASSUME NEW b \in Builds, ContextDone(b) PROVE TypeOK' BY <1>6 DEF ContextDone
<1>7. ASSUME NEW b \in Builds, TakeResolveNow(b) PROVE TypeOK' BY <1>7 DEF TakeResolveNow
<1>8. ASSUME NEW b \in Builds, Manages(b) PROVE TypeOK'
  <2>1. CASE Tick(b) \/ Sleep(b) \/ ParsePanics(b) BY <2>1 DEF Tick, Sleep, ParsePanics
  <2>2. CASE Lookup(b) BY <2>2 DEF Lookup
  <2>3. CASE Update(b) BY <2>3 DEF Update
  <2> QED BY <1>8, <2>1, <2>2, <2>3 DEF Manages
<1> QED BY <1>1, <1>2, <1>3, <1>4, <1>5, <1>6, <1>7, <1>8 DEF Next

\* Every variable keeps its type, also while Builds overlap: what a goroutine publishes is
\* an answer of the name server, never a failure (resolver.go:117-143).
THEOREM Typing == SafetySpec => []TypeOK
<1>1. Init => TypeOK BY DEF Init, TypeOK
<1> QED BY <1>1, NextTypeOK, PTL DEF SafetySpec

-----------------------------------------------------------------------------
(* sameAddresses, which compares sorted lists.                               *)

\* Where the list s has the address a.
Places(s, a) == {i \in DOMAIN s : s[i] = a}
Addresses(s, t) == {s[i] : i \in DOMAIN s} \cup {t[i] : i \in DOMAIN t}

LEMMA PlacesAreFinite ==
  ASSUME NEW s \in Seq(Nat), NEW a
  PROVE  IsFiniteSet(Places(s, a))
<1>1. Len(s) \in Nat BY LenProperties
<1>2. IsFiniteSet(1 .. Len(s)) BY <1>1, FS_Interval
<1>3. Places(s, a) \in SUBSET (1 .. Len(s)) BY DEF Places
<1> QED BY <1>2, <1>3, FS_Subset

\* The numbering of s by t that takes each address to its like.
Renumbers(p, s, t) ==
    /\ p \in [DOMAIN s -> DOMAIN t]
    /\ \A i \in DOMAIN s : s[i] = t[p[i]]
    /\ \A i, j \in DOMAIN s : i # j => p[i] # p[j]
    /\ \A k \in DOMAIN t : \E i \in DOMAIN s : p[i] = k

\* One renumbering for all addresses, put together from one for each.
LEMMA SameBagRenumbers ==
  ASSUME NEW s \in Seq(Nat), NEW t \in Seq(Nat), SameBag(s, t)
  PROVE  \E p : Renumbers(p, s, t)
<1>1. ASSUME NEW a \in Addresses(s, t)
      PROVE  \E f : f \in Bijection(Places(s, a), Places(t, a))
  <2>1. Cardinality(Places(s, a)) = Cardinality(Places(t, a))
    BY DEF SameBag, Addresses, Places
  <2>2. ExistsBijection(Places(s, a), Places(t, a))
    BY <2>1, PlacesAreFinite, FS_SameCardinalityBij
  <2> QED BY <2>2 DEF ExistsBijection
<1> DEFINE f(a) == CHOOSE f : f \in Bijection(Places(s, a), Places(t, a))
           p == [i \in DOMAIN s |-> f(s[i])[i]]
<1>2. ASSUME NEW a \in Addresses(s, t)
      PROVE  f(a) \in Bijection(Places(s, a), Places(t, a))
  BY <1>1
<1> HIDE DEF f
<1>3. ASSUME NEW a \in Addresses(s, t)
      PROVE  /\ \A i \in Places(s, a) : f(a)[i] \in Places(t, a)
             /\ \A i, j \in Places(s, a) : f(a)[i] = f(a)[j] => i = j
             /\ \A k \in Places(t, a) : \E i \in Places(s, a) : f(a)[i] = k
  BY <1>2 DEF Bijection, Injection, Surjection, IsInjective
<1>4. ASSUME NEW i \in DOMAIN s
      PROVE  s[i] \in Addresses(s, t) /\ i \in Places(s, s[i])
  BY DEF Addresses, Places
<1>5. ASSUME NEW i \in DOMAIN s PROVE p[i] \in DOMAIN t /\ t[p[i]] = s[i]
  <2>1. p[i] = f(s[i])[i] OBVIOUS
  <2>2. p[i] \in Places(t, s[i]) BY <1>3, <1>4, <2>1
  <2> QED BY <2>2 DEF Places
<1>6. ASSUME NEW i \in DOMAIN s, NEW j \in DOMAIN s, p[i] = p[j] PROVE i = j
  <2>1. s[i] = s[j] BY <1>5, <1>6
  <2>2. j \in Places(s, s[i]) /\ p[i] = f(s[i])[i] /\ p[j] = f(s[i])[j] BY <2>1 DEF Places
  <2> QED BY <1>3, <1>4, <1>6, <2>2
<1>7. ASSUME NEW k \in DOMAIN t PROVE \E i \in DOMAIN s : p[i] = k
  <2>1. t[k] \in Addresses(s, t) /\ k \in Places(t, t[k]) BY DEF Addresses, Places
  <2>2. PICK i \in Places(s, t[k]) : f(t[k])[i] = k BY <1>3, <2>1
  <2>3. i \in DOMAIN s /\ s[i] = t[k] BY <2>2 DEF Places
  <2> QED BY <2>2, <2>3
<1>8. p \in [DOMAIN s -> DOMAIN t] BY <1>5
<1> HIDE DEF p
<1>9. Renumbers(p, s, t) BY <1>5, <1>6, <1>7, <1>8 DEF Renumbers
<1> QED BY <1>9

LEMMA DomainIs ==
  ASSUME NEW s \in Seq(Nat)
  PROVE  IsFiniteSet(DOMAIN s) /\ Cardinality(DOMAIN s) = Len(s)
<1>1. DOMAIN s = 1 .. Len(s) /\ Len(s) \in Nat BY LenProperties
<1>2. Cardinality(1 .. Len(s)) = IF 1 > Len(s) THEN 0 ELSE Len(s) - 1 + 1
  BY <1>1, FS_Interval
<1>3. (IF 1 > Len(s) THEN 0 ELSE Len(s) - 1 + 1) = Len(s) BY <1>1
<1>4. IsFiniteSet(1 .. Len(s)) BY <1>1, FS_Interval
<1> QED BY <1>1, <1>2, <1>3, <1>4

LEMMA SameBagIsSame ==
  ASSUME NEW s \in Seq(Nat), NEW t \in Seq(Nat), SameBag(s, t)
  PROVE  SameAddresses(s, t)
<1>1. PICK p : Renumbers(p, s, t) BY SameBagRenumbers
<1>2. /\ p \in [DOMAIN s -> DOMAIN t]
      /\ \A i, j \in DOMAIN s : i # j => p[i] # p[j]
      /\ \A i \in DOMAIN s : s[i] = t[p[i]]
      /\ \A k \in DOMAIN t : \E i \in DOMAIN s : p[i] = k
  BY <1>1 DEF Renumbers
<1>3. p \in Bijection(DOMAIN s, DOMAIN t)
  BY <1>2 DEF Bijection, Injection, Surjection, IsInjective
<1>4. Len(s) = Len(t) BY <1>3, DomainIs, FS_Bijection DEF ExistsBijection
<1> QED BY <1>2, <1>4 DEF SameAddresses

\* A renumbering takes the places of an address in the one list to those in the other.
LEMMA SameIsSameBag ==
  ASSUME NEW s \in Seq(Nat), NEW t \in Seq(Nat), SameAddresses(s, t)
  PROVE  SameBag(s, t)
<1>1. Len(s) = Len(t) BY DEF SameAddresses
<1>2. PICK p \in [DOMAIN s -> DOMAIN t] :
         /\ \A i, j \in DOMAIN s : i # j => p[i] # p[j]
         /\ \A i \in DOMAIN s : s[i] = t[p[i]]
  BY DEF SameAddresses
<1>3. p \in Surjection(DOMAIN s, DOMAIN t)
  <2>1. p \in Injection(DOMAIN s, DOMAIN t) BY <1>2 DEF Injection, IsInjective
  <2> QED BY <1>1, <2>1, DomainIs, FS_Injection
<1>4. ASSUME NEW a PROVE Cardinality(Places(s, a)) = Cardinality(Places(t, a))
  <2> DEFINE q == [i \in Places(s, a) |-> p[i]]
  <2>1. q \in [Places(s, a) -> Places(t, a)] BY <1>2 DEF Places
  <2>2. \A i, j \in Places(s, a) : q[i] = q[j] => i = j BY <1>2 DEF Places
  <2>3. \A k \in Places(t, a) : \E i \in Places(s, a) : q[i] = k
    <3>1. ASSUME NEW k \in Places(t, a) PROVE \E i \in Places(s, a) : p[i] = k
      <4>1. k \in DOMAIN t /\ t[k] = a BY DEF Places
      <4>2. PICK i \in DOMAIN s : p[i] = k BY <1>3, <4>1 DEF Surjection
      <4>3. i \in Places(s, a) BY <1>2, <4>1, <4>2 DEF Places
      <4> QED BY <4>2, <4>3
    <3> QED BY <3>1
  <2> HIDE DEF q
  <2>4. q \in Bijection(Places(s, a), Places(t, a))
    BY <2>1, <2>2, <2>3 DEF Bijection, Injection, Surjection, IsInjective
  <2> QED BY <2>4, PlacesAreFinite, FS_Bijection DEF ExistsBijection
<1> QED BY <1>4 DEF SameBag, Places

\* Whatever the lists, sameAddresses finds the same what has every address as often, in
\* whatever order, and nothing else (resolver.go:75-98).
THEOREM SameAddressesIsSameBag ==
  ASSUME NEW s \in Seq(Nat), NEW t \in Seq(Nat)
  PROVE  SameAddresses(s, t) <=> SameBag(s, t)
BY SameBagIsSame, SameIsSameBag

\* A name server that rotates its answers disturbs nobody, however many addresses it gives
\* and however the Builds overlap: a connection is updated when the addresses changed or
\* somebody asked for it (resolver.go:75-98, 136).
THEOREM QuietWhileRotatingHolds == SafetySpec => QuietWhileRotating
<1> DEFINE Quiet == \A b \in Builds :
              lastAddresses'[b] # lastAddresses[b] =>
                 forceUpdate[b] \/ ~SameBag(lastAddresses'[b], lastAddresses[b])
<1>1. ASSUME TypeOK, [Next]_vars, NEW b \in Builds, lastAddresses'[b] # lastAddresses[b]
      PROVE  forceUpdate[b] \/ ~SameBag(lastAddresses'[b], lastAddresses[b])
  <2>1. PICK c \in Builds : Update(c) /\ lastAddresses' # lastAddresses
    BY <1>1 DEF Next, vars, shared, locals, DnsChanges, Build, ResolveNow, Close, ContextDone,
                TakeResolveNow, Manages, Tick, Lookup, Sleep, ParsePanics
  <2>2. lastAddresses' = [lastAddresses EXCEPT ![c] = addresses[c]]
        /\ ~(SameAddresses(addresses[c], lastAddresses[c]) /\ ~forceUpdate[c])
    BY <2>1 DEF Update
  <2>3. c = b /\ lastAddresses'[b] = addresses[b] BY <1>1, <2>2 DEF TypeOK
  <2>4. addresses[b] \in Seq(Nat) /\ lastAddresses[b] \in Seq(Nat)
    <3>1. addresses[b] \in Answers \cup {<<>>} /\ lastAddresses[b] \in Answers \cup {<<>>}
      BY <1>1 DEF TypeOK
    <3>2. <<>> \in Seq(Nat) OBVIOUS
    <3> QED BY <3>1, <3>2, AnswersAssumption
  <2> QED BY <2>2, <2>3, <2>4, SameAddressesIsSameBag
<1>2. TypeOK /\ [Next]_vars => [Quiet]_vars BY <1>1
<1> QED BY <1>2, Typing, PTL DEF SafetySpec, QuietWhileRotating
=============================================================================
