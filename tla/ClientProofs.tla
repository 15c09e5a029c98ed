---------------------------- MODULE ClientProofs ----------------------------
(***************************************************************************)
(* The parts of a client that MCConnPool puts beside the pool, each from its   *)
(* own specification: a connection and its dial options, the size logger, and  *)
(* the logger of gRPC.                                                       *)
(***************************************************************************)
EXTENDS MCConnPool, ConnPoolProofs, SequenceTheorems, WellFoundedInduction, TLAPS

\* Dial options

\* Induction by the smallest counterexample.
LEMMA Smallest ==
  ASSUME NEW T \in SUBSET Nat, T # {}
  PROVE  \E x \in T : \A y \in T : x <= y
<1> DEFINE R == OpToRel(<, Nat)
<1>1. IsWellFoundedOn(R, Nat) BY NatLessThanWellFounded
<1>2. R = {ss \in Nat \X Nat : ss[1] < ss[2]} BY DEF OpToRel
<1>3. \A x, y \in Nat : y < x => <<y, x>> \in R BY <1>2, Zenon
<1> HIDE DEF R
<1>4. PICK x \in T : \A y \in T : ~(<<y, x>> \in R) BY <1>1, WFMin
<1>5. \A y \in T : ~(y < x) BY <1>3, <1>4
<1> QED BY <1>4, <1>5

\* Max, which is a CHOOSE, finds the largest.
LEMMA Largest ==
  ASSUME NEW n \in Nat, NEW S \in SUBSET (1 .. n), S # {}
  PROVE  Dial!Max(S) \in S /\ \A y \in S : y <= Dial!Max(S)
<1> DEFINE T == {n - k : k \in S}
<1>1. T \in SUBSET Nat /\ T # {}
  <2>1. \A k \in S : n - k \in Nat OBVIOUS
  <2> QED BY <2>1, Zenon
<1>2. PICK t \in T : \A y \in T : t <= y
  <2> HIDE DEF T
  <2> QED BY <1>1, Smallest
<1>3. PICK m \in S : t = n - m OBVIOUS
<1>4. \A y \in S : m >= y BY <1>2, <1>3
<1> QED BY <1>4 DEF Dial!Max

-----------------------------------------------------------------------------
AnyOption == [kind : {"creds", "wait"},
              value : {"error", "xds", "plain", "skipVerify", "tls", "yes", "no"}]

\* LastOf finds the value of the last option of a kind, or there is none.
LEMMA LastOfIs ==
  ASSUME NEW o \in Seq(AnyOption), NEW kind, NEW default
  PROVE  \/ /\ \A i \in DOMAIN o : o[i].kind # kind
            /\ Dial!LastOf(o, kind, default) = default
         \/ \E i \in DOMAIN o :
               /\ o[i].kind = kind /\ o[i].value = Dial!LastOf(o, kind, default)
               /\ \A j \in DOMAIN o : j > i => o[j].kind # kind
<1> DEFINE those == {i \in DOMAIN o : o[i].kind = kind}
<1>1. Len(o) \in Nat /\ DOMAIN o = 1 .. Len(o) BY LenProperties
<1>2. CASE those = {} BY <1>2 DEF Dial!LastOf
<1>3. CASE those # {}
  <2>1. those \in SUBSET (1 .. Len(o)) BY <1>1
  <2> DEFINE i == Dial!Max(those)
  <2>2. i \in those /\ \A j \in those : j <= i
    <3> HIDE DEF those
    <3> QED BY <1>1, <1>3, <2>1, Largest
  <2>3. Dial!LastOf(o, kind, default) = o[i].value BY <1>3 DEF Dial!LastOf
  <2> HIDE DEF i
  <2>4. \A j \in DOMAIN o : j > i => o[j].kind # kind BY <1>1, <2>2
  <2> QED BY <2>2, <2>3, <2>4
<1> QED BY <1>2, <1>3

\* The options before those of the program.
Defaults(c) == Dial!XdsOptions(c) \o Dial!OwnOptions(c.fn)

LEMMA DefaultsAre ==
  ASSUME NEW c \in Dial!Calls
  PROVE  /\ Defaults(c) \in Seq(AnyOption) /\ Len(Defaults(c)) \in Nat
         /\ \A i \in 1 .. Len(Defaults(c)) :
               LET o == Defaults(c)[i] IN
               /\ o.kind = "creds" =>
                     \/ o.value = "xds" /\ c.xds
                     \/ /\ o.value = "plain"
                        /\ c.fn \in {"NewInternalClientConn", "NewInternalNoWaitClientConn"}
                     \/ o.value = "tls" /\ c.fn = "NewExternalClientConn"
               /\ o.kind = "wait" => o.value = "yes"
         /\ c.fn = "NewInternalClientConn" =>
               /\ Len(Defaults(c)) \in 1 .. Len(Defaults(c))
               /\ Defaults(c)[Len(Defaults(c))].kind = "wait"
         /\ c.fn = "NewExternalClientConn" =>
               /\ Len(Defaults(c)) \in 1 .. Len(Defaults(c))
               /\ Defaults(c)[Len(Defaults(c))] = Dial!Creds("tls")
<1> DEFINE x == Dial!XdsOptions(c)
           w == Dial!OwnOptions(c.fn)
<1>1. c.fn \in Dial!Functions /\ c.xds \in BOOLEAN BY DEF Dial!Calls
<1>2. x \in Seq(AnyOption) /\ Len(x) \in Nat /\ (x = <<>> \/ (c.xds /\ x = <<Dial!Creds("xds")>>))
  <2>1. Dial!Creds("xds") \in AnyOption BY DEF Dial!Creds, AnyOption
  <2>2. CASE c.xds BY <2>1, <2>2 DEF Dial!XdsOptions
  <2>3. CASE ~c.xds BY <2>3 DEF Dial!XdsOptions
  <2> QED BY <2>2, <2>3
<1>3. w \in Seq(AnyOption) /\ Len(w) \in Nat
  <2>1. \A e \in {"plain", "tls"} : Dial!Creds(e) \in AnyOption BY DEF Dial!Creds, AnyOption
  <2>2. Dial!WaitForReady(TRUE) \in AnyOption BY DEF Dial!WaitForReady, AnyOption
  <2>3. CASE c.fn = "NewInternalClientConn"
    <3>1. w = <<Dial!Creds("plain"), Dial!WaitForReady(TRUE)>> BY <2>3 DEF Dial!OwnOptions
    <3>2. \A a, b \in AnyOption : <<a, b>> \in Seq(AnyOption) /\ Len(<<a, b>>) \in Nat OBVIOUS
    <3> QED BY <2>1, <2>2, <3>1, <3>2
  <2>4. CASE c.fn = "NewInternalNoWaitClientConn" BY <2>1, <2>4 DEF Dial!OwnOptions
  <2>5. CASE c.fn = "NewExternalClientConn" BY <2>1, <2>5 DEF Dial!OwnOptions
  <2>6. CASE c.fn = "NewClientConn" BY <2>6 DEF Dial!OwnOptions
  <2> QED BY <1>1, <2>3, <2>4, <2>5, <2>6 DEF Dial!Functions
<1>4. /\ Defaults(c) \in Seq(AnyOption) /\ Len(Defaults(c)) = Len(x) + Len(w)
      /\ \A i \in 1 .. Len(x) + Len(w) :
            Defaults(c)[i] = IF i <= Len(x) THEN x[i] ELSE w[i - Len(x)]
  <2> HIDE DEF x, w
  <2>1. Defaults(c) = x \o w BY DEF Defaults, x, w
  <2> QED BY <1>2, <1>3, <2>1, ConcatProperties
<1>5. \A i \in 1 .. Len(x) : c.xds /\ x[i] = [kind |-> "creds", value |-> "xds"]
  BY <1>2 DEF Dial!Creds
<1>6. \A i \in 1 .. Len(w) :
         \/ w[i] = [kind |-> "creds", value |-> "plain"]
            /\ c.fn \in {"NewInternalClientConn", "NewInternalNoWaitClientConn"}
         \/ w[i] = [kind |-> "creds", value |-> "tls"] /\ c.fn = "NewExternalClientConn"
         \/ w[i] = [kind |-> "wait", value |-> "yes"]
  BY <1>1 DEF Dial!OwnOptions, Dial!Creds, Dial!WaitForReady, Dial!Functions
<1>7. c.fn = "NewInternalClientConn" => Len(w) = 2 /\ w[2].kind = "wait"
  BY DEF Dial!OwnOptions, Dial!Creds, Dial!WaitForReady
<1>11. c.fn = "NewExternalClientConn" => Len(w) = 1 /\ w[1] = Dial!Creds("tls")
  BY DEF Dial!OwnOptions
<1> HIDE DEF x, w
<1>8. ASSUME NEW i \in 1 .. Len(Defaults(c))
      PROVE \/ i \in 1 .. Len(x) /\ Defaults(c)[i] = x[i]
            \/ i - Len(x) \in 1 .. Len(w) /\ Defaults(c)[i] = w[i - Len(x)]
  BY <1>2, <1>3, <1>4
<1>9. ASSUME NEW i \in 1 .. Len(Defaults(c))
      PROVE  /\ Defaults(c)[i].kind = "creds" =>
                   \/ Defaults(c)[i].value = "xds" /\ c.xds
                   \/ /\ Defaults(c)[i].value = "plain"
                      /\ c.fn \in {"NewInternalClientConn", "NewInternalNoWaitClientConn"}
                   \/ Defaults(c)[i].value = "tls" /\ c.fn = "NewExternalClientConn"
             /\ Defaults(c)[i].kind = "wait" => Defaults(c)[i].value = "yes"
  <2>1. CASE i \in 1 .. Len(x) /\ Defaults(c)[i] = x[i] BY <1>5, <2>1
  <2>2. CASE i - Len(x) \in 1 .. Len(w) /\ Defaults(c)[i] = w[i - Len(x)] BY <1>6, <2>2
  <2> QED BY <1>8, <2>1, <2>2
<1>10. ASSUME c.fn = "NewInternalClientConn"
       PROVE  /\ Len(Defaults(c)) \in 1 .. Len(Defaults(c))
              /\ Defaults(c)[Len(Defaults(c))].kind = "wait"
  <2>1. Len(Defaults(c)) = Len(x) + 2 BY <1>4, <1>7, <1>10
  <2>2. Len(x) + 2 \in 1 .. Len(x) + Len(w) /\ ~(Len(x) + 2 <= Len(x)) /\ Len(x) + 2 - Len(x) = 2
    <3>1. Len(x) \in Nat /\ Len(w) = 2 BY <1>2, <1>7, <1>10
    <3> QED BY ONLY <3>1
  <2>3. Defaults(c)[Len(x) + 2] = w[2] BY <1>4, <2>2
  <2> QED BY <1>2, <1>7, <1>10, <2>1, <2>3
<1>12. ASSUME c.fn = "NewExternalClientConn"
       PROVE  /\ Len(Defaults(c)) \in 1 .. Len(Defaults(c))
              /\ Defaults(c)[Len(Defaults(c))] = Dial!Creds("tls")
  <2>1. Len(Defaults(c)) = Len(x) + 1 BY <1>4, <1>11, <1>12
  <2>2. Len(x) + 1 \in 1 .. Len(x) + Len(w) /\ ~(Len(x) + 1 <= Len(x)) /\ Len(x) + 1 - Len(x) = 1
    <3>1. Len(x) \in Nat /\ Len(w) = 1 BY <1>2, <1>11, <1>12
    <3> QED BY ONLY <3>1
  <2>3. Defaults(c)[Len(x) + 1] = w[1] BY <1>4, <2>2
  <2> QED BY <1>2, <1>11, <1>12, <2>1, <2>3
<1> QED BY <1>2, <1>3, <1>4, <1>9, <1>10, <1>12

\* The program's options come last.
LEMMA DialOptionsAre ==
  ASSUME NEW c \in Dial!Calls
  PROVE  /\ Dial!DialOptions(c) \in Seq(AnyOption)
         /\ DOMAIN Dial!DialOptions(c) = 1 .. Len(Defaults(c)) + Len(c.extra)
         /\ \A i \in 1 .. Len(Defaults(c)) : Dial!DialOptions(c)[i] = Defaults(c)[i]
         /\ \A i \in DOMAIN c.extra :
               /\ Len(Defaults(c)) + i \in DOMAIN Dial!DialOptions(c)
               /\ Dial!DialOptions(c)[Len(Defaults(c)) + i] = Dial!OptionOf(c.extra[i], c.env)
         /\ \A i \in DOMAIN Dial!DialOptions(c) :
               i > Len(Defaults(c)) => i - Len(Defaults(c)) \in DOMAIN c.extra
         /\ Len(c.extra) \in Nat /\ DOMAIN c.extra = 1 .. Len(c.extra)
<1> DEFINE d == Defaults(c)
           e == Dial!ExtraOptions(c)
<1>1. PICK n \in Nat : c.extra \in [1 .. n -> Dial!Extras]
  BY DialAssumption DEF Dial!Calls, Dial!ConstantsOK
<1>2. DOMAIN c.extra = 1 .. n /\ Len(c.extra) = n BY <1>1
<1>3. \A i \in 1 .. n : Dial!OptionOf(c.extra[i], c.env) \in AnyOption
  BY <1>1 DEF Dial!OptionOf, Dial!Creds, Dial!WaitForReady, Dial!AutoCreds, AnyOption, Dial!Extras
<1>4. /\ e \in Seq(AnyOption) /\ Len(e) = n
      /\ \A i \in 1 .. n : e[i] = Dial!OptionOf(c.extra[i], c.env)
  BY <1>2, <1>3 DEF Dial!ExtraOptions
<1>5. d \in Seq(AnyOption) /\ Len(d) \in Nat BY DefaultsAre
<1>6. Dial!DialOptions(c) = d \o e BY DEF Dial!DialOptions, Defaults
<1> HIDE DEF d, e
<1>7. /\ Dial!DialOptions(c) \in Seq(AnyOption)
      /\ DOMAIN Dial!DialOptions(c) = 1 .. Len(d) + n
      /\ \A i \in 1 .. Len(d) + n :
            Dial!DialOptions(c)[i] = IF i <= Len(d) THEN d[i] ELSE e[i - Len(d)]
  BY <1>4, <1>5, <1>6, ConcatProperties, LenProperties
<1>8. ASSUME NEW i \in 1 .. n
      PROVE  /\ Len(d) + i \in 1 .. Len(d) + n /\ ~(Len(d) + i <= Len(d))
             /\ Len(d) + i - Len(d) = i
  BY <1>5
<1>9. \A i \in 1 .. n :
         /\ Len(d) + i \in DOMAIN Dial!DialOptions(c)
         /\ Dial!DialOptions(c)[Len(d) + i] = Dial!OptionOf(c.extra[i], c.env)
  BY <1>4, <1>7, <1>8
<1>10. \A i \in 1 .. Len(d) : Dial!DialOptions(c)[i] = d[i] BY <1>5, <1>7
<1>11. \A i \in 1 .. Len(d) + n : i > Len(d) => i - Len(d) \in 1 .. n BY <1>5
<1> QED BY <1>2, <1>7, <1>9, <1>10, <1>11 DEF d

OptionAt(c, i) == Dial!OptionOf(c.extra[i], c.env)
ValueOf(c, kind, default) == Dial!LastOf(Dial!DialOptions(c), kind, default)

\* Of a kind, the program's last option counts, or else the last of the defaults.
LEMMA LastCounts ==
  ASSUME NEW c \in Dial!Calls, NEW kind, NEW default
  PROVE  \/ \E i \in DOMAIN c.extra :
               /\ OptionAt(c, i).kind = kind /\ OptionAt(c, i).value = ValueOf(c, kind, default)
               /\ \A j \in DOMAIN c.extra : j > i => OptionAt(c, j).kind # kind
         \/ /\ \A i \in DOMAIN c.extra : OptionAt(c, i).kind # kind
            /\ \/ \E i \in 1 .. Len(Defaults(c)) :
                     /\ Defaults(c)[i].kind = kind
                     /\ Defaults(c)[i].value = ValueOf(c, kind, default)
                     /\ \A j \in 1 .. Len(Defaults(c)) : j > i => Defaults(c)[j].kind # kind
               \/ /\ \A i \in 1 .. Len(Defaults(c)) : Defaults(c)[i].kind # kind
                  /\ ValueOf(c, kind, default) = default
<1> DEFINE o == Dial!DialOptions(c)
           value == Dial!LastOf(o, kind, default)
           option(i) == Dial!OptionOf(c.extra[i], c.env)
           n == Len(Defaults(c))
<1>1. n \in Nat BY DefaultsAre
<1>2. /\ o \in Seq(AnyOption) /\ DOMAIN o = 1 .. n + Len(c.extra)
      /\ \A i \in 1 .. n : i \in DOMAIN o /\ o[i] = Defaults(c)[i]
      /\ \A i \in DOMAIN c.extra : n + i \in DOMAIN o /\ o[n + i] = option(i)
      /\ \A i \in DOMAIN o : i > n => i - n \in DOMAIN c.extra
      /\ Len(c.extra) \in Nat /\ DOMAIN c.extra = 1 .. Len(c.extra)
  BY <1>1, DialOptionsAre
<1> HIDE DEF o, option, n
<1>5. \/ /\ \A i \in DOMAIN o : o[i].kind # kind
         /\ value = default
      \/ \E i \in DOMAIN o :
            /\ o[i].kind = kind /\ o[i].value = value
            /\ \A j \in DOMAIN o : j > i => o[j].kind # kind
  <2> HIDE DEF value
  <2>1. o \in Seq(AnyOption) /\ value = Dial!LastOf(o, kind, default) BY <1>2 DEF value
  <2> QED BY <2>1, LastOfIs
<1>3. CASE /\ \A i \in DOMAIN o : o[i].kind # kind
           /\ value = default
  <2>1. \A i \in DOMAIN c.extra : option(i).kind # kind BY <1>2, <1>3
  <2>2. \A i \in 1 .. n : Defaults(c)[i].kind # kind BY <1>2, <1>3
  <2>3. ValueOf(c, kind, default) = default BY <1>3, Zenon DEF o, ValueOf
  <2>4. \A i \in DOMAIN c.extra : OptionAt(c, i).kind # kind
    BY <2>1, Zenon DEF option, OptionAt
  <2> QED BY <2>2, <2>3, <2>4, Zenon DEF n
<1>4. ASSUME NEW i \in DOMAIN o, o[i].kind = kind, o[i].value = value,
             \A j \in DOMAIN o : j > i => o[j].kind # kind
      PROVE  \/ \E k \in DOMAIN c.extra :
                   /\ option(k).kind = kind /\ option(k).value = value
                   /\ \A j \in DOMAIN c.extra : j > k => option(j).kind # kind
             \/ /\ \A k \in DOMAIN c.extra : option(k).kind # kind
                /\ \E k \in 1 .. n :
                      /\ Defaults(c)[k].kind = kind /\ Defaults(c)[k].value = value
                      /\ \A j \in 1 .. n : j > k => Defaults(c)[j].kind # kind
  <2> HIDE DEF value
  <2>1. CASE i > n
    <3>1. i - n \in DOMAIN c.extra /\ n + (i - n) = i BY <1>1, <1>2, <2>1
    <3>2. option(i - n) = o[i] BY <1>2, <3>1
    <3>3. \A j \in DOMAIN c.extra : j > i - n => n + j > i BY <1>1, <1>2, <2>1
    <3>4. \A j \in DOMAIN c.extra : j > i - n => option(j).kind # kind
      BY <1>2, <1>4, <3>3
    <3> QED BY <1>4, <3>1, <3>2, <3>4
  <2>2. CASE ~(i > n)
    <3>1. i \in 1 .. n /\ o[i] = Defaults(c)[i] BY <1>1, <1>2, <2>2
    <3>2. \A j \in DOMAIN c.extra : n + j > i BY <1>1, <1>2, <2>2
    <3>3. \A j \in DOMAIN c.extra : option(j).kind # kind BY <1>2, <1>4, <3>2
    <3>4. \A j \in 1 .. n : j > i => Defaults(c)[j].kind # kind BY <1>2, <1>4
    <3> QED BY <1>4, <3>1, <3>3, <3>4
  <2> QED BY <2>1, <2>2
<1> QED BY <1>3, <1>4, <1>5 DEF o, option, n, OptionAt, ValueOf

-----------------------------------------------------------------------------
\* An option of the program is credentials, or how its RPCs wait.
LEMMA OptionIs ==
  ASSUME NEW c \in Dial!Calls, NEW i \in DOMAIN c.extra
  PROVE  LET e == c.extra[i]
             o == OptionAt(c, i) IN
         /\ e \in Dial!Extras /\ c.env \in BOOLEAN
         /\ "auto" \in DOMAIN e =>
               /\ e.auto \in Dial!Autos
               /\ o = [kind |-> "creds", value |-> Dial!AutoCreds(e.auto, c.env)]
               /\ o.value \in {"error", "xds", "plain", "skipVerify", "tls"}
         /\ "auto" \notin DOMAIN e => o.kind = "wait" /\ o.value \in {"yes", "no"}
<1>1. PICK n \in Nat : c.extra \in [1 .. n -> Dial!Extras]
  BY DialAssumption DEF Dial!Calls, Dial!ConstantsOK
<1>2. c.extra[i] \in Dial!Extras /\ c.env \in BOOLEAN BY <1>1 DEF Dial!Calls
<1> QED BY <1>2 DEF OptionAt, Dial!OptionOf, Dial!Creds, Dial!WaitForReady, Dial!AutoCreds, Dial!Extras

LEMMA ExtraOptionIn ==
  ASSUME NEW c \in Dial!Calls, NEW i \in DOMAIN c.extra
  PROVE  OptionAt(c, i) \in Dial!ToSet(Dial!ExtraOptions(c))
BY DEF OptionAt, Dial!ToSet, Dial!ExtraOptions

CredsIn == {"none", "plain", "skipVerify", "tls", "xds"}

\* What becomes of a connection whose options are all right.
LEMMA OpenIs ==
  ASSUME NEW c \in Dial!Calls,
         \A i \in DOMAIN c.extra : OptionAt(c, i) # Dial!Creds("error")
  PROVE  Dial!Open(c).creds \in CredsIn /\ Dial!Open(c).wait \in {"yes", "no"}
<1>1. ASSUME NEW i \in DOMAIN c.extra
      PROVE  /\ OptionAt(c, i).kind = "creds" => OptionAt(c, i).value \in CredsIn
             /\ OptionAt(c, i).kind = "wait" => OptionAt(c, i).value \in {"yes", "no"}
  <2>1. CASE "auto" \in DOMAIN c.extra[i] BY <2>1, OptionIs DEF Dial!Creds, CredsIn
  <2>2. CASE "auto" \notin DOMAIN c.extra[i] BY <2>2, OptionIs
  <2> QED BY <2>1, <2>2
<1>2. \A i \in 1 .. Len(Defaults(c)) :
         /\ Defaults(c)[i].kind = "creds" => Defaults(c)[i].value \in CredsIn
         /\ Defaults(c)[i].kind = "wait" => Defaults(c)[i].value \in {"yes", "no"}
  BY DefaultsAre DEF CredsIn
<1>3. ValueOf(c, "creds", "none") \in CredsIn
  <2>1. "none" \in CredsIn BY DEF CredsIn
  <2> QED BY <1>1, <1>2, <2>1, LastCounts
<1>4. ValueOf(c, "wait", "no") \in {"yes", "no"} BY <1>1, <1>2, LastCounts
<1> QED BY <1>3, <1>4 DEF Dial!Open, ValueOf

LEMMA NewConnIs ==
  ASSUME NEW c \in Dial!Calls
  PROVE  LET new == Dial!NewClientConn(c) IN
         /\ new \in [state : Dial!States, creds : CredsIn, wait : {"yes", "no"}]
         /\ new.state # "none"
         /\ new.state = "open" =>
               /\ new = Dial!Open(c) /\ new.creds # "none"
               /\ c.xds => c.env
               /\ \A i \in DOMAIN c.extra :
                     OptionAt(c, i) # Dial!Creds("error")
<1>1. CASE Dial!Creds("error") \in Dial!ToSet(Dial!ExtraOptions(c))
  BY <1>1 DEF Dial!NewClientConn, Dial!NoConn, Dial!States, CredsIn
<1>2. CASE /\ Dial!Creds("error") \notin Dial!ToSet(Dial!ExtraOptions(c))
           /\ c.xds /\ ~c.env
  BY <1>2 DEF Dial!NewClientConn, Dial!NoConn, Dial!States, CredsIn
<1>3. CASE /\ Dial!Creds("error") \notin Dial!ToSet(Dial!ExtraOptions(c))
           /\ ~(c.xds /\ ~c.env) /\ Dial!Open(c).creds = "none"
  BY <1>3 DEF Dial!NewClientConn, Dial!NoConn, Dial!States, CredsIn
<1>4. CASE /\ Dial!Creds("error") \notin Dial!ToSet(Dial!ExtraOptions(c))
           /\ ~(c.xds /\ ~c.env) /\ Dial!Open(c).creds # "none"
  <2>1. Dial!NewClientConn(c) = Dial!Open(c) BY <1>4 DEF Dial!NewClientConn
  <2>2. \A i \in DOMAIN c.extra : OptionAt(c, i) # Dial!Creds("error")
    BY <1>4, ExtraOptionIn
  <2>3. Dial!Open(c).creds \in CredsIn /\ Dial!Open(c).wait \in {"yes", "no"}
    BY <2>2, OpenIs
  <2>4. Dial!Open(c) = [state |-> "open", creds |-> Dial!Open(c).creds,
                        wait |-> Dial!Open(c).wait]
    BY DEF Dial!Open
  <2>5. c.xds => c.env BY <1>4
  <2> HIDE DEF Dial!Open
  <2>6. Dial!Open(c).state = "open" BY DEF Dial!Open
  <2>7. Dial!Open(c) \in [state : Dial!States, creds : CredsIn, wait : {"yes", "no"}]
    <3>1. \A a \in CredsIn, b \in {"yes", "no"} :
             [state |-> "open", creds |-> a, wait |-> b]
                \in [state : Dial!States, creds : CredsIn, wait : {"yes", "no"}]
      BY DEF Dial!States
    <3> QED BY <2>3, <2>4, <3>1, Zenon
  <2> QED BY <1>4, <2>1, <2>2, <2>5, <2>6, <2>7
<1> QED BY <1>1, <1>2, <1>3, <1>4

-----------------------------------------------------------------------------
DialTypeOK ==
    /\ call \in Dial!Calls
    /\ server \in [tls : BOOLEAN, mesh : BOOLEAN]
    /\ up \in BOOLEAN
    /\ channel \in {"idle", "connecting", "ready", "failure"}
    /\ rpc \in [RPCs -> {"none", "pending", "plain", "tls", "unavailable"}]

\* A connection is what the options make it, an RPC has an open one, and has ended
\* as that connection does.
RpcFits(r) ==
    /\ rpc[r] # "none" => conn.state = "open"
    /\ rpc[r] = "plain" => Dial!Transport = "plain"
    /\ rpc[r] = "unavailable" => conn.wait = "no"

DialIInv ==
    /\ DialTypeOK
    /\ conn = Dial!NoConn \/ conn = Dial!NewClientConn(call)
    /\ \A r \in RPCs : RpcFits(r)

LEMMA DialInit == Dial!Init => DialIInv
BY DEF Dial!Init, DialIInv, DialTypeOK, RpcFits, Dial!NoConn

LEMMA DialNext == DialIInv /\ [Dial!Next]_(Dial!vars) => DialIInv'
<1> SUFFICES ASSUME DialIInv, [Dial!Next]_(Dial!vars)
             PROVE  DialIInv'
  OBVIOUS
<1> USE DEF DialIInv, DialTypeOK, RpcFits, Dial!Transport
<1>1. CASE Dial!Dial
  <2>1. \A r \in RPCs : rpc[r] = "none" BY <1>1 DEF Dial!Dial
  <2> QED BY <1>1, <2>1 DEF Dial!Dial
<1>2. CASE Dial!Connect BY <1>2 DEF Dial!Connect
<1>3. CASE Dial!Retry BY <1>3 DEF Dial!Retry
<1>4. CASE Dial!EndpointComesOrGoes BY <1>4 DEF Dial!EndpointComesOrGoes
<1>5. ASSUME NEW r \in RPCs, Dial!Invoke(r)
      PROVE  DialIInv'
  BY <1>5 DEF Dial!Invoke
<1>6. ASSUME NEW r \in RPCs, Dial!Succeed(r)
      PROVE  DialIInv'
  BY <1>6 DEF Dial!Succeed
<1>7. ASSUME NEW r \in RPCs, Dial!FailFast(r)
      PROVE  DialIInv'
  BY <1>7 DEF Dial!FailFast
<1>8. CASE UNCHANGED Dial!vars BY <1>8 DEF Dial!vars
<1> QED BY <1>1, <1>2, <1>3, <1>4, <1>5, <1>6, <1>7, <1>8 DEF Dial!Next

-----------------------------------------------------------------------------
\* What the invariant says of the credentials, the contradictions and the waiting.
LEMMA DialConn ==
  ASSUME DialIInv
  PROVE  /\ conn \in [state : Dial!States, creds : CredsIn, wait : {"yes", "no"}]
         /\ conn.state = "open" =>
               /\ conn.creds = ValueOf(call, "creds", "none")
               /\ conn.wait = ValueOf(call, "wait", "no")
               /\ conn.creds # "none" /\ (call.xds => call.env)
               /\ \A i \in DOMAIN call.extra :
                     OptionAt(call, i) # Dial!Creds("error")
<1>1. call \in Dial!Calls BY DEF DialIInv, DialTypeOK
<1>2. CASE conn = Dial!NoConn BY <1>2 DEF Dial!NoConn, Dial!States, CredsIn
<1>3. CASE conn = Dial!NewClientConn(call)
  <2>1. /\ conn \in [state : Dial!States, creds : CredsIn, wait : {"yes", "no"}]
        /\ conn.state = "open" =>
              /\ conn = Dial!Open(call) /\ conn.creds # "none" /\ (call.xds => call.env)
              /\ \A i \in DOMAIN call.extra :
                    OptionAt(call, i) # Dial!Creds("error")
    BY <1>1, <1>3, NewConnIs, Zenon
  <2> QED BY <2>1 DEF Dial!Open, ValueOf
<1> QED BY <1>2, <1>3 DEF DialIInv

LEMMA DialPlain == DialIInv => Dial!PlainTextIsAskedFor
<1> SUFFICES ASSUME DialIInv, NEW r \in RPCs, rpc[r] = "plain"
             PROVE  \/ /\ Dial!NoAuto
                       /\ \/ call.fn \in {"NewInternalClientConn", "NewInternalNoWaitClientConn"}
                          \/ call.fn = "NewClientConn" /\ call.xds /\ Dial!FallsBack
                    \/ \E i \in DOMAIN call.extra :
                          /\ Dial!LastAuto(i)
                          /\ \/ call.extra[i].auto.plainText
                             \/ call.extra[i].auto.xds /\ Dial!FallsBack
  BY DEF Dial!PlainTextIsAskedFor
<1>1. call \in Dial!Calls /\ conn.state = "open" /\ Dial!Transport = "plain"
  BY DEF DialIInv, DialTypeOK, RpcFits
<1>2. conn.creds = "plain" \/ (conn.creds = "xds" /\ Dial!FallsBack)
  BY <1>1 DEF Dial!Transport, Dial!FallsBack
<1>3. conn.creds = ValueOf(call, "creds", "none") BY <1>1, DialConn
<1>4. \A i \in DOMAIN call.extra :
         /\ OptionAt(call, i).kind = "creds" <=> Dial!AutoAt(i)
         /\ Dial!AutoAt(i) =>
               /\ OptionAt(call, i).value = Dial!AutoCreds(call.extra[i].auto, call.env)
               /\ call.extra[i].auto \in Dial!Autos
  BY <1>1, OptionIs DEF Dial!AutoAt
<1>5. \/ \E i \in DOMAIN call.extra :
            /\ OptionAt(call, i).kind = "creds" /\ OptionAt(call, i).value = conn.creds
            /\ \A j \in DOMAIN call.extra : j > i => OptionAt(call, j).kind # "creds"
      \/ /\ \A i \in DOMAIN call.extra : OptionAt(call, i).kind # "creds"
         /\ \E i \in 1 .. Len(Defaults(call)) :
               /\ Defaults(call)[i].kind = "creds" /\ Defaults(call)[i].value = conn.creds
               /\ \A j \in 1 .. Len(Defaults(call)) : j > i => Defaults(call)[j].kind # "creds"
  <2>1. conn.creds # "none" BY <1>2
  <2> QED BY <1>1, <1>3, <2>1, LastCounts
<1>6. ASSUME NEW i \in DOMAIN call.extra,
             OptionAt(call, i).kind = "creds", OptionAt(call, i).value = conn.creds,
             \A j \in DOMAIN call.extra : j > i => OptionAt(call, j).kind # "creds"
      PROVE  /\ Dial!LastAuto(i)
             /\ \/ call.extra[i].auto.plainText
                \/ call.extra[i].auto.xds /\ Dial!FallsBack
  <2>1. Dial!LastAuto(i) BY <1>4, <1>6 DEF Dial!LastAuto
  <2>2. Dial!AutoCreds(call.extra[i].auto, call.env) = conn.creds
    BY <1>4, <1>6
  <2>3. \/ call.extra[i].auto.plainText /\ conn.creds = "plain"
        \/ call.extra[i].auto.xds /\ conn.creds = "xds"
    BY <1>2, <1>4, <1>6, <2>2 DEF Dial!AutoCreds, Dial!Autos
  <2> QED BY <1>2, <2>1, <2>3
<1>7. ASSUME \A i \in DOMAIN call.extra : OptionAt(call, i).kind # "creds",
             NEW i \in 1 .. Len(Defaults(call)),
             Defaults(call)[i].kind = "creds", Defaults(call)[i].value = conn.creds,
             \A j \in 1 .. Len(Defaults(call)) : j > i => Defaults(call)[j].kind # "creds"
      PROVE  /\ Dial!NoAuto
             /\ \/ call.fn \in {"NewInternalClientConn", "NewInternalNoWaitClientConn"}
                \/ call.fn = "NewClientConn" /\ call.xds /\ Dial!FallsBack
  <2>1. Dial!NoAuto BY <1>4, <1>7 DEF Dial!NoAuto
  <2>2. \/ conn.creds = "xds" /\ call.xds
        \/ call.fn \in {"NewInternalClientConn", "NewInternalNoWaitClientConn"}
        \/ conn.creds = "tls"
    BY <1>1, <1>7, DefaultsAre
  <2>3. call.fn # "NewExternalClientConn"
    <3> SUFFICES ASSUME call.fn = "NewExternalClientConn" PROVE FALSE
      OBVIOUS
    <3> DEFINE n == Len(Defaults(call))
    <3>1. n \in 1 .. n /\ Defaults(call)[n] = Dial!Creds("tls") BY <1>1, DefaultsAre
    <3>2. Defaults(call)[n].kind = "creds" /\ Defaults(call)[n].value = "tls"
      BY <3>1 DEF Dial!Creds
    <3>3. ~(n > i) BY <1>7, <3>1, <3>2
    <3>4. n = i BY <1>7, <3>1, <3>3
    <3> QED BY <1>2, <1>7, <3>2, <3>4
  <2>4. call.fn \in Dial!Functions BY <1>1 DEF Dial!Calls
  <2> QED BY <1>2, <2>1, <2>2, <2>3, <2>4 DEF Dial!Functions
<1> QED BY <1>5, <1>6, <1>7

LEMMA DialContradictions == DialIInv => Dial!ContradictionsDoNotDial
<1> SUFFICES ASSUME DialIInv, conn.state = "open"
             PROVE  /\ \A i \in DOMAIN call.extra :
                          Dial!AutoAt(i) =>
                             /\ ~Dial!MoreThanOneTrue(call.extra[i].auto)
                             /\ call.extra[i].auto.xds => call.env
                    /\ call.xds => call.env
  BY DEF Dial!ContradictionsDoNotDial
<1>1. call \in Dial!Calls BY DEF DialIInv, DialTypeOK
<1>2. /\ call.xds => call.env
      /\ \A i \in DOMAIN call.extra :
            OptionAt(call, i) # Dial!Creds("error")
  BY DialConn
<1>3. ASSUME NEW i \in DOMAIN call.extra, Dial!AutoAt(i)
      PROVE  /\ ~Dial!MoreThanOneTrue(call.extra[i].auto)
             /\ call.extra[i].auto.xds => call.env
  <2>1. Dial!AutoCreds(call.extra[i].auto, call.env) # "error"
    BY <1>1, <1>2, <1>3, OptionIs DEF Dial!Creds, Dial!AutoAt
  <2>2. ~Dial!MoreThanOneTrue(call.extra[i].auto) BY <2>1, Zenon DEF Dial!AutoCreds
  <2>3. CASE call.extra[i].auto.xds /\ ~call.env
    <3>1. Dial!AutoCreds(call.extra[i].auto, call.env) = "error"
      BY <2>2, <2>3 DEF Dial!AutoCreds
    <3> QED BY <2>1, <3>1
  <2> QED BY <2>2, <2>3, Zenon
<1> QED BY <1>2, <1>3

LEMMA DialWaits == DialIInv => Dial!InternalWaits
<1> SUFFICES ASSUME DialIInv, call.fn = "NewInternalClientConn",
                    \A i \in DOMAIN call.extra : Dial!AutoAt(i),
                    NEW r \in RPCs, rpc[r] = "unavailable"
             PROVE  FALSE
  BY DEF Dial!InternalWaits
<1>1. call \in Dial!Calls /\ conn.state = "open" /\ conn.wait = "no"
  BY DEF DialIInv, DialTypeOK, RpcFits
<1>2. conn.wait = ValueOf(call, "wait", "no") BY <1>1, DialConn
<1>3. \A i \in DOMAIN call.extra : OptionAt(call, i).kind # "wait" BY <1>1, OptionIs DEF Dial!AutoAt
<1>4. /\ Len(Defaults(call)) \in 1 .. Len(Defaults(call))
      /\ Defaults(call)[Len(Defaults(call))].kind = "wait"
  BY <1>1, DefaultsAre
<1>5. PICK i \in 1 .. Len(Defaults(call)) :
         Defaults(call)[i].kind = "wait" /\ Defaults(call)[i].value = conn.wait
  BY <1>1, <1>2, <1>3, <1>4, LastCounts
<1>6. conn.wait = "yes" BY <1>1, <1>5, DefaultsAre
<1> QED BY <1>1, <1>6

\* The connection a program gets, and how its RPCs end, are what its options say, however
\* many there are (client.go:51-167).
THEOREM DialInvHolds == Dial!Spec => []DialInv
<1>1. DialIInv => DialInv
  <2>1. DialIInv => Dial!TypeOK
    BY DialConn DEF DialIInv, DialTypeOK, Dial!TypeOK, CredsIn
  <2> QED BY <2>1, DialPlain, DialContradictions, DialWaits DEF DialInv
<1> QED BY <1>1, DialInit, DialNext, PTL DEF Dial!Spec

-----------------------------------------------------------------------------
\* The size logger

\* A duration that fits does not wrap, and any other becomes one that fits.
LEMMA WrapIs ==
  ASSUME NEW d \in Int
  PROVE  /\ Size!Wrap(d) \in -MaxDuration - 1 .. MaxDuration
         /\ d \in 0 .. MaxDuration => Size!Wrap(d) = d
<1> DEFINE half == MaxDuration + 1
           m == 2 * half
<1>1. half \in Nat \ {0} /\ m \in Nat \ {0} BY SizeAssumption DEF Size!ConstantsOK
<1>2. Size!Wrap(d) = ((d + half) % m) - half
  BY <1>1, SizeAssumption DEF Size!Wrap, Size!ConstantsOK
<1>3. (d + half) % m \in 0 .. m - 1
  <2> HIDE DEF m
  <2>1. \A x \in Int : x % m \in 0 .. m - 1 BY <1>1
  <2>2. d + half \in Int BY <1>1
  <2> HIDE DEF half
  <2> QED BY <2>1, <2>2
<1>4. ASSUME d \in 0 .. MaxDuration PROVE (d + half) % m = d + half
  <2>1. d + half \in 0 .. m - 1 BY <1>1, <1>4, SizeAssumption DEF Size!ConstantsOK
  <2> HIDE DEF m, half
  <2>2. (0 * m + (d + half)) % m = d + half BY <1>1, <2>1, DivModUnique
  <2>3. 0 * m + (d + half) = d + half BY <1>1, <2>1
  <2> QED BY <2>2, <2>3
<1>5. -MaxDuration - 1 = -half /\ MaxDuration = half - 1 /\ MaxDuration \in Nat
  BY SizeAssumption DEF Size!ConstantsOK
<1>6. m = 2 * half OBVIOUS
<1> HIDE DEF m, half
<1>7. ((d + half) % m) - half \in -half .. half - 1 BY <1>1, <1>3, <1>6
<1>8. ASSUME d \in 0 .. MaxDuration PROVE Size!Wrap(d) = d
  BY <1>1, <1>2, <1>4, <1>8
<1> QED BY <1>2, <1>5, <1>7, <1>8

SizeTypeOK ==
    /\ Size!TypeOK
    /\ received \in [count : 0 .. MaxCount, bytes : 0 .. MaxBytes,
                     from : {Size!Zero} \cup 0 .. MaxTime]
    /\ lastReceivedTime <= now

\* Until two RPCs overlap, at most one is in HandleRPC, it has read the count there is, and
\* the count reaches the limit only between its increment and its line.
Alone ==
    /\ \A q, r \in Receivers : pc[q] # "idle" /\ pc[r] # "idle" => q = r
    /\ \A r \in Receivers : pc[r] = "add" => read[r] = messageCount
    /\ \A r \in Receivers : pc[r] = "log" => messageCount = MessageLimit
    /\ messageCount <= MessageLimit
    /\ (\A r \in Receivers : pc[r] \notin {"compare", "log"}) => messageCount < MessageLimit

\* Until then the fields are the sums over the messages since the last line.
SumsAreWhole ==
    /\ received.count = messageCount /\ received.bytes = bytes
    /\ received.from # Size!Zero =>
          /\ lastReceivedTime >= received.from
          /\ waitToReceive = lastReceivedTime - received.from

SizeIInv == SizeTypeOK /\ (~overlapped => Alone /\ SumsAreWhole)

LEMMA SizeConstants ==
  /\ MessageLimit \in Nat \ {0} /\ MaxCount \in Nat /\ MaxCount > MessageLimit
  /\ MaxTime \in Nat /\ MaxDuration \in Nat /\ MaxDuration > MaxTime
  /\ Sizes \subseteq Nat /\ MaxBytes \in Nat
BY SizeAssumption DEF Size!ConstantsOK

LEMMA SizeInit == Size!Init => SizeIInv
<1> SUFFICES ASSUME Size!Init PROVE SizeIInv
  OBVIOUS
<1> USE SizeConstants DEF Size!Init, Size!Zero
<1>1. SizeTypeOK
  <2>1. 0 \in -MaxDuration - 1 .. MaxDuration OBVIOUS
  <2>2. received \in [count : 0 .. MaxCount, bytes : 0 .. MaxBytes, from : {-1} \cup 0 .. MaxTime]
    OBVIOUS
  <2>3. /\ pc \in [Receivers -> {"idle", "enter", "add", "compare", "log"}]
        /\ read \in [Receivers -> 0 .. MaxCount]
    OBVIOUS
  <2>4. /\ messageCount \in 0 .. MaxCount /\ bytes \in 0 .. MaxBytes
        /\ now \in 0 .. MaxTime /\ lastReceivedTime = -1 /\ waitToReceive = 0 /\ now = 0
    OBVIOUS
  <2>5. overlapped \in BOOLEAN BY Zenon
  <2> QED BY ONLY <2>1, <2>2, <2>3, <2>4, <2>5 DEF SizeTypeOK, Size!TypeOK, Size!Zero
<1>2. Alone BY DEF Alone
<1>3. SumsAreWhole BY DEF SumsAreWhole
<1> QED BY <1>1, <1>2, <1>3 DEF SizeIInv

LEMMA SizeNext == SizeIInv /\ [Size!Next]_(Size!vars) => SizeIInv'
<1> SUFFICES ASSUME SizeIInv, [Size!Next]_(Size!vars) PROVE SizeIInv'
  OBVIOUS
<1> USE SizeConstants DEF SizeIInv, SizeTypeOK, Size!TypeOK, Size!fields, Size!Zero
<1>1. CASE UNCHANGED Size!vars BY <1>1 DEF Size!vars, Alone, SumsAreWhole
<1>2. CASE Size!Tick BY <1>2 DEF Size!Tick, Alone, SumsAreWhole
<1>3. ASSUME NEW r \in Receivers, Size!Receive(r) PROVE SizeIInv'
  BY <1>3 DEF Size!Receive, Alone, SumsAreWhole
<1>4. ASSUME NEW r \in Receivers, Size!Wait(r) PROVE SizeIInv'
  <2>1. /\ pc[r] = "enter" /\ pc' = [pc EXCEPT ![r] = "add"]
        /\ waitToReceive' = Size!Wrap(waitToReceive + Size!Since(lastReceivedTime))
        /\ lastReceivedTime' = now /\ read' = [read EXCEPT ![r] = messageCount]
        /\ UNCHANGED <<messageCount, bytes, now, stats, received, overlapped>>
    BY <1>4 DEF Size!Wait
  <2>2. waitToReceive + Size!Since(lastReceivedTime) \in Int BY DEF Size!Since
  <2>3. waitToReceive' \in -MaxDuration - 1 .. MaxDuration BY <2>1, <2>2, WrapIs
  <2>4. SizeTypeOK' BY <2>1, <2>3
  <2>5. ASSUME ~overlapped PROVE Alone' BY <2>1, <2>5 DEF Alone
  <2>6. ASSUME ~overlapped PROVE SumsAreWhole'
    <3>1. CASE received.from = -1 BY <2>1, <2>6, <3>1 DEF SumsAreWhole
    <3>2. CASE received.from # -1
      <4>1. waitToReceive + Size!Since(lastReceivedTime) = now - received.from
        BY <2>6, <3>2 DEF SumsAreWhole, Size!Since
      <4>2. now - received.from \in 0 .. MaxDuration BY <2>6, <3>2 DEF SumsAreWhole
      <4>3. waitToReceive' = now - received.from BY <2>1, <2>2, <4>1, <4>2, WrapIs
      <4> QED BY <2>1, <2>6, <3>2, <4>2, <4>3 DEF SumsAreWhole
    <3> QED BY <3>1, <3>2
  <2> QED BY <2>1, <2>4, <2>5, <2>6
<1>5. ASSUME NEW r \in Receivers, Size!Add(r) PROVE SizeIInv'
  <2>1. PICK size \in Sizes :
          /\ bytes' = Size!Cap(bytes + size, MaxBytes)
          /\ received' = IF overlapped THEN received
                         ELSE [received EXCEPT !.count = Size!Cap(@ + 1, MaxCount),
                                               !.bytes = Size!Cap(@ + size, MaxBytes)]
    BY <1>5 DEF Size!Add
  <2>2. /\ pc[r] = "add" /\ pc' = [pc EXCEPT ![r] = "compare"]
        /\ messageCount' = Size!Cap(read[r] + 1, MaxCount)
        /\ read' = [read EXCEPT ![r] = 0]
        /\ UNCHANGED <<lastReceivedTime, waitToReceive, now, stats, overlapped>>
    BY <1>5 DEF Size!Add
  <2>3. size \in Nat OBVIOUS
  <2>4. \A n \in Nat, max \in Nat : Size!Cap(n, max) \in 0 .. max BY DEF Size!Cap
  <2>5. SizeTypeOK'
    <3>1. /\ received' \in [count : 0 .. MaxCount, bytes : 0 .. MaxBytes,
                            from : {Size!Zero} \cup 0 .. MaxTime]
          /\ bytes' \in 0 .. MaxBytes
      <4>1. /\ received.count + 1 \in Nat /\ received.bytes + size \in Nat
            /\ bytes + size \in Nat
        BY <2>3
      <4>2. /\ Size!Cap(received.count + 1, MaxCount) \in 0 .. MaxCount
            /\ Size!Cap(received.bytes + size, MaxBytes) \in 0 .. MaxBytes
            /\ Size!Cap(bytes + size, MaxBytes) \in 0 .. MaxBytes
        BY <2>4, <4>1
      <4> QED BY <2>1, <4>2
    <3>2. messageCount' \in 0 .. MaxCount /\ read' \in [Receivers -> 0 .. MaxCount]
      BY <2>2, <2>4
    <3> QED BY <2>2, <3>1, <3>2
  <2>6. ASSUME ~overlapped PROVE Alone' /\ SumsAreWhole'
    <3>1. read[r] = messageCount /\ messageCount < MessageLimit BY <2>2, <2>6 DEF Alone
    <3>2. messageCount' = messageCount + 1 BY <2>2, <3>1 DEF Size!Cap
    <3>3. Alone' BY <2>2, <2>6, <3>1, <3>2 DEF Alone
    <3>4. SumsAreWhole' BY <2>1, <2>2, <2>6, <3>1 DEF SumsAreWhole
    <3> QED BY <3>3, <3>4
  <2> QED BY <2>2, <2>5, <2>6
<1>6. ASSUME NEW r \in Receivers, Size!Compare(r) PROVE SizeIInv'
  BY <1>6 DEF Size!Compare, Alone, SumsAreWhole
<1>7. ASSUME NEW r \in Receivers, Size!Log(r) PROVE SizeIInv'
  BY <1>7 DEF Size!Log, Alone, SumsAreWhole
<1> QED BY <1>1, <1>2, <1>3, <1>4, <1>5, <1>6, <1>7 DEF Size!Next, Size!HandleRPC

\* A line is of the state that the invariant describes.
LEMMA SizeLine ==
  ASSUME SizeIInv, [Size!Next]_(Size!vars), ~overlapped, stats' # stats
  PROVE  /\ stats'.count = MessageLimit /\ received.count = MessageLimit
         /\ stats'.bytes = received.bytes
         /\ received.from # Size!Zero => stats'.wait = lastReceivedTime - received.from
<1>1. PICK r \in Receivers : Size!Log(r)
  BY DEF Size!Next, Size!vars, Size!HandleRPC, Size!Tick, Size!Receive, Size!Wait, Size!Add, Size!Compare
<1>2. messageCount = MessageLimit BY <1>1 DEF Size!Log, SizeIInv, Alone
<1> QED BY <1>1, <1>2 DEF Size!Log, SizeIInv, SumsAreWhole

\* As long as no two RPCs were in HandleRPC at once, a line is about messageLimit
\* messages, their bytes and the time since the line before; and only if two were does
\* the count pass the limit (size_logger.go:41-76).
THEOREM SizeLinesHold ==
  Size!Spec => [](Size!TypeOK /\ Size!PassedOnlyByOverlap) /\ Size!LinesAreWhole
<1>1. SizeIInv => Size!TypeOK /\ Size!PassedOnlyByOverlap
  BY SizeConstants DEF SizeIInv, SizeTypeOK, Size!TypeOK, Alone, Size!PassedOnlyByOverlap
<1> QED BY <1>1, SizeInit, SizeNext, SizeLine, PTL DEF Size!Spec, Size!LinesAreWhole

-----------------------------------------------------------------------------
\* The logger of gRPC

\* What is set last has the highest number, and a call knows of none higher.
CallsKnowTheirLogger ==
    /\ log.set <= sets
    /\ \A t \in Threads :
          /\ thread[t].at # "idle" => thread[t].since <= log.set
          /\ thread[t].at = "write" => thread[t].to \in thread[t].since .. log.set

GrpcIInv == Grpc!TypeOK /\ CallsKnowTheirLogger

LEMMA GrpcInit == Grpc!Init => GrpcIInv
<1> SUFFICES ASSUME Grpc!Init PROVE GrpcIInv OBVIOUS
<1>1. MaxSets \in Nat BY GrpcAssumption DEF Grpc!ConstantsOK
<1>2. thread = [t \in Threads |-> [at |-> "idle"]] BY DEF Grpc!Init, Grpc!Idle
<1>3. Grpc!TypeOK
  BY <1>1, <1>2 DEF Grpc!Init, Grpc!TypeOK, Grpc!NoAnswer, Grpc!Levels, Grpc!ThreadStates, Grpc!Idle
<1>4. log.set = 0 /\ sets = 0 BY DEF Grpc!Init, Grpc!Unset
<1> QED BY <1>2, <1>3, <1>4 DEF GrpcIInv, CallsKnowTheirLogger

LEMMA GrpcNext == ASSUME GrpcIInv, Grpc!Next PROVE GrpcIInv'
<1>0. MaxSets \in Nat BY GrpcAssumption DEF Grpc!ConstantsOK
<1>00. log.set \in 0 .. MaxSets
  BY <1>0 DEF GrpcIInv, Grpc!TypeOK, Grpc!Loggers, Grpc!Discard, Grpc!Unset
<1>1. ASSUME NEW l \in Grpc!Loggers \cup Grpc!Discard, Grpc!Set(l) PROVE GrpcIInv'
  <2>1. /\ l.set = sets + 1 /\ sets' = sets + 1 /\ sets < MaxSets /\ UNCHANGED thread
        /\ (log' = l /\ UNCHANGED ended) \/ (UNCHANGED log /\ ended' = "panic")
        /\ answer' = [level |-> 0, wanted |-> FALSE]
    BY <1>1 DEF Grpc!Set, Grpc!Store, Grpc!NoAnswer
  <2>2. Grpc!TypeOK'
    BY <1>0, <2>1 DEF GrpcIInv, Grpc!TypeOK, Grpc!Levels
  <2>3. log'.set >= log.set /\ log'.set <= sets' /\ log'.set \in Nat
    BY <1>0, <1>00, <2>1 DEF GrpcIInv, Grpc!TypeOK, CallsKnowTheirLogger
  <2>4. \A t \in Threads :
          /\ thread[t].at # "idle" => thread[t].since \in Nat
          /\ thread[t].at = "write" => thread[t].to \in Nat
    BY <1>0 DEF GrpcIInv, Grpc!TypeOK, Grpc!ThreadStates, Grpc!Idle
  <2> QED BY <1>00, <2>1, <2>2, <2>3, <2>4 DEF GrpcIInv, CallsKnowTheirLogger
<1>2. ASSUME NEW level \in Grpc!Levels, Grpc!Ask(level) PROVE GrpcIInv'
  BY <1>2 DEF Grpc!Ask, Grpc!V, GrpcIInv, Grpc!TypeOK, CallsKnowTheirLogger
<1>3. ASSUME NEW t \in Threads, NEW severity \in Grpc!Severities, Grpc!Call(t, severity)
      PROVE  GrpcIInv'
  <2>1. Grpc!TypeOK'
    BY <1>3, <1>00 DEF Grpc!Call, GrpcIInv, Grpc!TypeOK, Grpc!ThreadStates
  <2> QED BY <1>3, <1>00, <2>1 DEF Grpc!Call, GrpcIInv, Grpc!TypeOK, CallsKnowTheirLogger
<1>4. ASSUME NEW t \in Threads, Grpc!CallEnds(t) PROVE GrpcIInv'
  BY <1>4 DEF Grpc!CallEnds, Grpc!Idle, Grpc!ThreadStates, GrpcIInv, Grpc!TypeOK, CallsKnowTheirLogger
<1>5. ASSUME NEW t \in Threads, Grpc!Get(t), ~ Grpc!CallEnds(t) PROVE GrpcIInv'
  <2>1. /\ thread[t].at = "get" /\ UNCHANGED <<log, sets, ended, answer>>
        /\ thread' = [thread EXCEPT ![t] = [at |-> "write", severity |-> thread[t].severity,
                                            since |-> thread[t].since, to |-> log.set]]
    BY <1>5 DEF Grpc!Get
  <2>2. thread[t].severity \in Grpc!Severities /\ thread[t].since \in 0 .. MaxSets
    BY <2>1 DEF GrpcIInv, Grpc!TypeOK, Grpc!ThreadStates, Grpc!Idle
  <2>3. Grpc!TypeOK'
    BY <1>00, <2>1, <2>2 DEF GrpcIInv, Grpc!TypeOK, Grpc!ThreadStates
  <2> QED BY <1>0, <1>00, <2>1, <2>2, <2>3 DEF GrpcIInv, Grpc!TypeOK, CallsKnowTheirLogger
<1> QED BY <1>1, <1>2, <1>3, <1>4, <1>5 DEF Grpc!Next, Grpc!Write

\* A line is written to a logger that was in place during its call, whatever is set
\* meanwhile (logging.go:46-57, 248-268).
THEOREM GrpcLoggerInvHolds == Grpc!Spec => []GrpcLoggerInv
<1>1. Grpc!Init => GrpcIInv BY GrpcInit
<1>2. GrpcIInv /\ [Grpc!Next]_(Grpc!vars) => GrpcIInv'
  BY GrpcNext DEF Grpc!vars, GrpcIInv, Grpc!TypeOK, CallsKnowTheirLogger
<1>3. GrpcIInv => GrpcLoggerInv
  BY DEF GrpcIInv, CallsKnowTheirLogger, GrpcLoggerInv, Grpc!LinesGoToTheLoggerInPlace
<1> QED BY <1>1, <1>2, <1>3, PTL DEF Grpc!Spec
=============================================================================
