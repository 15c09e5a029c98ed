--------------------------- MODULE RequestsProofs ---------------------------
(***************************************************************************)
(* What happens to the requests of a server, for any number of them, any      *)
(* outcomes of the program and any headers; the server that the factory makes *)
(* of any number of options; the trace identifier of a request.               *)
(***************************************************************************)
EXTENDS MCRequests, SequenceTheorems, TLAPS

(* The chains, layer by layer.                                               *)

ConnectLayers(kind) ==
    IF kind = "unary"
    THEN IF options.strict
         THEN CASE options.errors = "none"  -> <<"isolate", "contentType", "post", "handler">>
                [] options.errors = "first" -> <<"isolate", "contentType", "errors", "post", "handler">>
                [] options.errors = "last"  -> <<"isolate", "contentType", "post", "errors", "handler">>
         ELSE CASE options.errors = "none"  -> <<"isolate", "post", "handler">>
                [] options.errors = "first" -> <<"isolate", "errors", "post", "handler">>
                [] options.errors = "last"  -> <<"isolate", "post", "errors", "handler">>
    ELSE IF options.strict
         THEN CASE options.errors = "none"  -> <<"contentType", "post", "handler">>
                [] options.errors = "first" -> <<"contentType", "errors", "post", "handler">>
                [] options.errors = "last"  -> <<"contentType", "post", "errors", "handler">>
         ELSE ExtraChain

LEMMA Outside2 ==
  ASSUME NEW a, NEW b, NEW c
  PROVE  <<a>> \o <<b, c>> = <<a, b, c>>
<1> DEFINE S == {a, b, c}
<1>1. /\ <<a>> \in Seq(S) /\ <<b, c>> \in Seq(S) /\ <<a, b, c>> \in Seq(S)
      /\ Len(<<a>>) = 1 /\ Len(<<b, c>>) = 2 /\ Len(<<a, b, c>>) = 3
  OBVIOUS
<1>2. <<a>> \o <<b, c>> \in Seq(S) /\ Len(<<a>> \o <<b, c>>) = 3
  BY <1>1, ConcatProperties, SMT
<1>3. \A i \in 1 .. 3 : (<<a>> \o <<b, c>>)[i] = <<a, b, c>>[i]
  BY <1>1, ConcatProperties, SMT
<1> QED BY <1>1, <1>2, <1>3, SeqEqual

LEMMA Outside3 ==
  ASSUME NEW a, NEW b, NEW c, NEW d
  PROVE  <<a>> \o <<b, c, d>> = <<a, b, c, d>>
<1> DEFINE S == {a, b, c, d}
<1>1. /\ <<a>> \in Seq(S) /\ <<b, c, d>> \in Seq(S) /\ <<a, b, c, d>> \in Seq(S)
      /\ Len(<<a>>) = 1 /\ Len(<<b, c, d>>) = 3 /\ Len(<<a, b, c, d>>) = 4
  OBVIOUS
<1>2. <<a>> \o <<b, c, d>> \in Seq(S) /\ Len(<<a>> \o <<b, c, d>>) = 4
  BY <1>1, ConcatProperties, SMT
<1>3. \A i \in 1 .. 4 : (<<a>> \o <<b, c, d>>)[i] = <<a, b, c, d>>[i]
  BY <1>1, ConcatProperties, SMT
<1> QED BY <1>1, <1>2, <1>3, SeqEqual

LEMMA Outside4 ==
  ASSUME NEW a, NEW b, NEW c, NEW d, NEW e
  PROVE  <<a>> \o <<b, c, d, e>> = <<a, b, c, d, e>>
<1> DEFINE S == {a, b, c, d, e}
<1>1. /\ <<a>> \in Seq(S) /\ <<b, c, d, e>> \in Seq(S) /\ <<a, b, c, d, e>> \in Seq(S)
      /\ Len(<<a>>) = 1 /\ Len(<<b, c, d, e>>) = 4 /\ Len(<<a, b, c, d, e>>) = 5
  OBVIOUS
<1>2. <<a>> \o <<b, c, d, e>> \in Seq(S) /\ Len(<<a>> \o <<b, c, d, e>>) = 5
  BY <1>1, ConcatProperties, SMT
<1>3. \A i \in 1 .. 5 : (<<a>> \o <<b, c, d, e>>)[i] = <<a, b, c, d, e>>[i]
  BY <1>1, ConcatProperties, SMT
<1> QED BY <1>1, <1>2, <1>3, SeqEqual

LEMMA ConnectChainIs ==
  ASSUME NEW kind \in Kinds, options.errors \in {"none", "first", "last"}
  PROVE  ConnectChain(kind) = ConnectLayers(kind)
<1> DEFINE middle == If(options.strict, "contentType", ExtraChain)
<1>1. middle = IF options.strict
               THEN CASE options.errors = "none"  -> <<"contentType", "post", "handler">>
                      [] options.errors = "first" -> <<"contentType", "errors", "post", "handler">>
                      [] options.errors = "last"  -> <<"contentType", "post", "errors", "handler">>
               ELSE ExtraChain
  <2>1. CASE options.strict
    <3>1. middle = <<"contentType">> \o ExtraChain BY <2>1, Zenon DEF If
    <3> HIDE DEF middle
    <3>2. CASE options.errors = "none"
      <4>1. ExtraChain = <<"post", "handler">> BY <3>2 DEF ExtraChain
      <4>2. middle = <<"contentType", "post", "handler">> BY <3>1, <4>1, Outside2, Zenon
      <4> QED BY <2>1, <3>2, <4>2
    <3>3. CASE options.errors = "first"
      <4>1. ExtraChain = <<"errors", "post", "handler">> BY <3>3 DEF ExtraChain
      <4>2. middle = <<"contentType", "errors", "post", "handler">> BY <3>1, <4>1, Outside3, Zenon
      <4> QED BY <2>1, <3>3, <4>2
    <3>4. CASE options.errors = "last"
      <4>1. ExtraChain = <<"post", "errors", "handler">> BY <3>4 DEF ExtraChain
      <4>2. middle = <<"contentType", "post", "errors", "handler">> BY <3>1, <4>1, Outside3, Zenon
      <4> QED BY <2>1, <3>4, <4>2
    <3> QED BY <3>2, <3>3, <3>4
  <2>2. CASE ~options.strict BY <2>2, Zenon DEF If
  <2> QED BY <2>1, <2>2
<1> HIDE DEF middle
<1>2. ConnectChain(kind) = IF kind = "unary" THEN <<"isolate">> \o middle ELSE middle
  BY Zenon DEF ConnectChain, If, middle
<1>3. CASE kind # "unary" BY <1>1, <1>2, <1>3 DEF ConnectLayers
<1>4. CASE kind = "unary"
  <2>1. ConnectChain(kind) = <<"isolate">> \o middle BY <1>2, <1>4
  <2>2. CASE options.errors = "none"
    <3>1. middle = IF options.strict THEN <<"contentType", "post", "handler">>
                   ELSE <<"post", "handler">>
      BY <1>1, <2>2 DEF ExtraChain
    <3>2. <<"isolate">> \o middle = IF options.strict
              THEN <<"isolate", "contentType", "post", "handler">>
              ELSE <<"isolate", "post", "handler">>
      BY <3>1, Outside2, Outside3, Zenon
    <3> QED BY <1>4, <2>1, <2>2, <3>2 DEF ConnectLayers
  <2>3. CASE options.errors = "first"
    <3>1. middle = IF options.strict THEN <<"contentType", "errors", "post", "handler">>
                   ELSE <<"errors", "post", "handler">>
      BY <1>1, <2>3 DEF ExtraChain
    <3>2. <<"isolate">> \o middle = IF options.strict
              THEN <<"isolate", "contentType", "errors", "post", "handler">>
              ELSE <<"isolate", "errors", "post", "handler">>
      <4>1. CASE options.strict BY <3>1, <4>1, Outside4, Zenon
      <4>2. CASE ~options.strict BY <3>1, <4>2, Outside3, Zenon
      <4> QED BY <4>1, <4>2
    <3> QED BY <1>4, <2>1, <2>3, <3>2 DEF ConnectLayers
  <2>4. CASE options.errors = "last"
    <3>1. middle = IF options.strict THEN <<"contentType", "post", "errors", "handler">>
                   ELSE <<"post", "errors", "handler">>
      BY <1>1, <2>4 DEF ExtraChain
    <3>2. <<"isolate">> \o middle = IF options.strict
              THEN <<"isolate", "contentType", "post", "errors", "handler">>
              ELSE <<"isolate", "post", "errors", "handler">>
      <4>1. CASE options.strict BY <3>1, <4>1, Outside4, Zenon
      <4>2. CASE ~options.strict BY <3>1, <4>2, Outside3, Zenon
      <4> QED BY <4>1, <4>2
    <3> QED BY <1>4, <2>1, <2>4, <3>2 DEF ConnectLayers
  <2> QED BY <2>2, <2>3, <2>4
<1> QED BY <1>3, <1>4

\* The place of the ErrorsInterceptor in the chain of a connect server.
ErrorsPlace(kind) ==
    1 + (IF kind = "unary" THEN 1 ELSE 0) + (IF options.strict THEN 1 ELSE 0)
      + (IF options.errors = "last" THEN 1 ELSE 0)

\* What a proof needs to know of a chain.
LEMMA ChainIs ==
  ASSUME TypeOK, NEW kind \in Kinds
  PROVE  /\ Len(Chain(kind)) \in 1 .. 6
         /\ \A i \in 1 .. Len(Chain(kind)) : Chain(kind)[i] \in Layers
         /\ Chain(kind)[Len(Chain(kind))] = "handler"
         /\ server = "standard" => Chain(kind) = StandardChain
         /\ server = "connect" =>
                \A i \in 1 .. Len(Chain(kind)) :
                    /\ Chain(kind)[i] \notin {"compression", "pre"}
                    /\ Chain(kind)[i] = "isolate" <=> i = 1 /\ kind = "unary"
         /\ server = "trafficDirector" =>
                \A i \in 1 .. Len(Chain(kind)) : Chain(kind)[i] # "isolate"
         /\ server = "connect" /\ options.errors # "none" =>
                /\ ErrorsPlace(kind) \in 1 .. Len(Chain(kind))
                /\ \A i \in 1 .. Len(Chain(kind)) :
                      /\ Chain(kind)[i] = "handler" => i > ErrorsPlace(kind)
                      /\ Chain(kind)[i] = "post" =>
                            i > ErrorsPlace(kind) \/ options.errors = "last"
                      /\ Chain(kind)[i] = "errors" <=> i = ErrorsPlace(kind)
<1>0. options.errors \in {"none", "first", "last"} BY DEF TypeOK, Options
<1>1. CASE server = "standard" BY <1>1 DEF Chain, StandardChain, Layers
<1>2. CASE server = "trafficDirector" BY <1>2 DEF Chain, TrafficDirectorChain, Layers
<1>3. CASE server = "connect"
  <2>1. Chain(kind) = ConnectLayers(kind) BY <1>0, <1>3, ConnectChainIs DEF Chain
  <2> USE DEF ConnectLayers, ErrorsPlace, Layers, ExtraChain
  <2>2. CASE kind = "unary" /\ options.strict
    <3>1. CASE options.errors = "none" BY <1>3, <2>1, <2>2, <3>1
    <3>2. CASE options.errors = "first" BY <1>3, <2>1, <2>2, <3>2
    <3>3. CASE options.errors = "last" BY <1>3, <2>1, <2>2, <3>3
    <3> QED BY <1>0, <3>1, <3>2, <3>3
  <2>3. CASE kind = "unary" /\ ~options.strict
    <3>1. CASE options.errors = "none" BY <1>3, <2>1, <2>3, <3>1
    <3>2. CASE options.errors = "first" BY <1>3, <2>1, <2>3, <3>2
    <3>3. CASE options.errors = "last" BY <1>3, <2>1, <2>3, <3>3
    <3> QED BY <1>0, <3>1, <3>2, <3>3
  <2>4. CASE kind # "unary" /\ options.strict
    <3>1. CASE options.errors = "none" BY <1>3, <2>1, <2>4, <3>1
    <3>2. CASE options.errors = "first" BY <1>3, <2>1, <2>4, <3>2
    <3>3. CASE options.errors = "last" BY <1>3, <2>1, <2>4, <3>3
    <3> QED BY <1>0, <3>1, <3>2, <3>3
  <2>5. CASE kind # "unary" /\ ~options.strict
    <3>1. CASE options.errors = "none" BY <1>3, <2>1, <2>5, <3>1
    <3>2. CASE options.errors = "first" BY <1>3, <2>1, <2>5, <3>2
    <3>3. CASE options.errors = "last" BY <1>3, <2>1, <2>5, <3>3
    <3> QED BY <1>0, <3>1, <3>2, <3>3
  <2> QED BY <2>2, <2>3, <2>4, <2>5
<1> QED BY <1>1, <1>2, <1>3 DEF TypeOK

-----------------------------------------------------------------------------
(* The inductive invariant.                                                  *)

\* A request on its way is at a layer, and nothing has happened to one on its way in.
Placed(r) ==
    /\ way[r] \in {"in", "out"} => at[r] \in 1 .. Len(Chain(request[r].kind))
    /\ way[r] \in {"idle", "replied"} => at[r] = 0
    /\ way[r] \in {"idle", "in"} =>
          reply[r] = NoReply /\ raised[r] = "none" /\ lines[r] = <<>>

\* A panic that the process survived has ended the request or become the reply, and
\* only interceptors outside of the isolation are left to pass.
PanicIsReply(r) ==
    raised[r] # "none" =>
        \/ way[r] = "aborted"
        \/ /\ way[r] \in {"out", "replied"}
           /\ reply[r].code = "Internal" \/ reply[r].by = "pre"
           /\ server = "standard" => at[r] <= 3
           /\ server = "connect" => at[r] <= 1 /\ request[r].kind = "unary"
           /\ server # "trafficDirector"

CrashIsUnshielded == crashed => \E r \in Requests : raised[r] # "none" /\ ~Shielded(r)

\* How the lines of a request follow from who replied and from how far it has come.
Lined(r) ==
    server = "standard" /\ way[r] \in {"out", "replied"} =>
        \/ reply[r].by \in {"compression", "pre"} /\ at[r] <= 2 /\ lines[r] = <<>>
        \/ reply[r].by = "pre" /\ at[r] <= 1
        \/ reply[r].by = "isolate" /\ at[r] <= 3 /\ lines[r] = <<"panic">>
        \/ /\ reply[r].by \in {"post", "handler"}
           /\ lines[r] = IF at[r] >= 4 THEN <<>> ELSE AccessLine(r)

OneLine(r) == server = "standard" => Len(lines[r]) <= 1

\* A message of the program that must not be shown has its ErrorsInterceptor to pass.
Hidden(r) ==
    (server = "connect" /\ options.errors # "none" /\ way[r] \in {"out", "replied"}
       /\ reply[r].code \in {"Internal", "Unknown"}) =>
        \/ reply[r].by \in {"errors"} \cup OutsideOfErrors
        \/ at[r] >= ErrorsPlace(request[r].kind)

Compressed(r) ==
    server = "standard" /\ options.enforce /\ at[r] > 1 =>
        LET h == request[r].headers IN
        Encoding(h) = "supported" \/ IsHealth(h) \/ (h.encoding = "empty" /\ h.accepts)

Told(r) ==
    Placed(r) /\ PanicIsReply(r) /\ Lined(r) /\ OneLine(r) /\ Hidden(r) /\ Compressed(r)

IInv == TypeOK /\ CrashIsUnshielded /\ \A r \in Requests : Told(r)

LEMMA InitIInv == Init => IInv
<1> SUFFICES ASSUME Init PROVE IInv
  OBVIOUS
<1>1. TypeOK
  <2>1. NoRequest \in [kind : Kinds, headers : HeaderFields]
    BY DEF NoRequest, Kinds, HeaderFields
  <2>2. NoReply \in [code : Codes \cup {"badRequest"}, by : Layers \cup {"none"}]
    BY DEF NoReply, Codes
  <2>3. <<>> \in Seq({"panic"} \cup Levels) OBVIOUS
  <2>4. options \in Options BY DEF Init, OptionsOf
  <2>5. request \in [Requests -> [kind : Kinds, headers : HeaderFields]] BY <2>1 DEF Init
  <2>6. reply \in [Requests -> [code : Codes \cup {"badRequest"}, by : Layers \cup {"none"}]]
    BY <2>2 DEF Init
  <2>7. lines \in [Requests -> Seq({"panic"} \cup Levels)] BY <2>3 DEF Init
  <2>8. at \in [Requests -> 0 .. 6] BY DEF Init
  <2>9. way \in [Requests -> {"idle", "in", "out", "replied", "aborted"}] BY DEF Init
  <2>10. raised \in [Requests -> Program \cup {"none"}] BY DEF Init
  <2>11. server \in {"standard", "trafficDirector", "connect"} /\ crashed \in BOOLEAN
    BY DEF Init
  <2> QED BY <2>4, <2>5, <2>6, <2>7, <2>8, <2>9, <2>10, <2>11 DEF TypeOK
<1>2. CrashIsUnshielded BY DEF Init, CrashIsUnshielded
<1>3. ASSUME NEW r \in Requests PROVE Told(r)
  <2>1. /\ way[r] = "idle" /\ at[r] = 0 /\ reply[r] = NoReply
        /\ raised[r] = "none" /\ lines[r] = <<>>
    BY DEF Init
  <2> QED BY <2>1 DEF Told, Placed, PanicIsReply, Lined, OneLine, Hidden, Compressed
<1> QED BY <1>1, <1>2, <1>3 DEF IInv

\* The layer of a request on its way.
LEMMA LayerIs ==
  ASSUME IInv, NEW r \in Requests, way[r] \in {"in", "out"}
  PROVE  /\ request[r].kind \in Kinds /\ request[r].headers \in HeaderFields
         /\ at[r] \in 1 .. Len(Chain(request[r].kind)) /\ Layer(r) \in Layers
         /\ Layer(r) # "handler" => at[r] < Len(Chain(request[r].kind))
         /\ server = "standard" =>
                /\ at[r] <= 6
                /\ at[r] = 1 <=> Layer(r) = "compression"
                /\ at[r] <= 2 <=> Layer(r) \in {"compression", "pre"}
                /\ at[r] = 3 <=> Layer(r) = "isolate"
                /\ at[r] = 4 <=> Layer(r) = "zap"
                /\ at[r] >= 5 <=> Layer(r) \in {"post", "handler"}
<1>1. request[r].kind \in Kinds /\ request[r].headers \in HeaderFields BY DEF IInv, TypeOK
<1>2. at[r] \in 1 .. Len(Chain(request[r].kind)) BY DEF IInv, Told, Placed
<1>3. CASE server = "standard"
  <2>1. Chain(request[r].kind) = StandardChain BY <1>1, <1>3, ChainIs DEF IInv
  <2>2. Layer(r) = StandardChain[at[r]] /\ at[r] \in 1 .. 6
    BY <1>2, <2>1 DEF Layer, StandardChain
  <2> QED BY <1>1, <1>2, <2>1, <2>2 DEF StandardChain, Layers
<1>4. CASE server # "standard" BY <1>1, <1>2, <1>4, ChainIs DEF IInv, Layer
<1> QED BY <1>3, <1>4

-----------------------------------------------------------------------------
(* The steps, one lemma for the types and one for what is said of each request. *)

LEMMA NextTypeOK ==
  ASSUME IInv, NEW r \in Requests,
         \/ \E k \in Kinds, h \in Headers : Arrive(r, k, h)
         \/ RefuseCompression(r) \/ RefuseContentType(r)
         \/ \E code \in Outcomes : Answer(r, code)
         \/ GoOn(r) \/ Leave(r) \/ Panic(r)
  PROVE  TypeOK'
<1> USE DEF config
<1>1. TypeOK BY DEF IInv
<1>2. ASSUME NEW k \in Kinds, NEW h \in Headers, Arrive(r, k, h) PROVE TypeOK'
  <2>1. [kind |-> k, headers |-> h] \in [kind : Kinds, headers : HeaderFields]
    BY HeadersAssumption
  <2>2. request' \in [Requests -> [kind : Kinds, headers : HeaderFields]]
    BY <1>1, <1>2, <2>1 DEF Arrive, TypeOK
  <2>3. at' \in [Requests -> 0 .. 6] /\ way' \in [Requests -> {"idle", "in", "out", "replied", "aborted"}]
    BY <1>1, <1>2 DEF Arrive, TypeOK
  <2> QED BY <1>1, <1>2, <2>2, <2>3 DEF Arrive, TypeOK
<1>3. ASSUME NEW code \in Codes \cup {"badRequest"}, way[r] = "in", EndWith(r, code)
      PROVE  TypeOK'
  <2>1. [code |-> code, by |-> Layer(r)] \in [code : Codes \cup {"badRequest"}, by : Layers \cup {"none"}]
    BY <1>3, LayerIs
  <2> QED BY <1>1, <1>3, <2>1 DEF EndWith, TypeOK
<1>4. CASE RefuseCompression(r) BY <1>3, <1>4 DEF RefuseCompression
<1>5. CASE RefuseContentType(r) BY <1>3, <1>5 DEF RefuseContentType, Codes
<1>6. CASE \E code \in Outcomes : Answer(r, code) BY <1>3, <1>6, OutcomesAssumption DEF Answer
<1>7. CASE GoOn(r)
  <2>1. at[r] + 1 \in 0 .. 6
    <3> DEFINE last == Len(Chain(request[r].kind))
    <3>1. way[r] = "in" /\ Layer(r) # "handler" BY <1>7 DEF GoOn
    <3>2. last \in 1 .. 6 BY <1>1, <3>1, LayerIs, ChainIs
    <3>3. at[r] \in 1 .. last /\ at[r] < last BY <3>1, LayerIs
    <3> HIDE DEF last
    <3> QED BY <3>2, <3>3
  <2> QED BY <1>1, <1>7, <2>1 DEF GoOn, TypeOK
<1>8. CASE Leave(r)
  <2>1. at[r] - 1 \in 0 .. 6 BY <1>1, <1>8, LayerIs, ChainIs DEF Leave
  <2>2. AccessLine(r) \in Seq({"panic"} \cup Levels)
    <3>1. CodeLevel(options.verbosity, reply[r].code) \in {"panic"} \cup Levels
      BY DEF CodeLevel, NormalVerbosity, LessVerbosity, LevelOf, Levels
    <3>2. /\ <<>> \in Seq({"panic"} \cup Levels)
          /\ <<CodeLevel(options.verbosity, reply[r].code)>> \in Seq({"panic"} \cup Levels)
      BY <3>1
    <3> QED BY <3>2, Zenon DEF AccessLine
  <2>3. lines[r] \o AccessLine(r) \in Seq({"panic"} \cup Levels)
    BY <1>1, <2>2, ConcatProperties DEF TypeOK
  <2>4. lines' \in [Requests -> Seq({"panic"} \cup Levels)]
    BY <1>1, <1>8, <2>3 DEF Leave, TypeOK
  <2>5. reply' \in [Requests -> [code : Codes \cup {"badRequest"}, by : Layers \cup {"none"}]]
    <3>1. PICK new \in Replies(r) : reply' = [reply EXCEPT ![r] = new] BY <1>8 DEF Leave
    <3>2. way[r] = "out" BY <1>8 DEF Leave
    <3>3. reply[r] \in [code : Codes \cup {"badRequest"}, by : Layers \cup {"none"}]
      BY <1>1 DEF TypeOK
    <3>4. Layer(r) \in Layers BY <3>2, LayerIs
    <3>5. new \in [code : Codes \cup {"badRequest"}, by : Layers \cup {"none"}]
      BY <3>1, <3>3, <3>4, OutcomesAssumption DEF Replies, Layers
    <3> QED BY <1>1, <3>1, <3>5 DEF TypeOK
  <2> QED BY <1>1, <1>8, <2>1, <2>4, <2>5 DEF Leave, TypeOK
<1>9. CASE Panic(r)
  <2>1. raised' \in [Requests -> Program \cup {"none"}] BY <1>1, <1>9 DEF Panic, TypeOK
  <2>2. CASE Isolations(r) # {}
    <3> DEFINE i == CHOOSE j \in Isolations(r) : TRUE
    <3>1. i \in Isolations(r) BY <2>2
    <3> HIDE DEF i
    <3>2. i \in 0 .. 6
      <4>1. i \in 1 .. at[r] - 1 BY <3>1, Zenon DEF Isolations
      <4>2. at[r] \in 0 .. 6 BY <1>1 DEF TypeOK
      <4> QED BY <4>1, <4>2
    <3>3. [code |-> RecoveredCode, by |-> "isolate"]
             \in [code : Codes \cup {"badRequest"}, by : Layers \cup {"none"}]
      BY DEF RecoveredCode, Codes, Layers
    <3>4. Append(lines[r], "panic") \in Seq({"panic"} \cup Levels) BY <1>1 DEF TypeOK
    <3>5. /\ at' = [at EXCEPT ![r] = i]
          /\ way' = [way EXCEPT ![r] = "out"]
          /\ reply' = [reply EXCEPT ![r] = [code |-> RecoveredCode, by |-> "isolate"]]
          /\ lines' = [lines EXCEPT ![r] = Append(@, "panic")]
          /\ UNCHANGED <<config, crashed, request>>
      BY <1>9, <2>2 DEF Panic, i
    <3>6. reply' \in [Requests -> [code : Codes \cup {"badRequest"}, by : Layers \cup {"none"}]]
      BY <1>1, <3>3, <3>5 DEF TypeOK
    <3>7. lines' \in [Requests -> Seq({"panic"} \cup Levels)] BY <1>1, <3>4, <3>5 DEF TypeOK
    <3> QED BY <1>1, <2>1, <3>2, <3>5, <3>6, <3>7 DEF TypeOK
  <2>3. CASE Isolations(r) = {} BY <1>1, <1>9, <2>1, <2>3 DEF Panic, TypeOK
  <2> QED BY <2>2, <2>3
<1> QED BY <1>2, <1>4, <1>5, <1>6, <1>7, <1>8, <1>9

\* A step says nothing of the requests it leaves alone.
LEMMA OtherTold ==
  ASSUME IInv, NEW q \in Requests, UNCHANGED config,
         request'[q] = request[q], at'[q] = at[q], way'[q] = way[q],
         reply'[q] = reply[q], raised'[q] = raised[q], lines'[q] = lines[q]
  PROVE  Told(q)'
<1> USE DEF config
<1>1. Told(q) BY DEF IInv
<1>2. Chain(request[q].kind)' = Chain(request[q].kind)
  BY DEF Chain, StandardChain, TrafficDirectorChain, ConnectChain, If
<1>3. AccessLine(q)' = AccessLine(q) BY DEF AccessLine
<1>4. Placed(q)' BY <1>1, <1>2 DEF Told, Placed
<1>5. PanicIsReply(q)' BY <1>1 DEF Told, PanicIsReply
<1>6. Lined(q)' BY <1>1, <1>3 DEF Told, Lined
<1>7. Hidden(q)' BY <1>1 DEF Told, Hidden, ErrorsPlace, OutsideOfErrors
<1>8. Compressed(q)' BY <1>1 DEF Told, Compressed, Encoding
<1>9. OneLine(q)' BY <1>1 DEF Told, OneLine
<1> QED BY <1>4, <1>5, <1>6, <1>7, <1>8, <1>9 DEF Told

LEMMA ArriveTold ==
  ASSUME IInv, NEW r \in Requests, NEW k \in Kinds, NEW h \in Headers, Arrive(r, k, h)
  PROVE  Told(r)'
<1> USE DEF config
<1>1. /\ way'[r] = "in" /\ at'[r] = 1 /\ request'[r].kind = k
      /\ reply'[r] = NoReply /\ raised'[r] = "none" /\ lines'[r] = <<>>
  BY DEF IInv, TypeOK, Told, Placed, Arrive
<1>2. Chain(request[r].kind)' = Chain(k)
  BY <1>1 DEF Arrive, Chain, StandardChain, TrafficDirectorChain, ConnectChain, If
<1>3. Placed(r)'
  <2> DEFINE last == Len(Chain(k))
  <2>1. last \in 1 .. 6 BY ChainIs DEF IInv
  <2>2. Len(Chain(request[r].kind))' = last BY <1>2
  <2> HIDE DEF last
  <2> QED BY <1>1, <2>1, <2>2 DEF Placed
<1> QED BY <1>1, <1>3 DEF Told, PanicIsReply, Lined, OneLine, Hidden, Compressed

\* A request that is answered, by a layer or by the program.
LEMMA EndTold ==
  ASSUME IInv, NEW r \in Requests, NEW code, way[r] = "in", EndWith(r, code),
         Layer(r) \in {"compression", "pre", "contentType", "post", "handler"},
         Layer(r) = "contentType" => code = "Unknown"
  PROVE  Told(r)'
<1> USE DEF config
<1>1. /\ way'[r] = "out" /\ reply'[r] = [code |-> code, by |-> Layer(r)]
      /\ at'[r] = at[r] /\ request'[r] = request[r] /\ raised'[r] = "none" /\ lines'[r] = <<>>
  BY DEF IInv, TypeOK, Told, Placed, EndWith
<1>2. Chain(request[r].kind)' = Chain(request[r].kind)
  BY <1>1 DEF EndWith, Chain, StandardChain, TrafficDirectorChain, ConnectChain, If
<1>3. Placed(r)' BY <1>1, <1>2, LayerIs DEF Placed
<1>4. PanicIsReply(r)' BY <1>1 DEF PanicIsReply
<1>5. Lined(r)' BY <1>1, LayerIs, ChainIs DEF EndWith, Lined
<1>6. Hidden(r)'
  <2> DEFINE place == ErrorsPlace(request[r].kind)
  <2> SUFFICES ASSUME server = "connect", options.errors # "none" PROVE Hidden(r)'
    BY DEF EndWith, Hidden
  <2>1. /\ Layer(r) = "handler" => at[r] > place
        /\ Layer(r) = "post" => at[r] > place \/ options.errors = "last"
        /\ Layer(r) \notin {"compression", "pre"} /\ place \in 1 .. 6
    BY LayerIs, ChainIs DEF IInv, Layer
  <2>2. at[r] \in 0 .. 6 BY DEF IInv, TypeOK
  <2>3. place' = place /\ OutsideOfErrors' = OutsideOfErrors /\ at'[r] = at[r]
    BY <1>1 DEF EndWith, ErrorsPlace, OutsideOfErrors
  <2>4. reply'[r].by \in {"errors"} \cup OutsideOfErrors' \/ at'[r] >= place'
    <3> HIDE DEF place
    <3> QED BY <1>1, <2>1, <2>2, <2>3 DEF OutsideOfErrors
  <2> QED BY <2>4 DEF Hidden
<1>7. Compressed(r)' BY <1>1 DEF EndWith, IInv, Told, Compressed, Encoding
<1>8. OneLine(r)' BY <1>1 DEF OneLine
<1> QED BY <1>3, <1>4, <1>5, <1>6, <1>7, <1>8 DEF Told

LEMMA SameChain ==
  ASSUME NEW r, UNCHANGED config, request'[r] = request[r]
  PROVE  Chain(request[r].kind)' = Chain(request[r].kind)
BY DEF config, Chain, StandardChain, TrafficDirectorChain, ConnectChain, If

LEMMA GoOnTold ==
  ASSUME IInv, NEW r \in Requests, GoOn(r)
  PROVE  Told(r)'
<1> USE DEF config
<1> DEFINE last == Len(Chain(request[r].kind))
<1>1. /\ way[r] = "in" /\ way'[r] = "in" /\ at'[r] = at[r] + 1 /\ request'[r] = request[r]
      /\ reply'[r] = NoReply /\ raised'[r] = "none" /\ lines'[r] = <<>>
      /\ Layer(r) # "handler" /\ UNCHANGED config
  BY DEF IInv, TypeOK, Told, Placed, GoOn
<1>2. last' = last BY <1>1, SameChain
<1>3. last \in 1 .. 6 /\ at[r] \in 1 .. last /\ at[r] < last
  BY <1>1, LayerIs, ChainIs DEF IInv
<1> HIDE DEF last
<1>4. at'[r] \in 1 .. last' BY <1>1, <1>2, <1>3
<1>5. Placed(r)' BY <1>1, <1>4 DEF Placed, last
<1>6. Compressed(r)'
  <2>1. CASE at[r] > 1
    BY <1>1, <2>1 DEF IInv, Told, Compressed, Encoding
  <2>2. CASE at[r] = 1
    <3>1. server = "standard" => ~Refuses(request[r].headers)
      BY <1>1, <2>2, LayerIs DEF GoOn
    <3> QED BY <1>1, <3>1, LayerIs DEF Compressed, Encoding, Refuses, HeaderFields
  <2> QED BY <1>3, <2>1, <2>2
<1> QED BY <1>1, <1>5, <1>6 DEF Told, PanicIsReply, Lined, OneLine, Hidden

LEMMA LeaveTold ==
  ASSUME IInv, NEW r \in Requests, Leave(r)
  PROVE  Told(r)'
<1> USE DEF config
<1> DEFINE last == Len(Chain(request[r].kind))
<1>1. /\ way[r] = "out" /\ at'[r] = at[r] - 1 /\ request'[r] = request[r]
      /\ way'[r] = (IF at[r] = 1 THEN "replied" ELSE "out")
      /\ raised'[r] = raised[r] /\ UNCHANGED config
      /\ lines'[r] = (IF Layer(r) = "zap" THEN lines[r] \o AccessLine(r) ELSE lines[r])
  BY DEF IInv, TypeOK, Leave
<1>0. /\ Layer(r) \in {"pre", "post"} => reply'[r] = reply[r] \/ reply'[r].by = Layer(r)
      /\ Layer(r) \notin {"pre", "post"} =>
            /\ reply'[r].code = reply[r].code
            /\ reply'[r].by = (IF Layer(r) = "errors" /\ Obfuscated(reply[r].code)
                               THEN "errors" ELSE reply[r].by)
  <2>1. PICK new \in Replies(r) : reply' = [reply EXCEPT ![r] = new] BY DEF Leave
  <2>2. reply'[r] = new BY <2>1 DEF IInv, TypeOK
  <2>3. reply[r] \in [code : Codes \cup {"badRequest"}, by : Layers \cup {"none"}]
    BY DEF IInv, TypeOK
  <2> QED BY <2>1, <2>2, <2>3 DEF Replies
<1>2. last' = last BY <1>1, SameChain
<1>3. last \in 1 .. 6 /\ at[r] \in 1 .. last BY <1>1, LayerIs, ChainIs DEF IInv
<1> HIDE DEF last
<1>4. Placed(r)'
  <2>1. IF at[r] = 1 THEN at'[r] = 0 ELSE at'[r] \in 1 .. last' BY <1>1, <1>2, <1>3
  <2> QED BY <1>1, <2>1 DEF Placed, last
<1>5. PanicIsReply(r)'
  <2> SUFFICES ASSUME raised[r] # "none" PROVE PanicIsReply(r)'
    BY <1>1 DEF PanicIsReply
  <2>1. PanicIsReply(r) BY DEF IInv, Told
  <2>2. Layer(r) # "post" /\ (Layer(r) = "errors" => server # "connect")
    BY <1>1, <1>3, <2>1, LayerIs, ChainIs DEF PanicIsReply, IInv, TypeOK, Layer
  <2>3. server # "connect" => Layer(r) # "errors"
    BY <1>1, <2>1, LayerIs DEF PanicIsReply, IInv, TypeOK
  <2> QED BY <1>0, <1>1, <1>3, <2>1, <2>2, <2>3 DEF PanicIsReply
<1>6. Lined(r)'
  <2> SUFFICES ASSUME server = "standard" PROVE Lined(r)'
    BY <1>1 DEF Lined
  <2>1. Layer(r) # "errors" BY <1>1, LayerIs DEF Layers
  <2>2. reply'[r] = reply[r] \/ reply'[r].code = reply[r].code =>
            AccessLine(r)' = AccessLine(r)
    BY <1>1 DEF AccessLine
  <2>3. Lined(r) BY DEF IInv, Told
  <2>4. /\ at[r] = 4 <=> Layer(r) = "zap"
        /\ at[r] = 2 <=> Layer(r) = "pre"
        /\ at[r] \in 5 .. 6 <=> Layer(r) \in {"post", "handler"}
    BY <1>1, LayerIs DEF IInv, TypeOK, Layers
  <2>5. CASE at[r] # 4
    <3>1. lines'[r] = lines[r] BY <1>1, <2>4, <2>5
    <3>2. CASE Layer(r) \in {"pre", "post"} /\ reply'[r] # reply[r]
      <4>1. reply'[r].by = Layer(r) BY <1>0, <3>2
      <4>2. CASE Layer(r) = "pre"
        <5>1. at'[r] = 1 BY <1>1, <2>4, <4>2
        <5> QED BY <4>1, <4>2, <5>1 DEF Lined
      <4>3. CASE Layer(r) = "post"
        <5>1. at[r] \in 5 .. 6 /\ at'[r] >= 4 BY <1>1, <2>4, <4>3
        <5>2. lines[r] = <<>> BY <1>1, <2>3, <5>1 DEF Lined
        <5> QED BY <3>1, <4>1, <4>3, <5>1, <5>2 DEF Lined
      <4> QED BY <3>2, <4>2, <4>3
    <3>3. CASE ~(Layer(r) \in {"pre", "post"} /\ reply'[r] # reply[r])
      <4>1. reply'[r].by = reply[r].by /\ AccessLine(r)' = AccessLine(r)
        BY <1>0, <2>1, <2>2, <3>3
      <4>2. /\ at[r] \in 1 .. 6 /\ at'[r] = at[r] - 1 /\ (at'[r] >= 4 <=> at[r] >= 4)
            /\ way'[r] \in {"out", "replied"} /\ way[r] = "out"
        BY <1>1, <1>3, <2>5
      <4> QED BY <2>3, <3>1, <4>1, <4>2 DEF Lined
    <3> QED BY <3>2, <3>3
  <2>6. CASE at[r] = 4
    <3>1. reply[r].by \in {"post", "handler"} /\ lines[r] = <<>>
      BY <1>1, <2>3, <2>6 DEF Lined
    <3>2. <<>> \o AccessLine(r) = AccessLine(r)
      <4> DEFINE level == CodeLevel(options.verbosity, reply[r].code)
      <4>1. <<>> \in Seq({level}) /\ <<level>> \in Seq({level}) OBVIOUS
      <4>2. AccessLine(r) \in Seq({level}) BY <4>1, Zenon DEF AccessLine
      <4> QED BY <4>2, ConcatEmptySeq
    <3>3. lines'[r] = AccessLine(r) BY <1>1, <2>4, <2>6, <3>1, <3>2
    <3>4. at'[r] = 3 BY <1>1, <2>6
    <3>5. reply'[r].by = reply[r].by /\ AccessLine(r)' = AccessLine(r)
      BY <1>0, <2>1, <2>2, <2>4, <2>6
    <3> QED BY <1>1, <3>1, <3>3, <3>4, <3>5 DEF Lined
  <2> QED BY <2>5, <2>6
<1>7. Hidden(r)'
  <2> SUFFICES ASSUME server = "connect", options.errors # "none",
                      reply'[r].code \in {"Internal", "Unknown"}
               PROVE  Hidden(r)'
    BY <1>1 DEF Hidden
  <2> DEFINE place == ErrorsPlace(request[r].kind)
             shown == {"errors"} \cup OutsideOfErrors
  <2>1. /\ place \in 1 .. last /\ (at[r] = place => Layer(r) = "errors")
        /\ Layer(r) = "post" => at[r] > place \/ options.errors = "last"
        /\ Layer(r) # "pre"
    BY <1>1, LayerIs, ChainIs DEF IInv, Layer, last
  <2>2. Hidden(r) BY DEF IInv, Told
  <2>3. place' = place /\ shown' = shown BY <1>1 DEF ErrorsPlace, OutsideOfErrors
  <2>4. reply[r].code \in {"Internal", "Unknown"} => reply[r].by \in shown \/ at[r] >= place
    BY <1>1, <2>2 DEF Hidden
  <2>5. "errors" \in shown /\ (options.errors = "last" => "post" \in shown)
    BY DEF OutsideOfErrors
  <2> HIDE DEF place, shown
  <2>6. reply'[r].by \in shown' \/ at'[r] >= place'
    <3>1. CASE Layer(r) = "post" /\ reply'[r] # reply[r]
      BY <1>0, <1>1, <1>3, <2>1, <2>3, <2>5, <3>1
    <3>2. CASE ~(Layer(r) = "post" /\ reply'[r] # reply[r])
      <4>1. reply'[r].code = reply[r].code BY <1>0, <2>1, <3>2
      <4>2. at[r] = place => reply'[r].by = "errors" BY <1>0, <2>1, <4>1 DEF Obfuscated
      <4>3. reply'[r].by \in {reply[r].by, "errors"} BY <1>0, <2>1, <3>2
      <4> QED BY <1>1, <1>3, <2>1, <2>3, <2>4, <2>5, <4>1, <4>2, <4>3
    <3> QED BY <3>1, <3>2
  <2> QED BY <2>6 DEF Hidden, place, shown
<1>8. Compressed(r)' BY <1>1, <1>3 DEF IInv, Told, Compressed, Encoding
<1>9. OneLine(r)'
  <2> SUFFICES ASSUME server = "standard" PROVE Len(lines'[r]) <= 1
    BY <1>1 DEF OneLine
  <2>1. Lined(r) /\ OneLine(r) BY DEF IInv, Told
  <2>2. at[r] = 4 <=> Layer(r) = "zap" BY <1>1, LayerIs
  <2>3. CASE at[r] # 4 BY <1>1, <2>1, <2>2, <2>3 DEF OneLine
  <2>4. CASE at[r] = 4
    <3>1. lines[r] = <<>> BY <1>1, <2>1, <2>4 DEF Lined
    <3>2. lines'[r] = <<>> \o AccessLine(r) BY <1>1, <2>2, <2>4, <3>1
    <3> DEFINE level == CodeLevel(options.verbosity, reply[r].code)
    <3>3. AccessLine(r) \in {<<>>, <<level>>} BY Zenon DEF AccessLine
    <3> HIDE DEF level
    <3>4. CASE AccessLine(r) = <<>>
      <4>1. lines'[r] = <<>> \o <<>> BY <3>2, <3>4, Zenon
      <4> QED BY ONLY <4>1
    <3>5. CASE AccessLine(r) = <<level>>
      <4>1. lines'[r] = <<>> \o <<level>> BY <3>2, <3>5, Zenon
      <4> QED BY ONLY <4>1
    <3> QED BY <3>3, <3>4, <3>5, Zenon
  <2> QED BY <2>3, <2>4
<1> QED BY <1>4, <1>5, <1>6, <1>7, <1>8, <1>9 DEF Told

LEMMA PanicTold ==
  ASSUME IInv, ~crashed, NEW r \in Requests, Panic(r)
  PROVE  Told(r)' /\ CrashIsUnshielded'
<1> USE DEF config
<1>1. /\ way[r] \in {"in", "out"} /\ Layer(r) \in Program /\ request'[r] = request[r]
      /\ raised'[r] = Layer(r) /\ raised'[r] # "none" /\ UNCHANGED config
  BY DEF IInv, TypeOK, Panic, Program
<1>2. at[r] \in 1 .. 6 /\ (server = "standard" => (at[r] >= 5 <=> Layer(r) \in {"post", "handler"}))
  BY <1>1, LayerIs DEF IInv, TypeOK
<1>3. Compressed(r) BY DEF IInv, Told
<1>4. server = "standard" => Chain(request[r].kind) = StandardChain
  BY <1>1, LayerIs, ChainIs DEF IInv
<1>5. CASE Isolations(r) # {}
  <2> DEFINE i == CHOOSE j \in Isolations(r) : TRUE
             last == Len(Chain(request[r].kind))
  <2>1. i \in Isolations(r) BY <1>5
  <2>2. /\ way'[r] = "out" /\ at'[r] = i /\ reply'[r] = [code |-> "Internal", by |-> "isolate"]
        /\ lines'[r] = Append(lines[r], "panic") /\ crashed' = crashed
    BY <1>5 DEF Panic, IInv, TypeOK, RecoveredCode
  <2>3. last' = last BY <1>1, SameChain
  <2>4. last \in 1 .. 6 /\ at[r] \in 1 .. last BY <1>1, LayerIs, ChainIs DEF IInv
  <2> HIDE DEF i
  <2>5. i \in 1 .. at[r] - 1 /\ Chain(request[r].kind)[i] = "isolate"
    BY <2>1, Zenon DEF Isolations
  <2> HIDE DEF last
  <2>6. i \in 1 .. last /\ i < at[r] BY <2>4, <2>5
  <2>7. Placed(r)' BY <2>2, <2>3, <2>6 DEF Placed, last
  <2>8. PanicIsReply(r)'
    <3>1. /\ server = "standard" => i <= 3
          /\ server = "connect" => i <= 1 /\ request[r].kind = "unary"
          /\ server # "trafficDirector"
      <4>1. TypeOK /\ request[r].kind \in Kinds /\ i \in 1 .. Len(Chain(request[r].kind))
        BY <1>1, <2>6, LayerIs DEF IInv, last
      <4>2. /\ server = "connect" => i = 1 /\ request[r].kind = "unary"
            /\ server # "trafficDirector"
        BY <2>5, <4>1, ChainIs
      <4>3. server = "standard" => i = 3
        BY <1>2, <1>4, <2>5 DEF StandardChain
      <4> QED BY <4>2, <4>3
    <3> QED BY <1>1, <2>2, <3>1 DEF PanicIsReply
  <2>9. Lined(r)'
    <3> SUFFICES ASSUME server = "standard" PROVE Lined(r)'
      BY <1>1 DEF Lined
    <3>1. i \in 1 .. 5 /\ StandardChain[i] = "isolate" BY <1>2, <1>4, <2>5
    <3>2. i = 3 BY <3>1 DEF StandardChain
    <3>3. Layer(r) \in {"post", "handler"} /\ at[r] >= 5
      BY <1>1, <1>2, <2>6, <3>2, LayerIs DEF Program
    <3>4. lines[r] = <<>>
      BY <1>1, <1>2, <3>3 DEF IInv, Told, Placed, Lined
    <3>5. lines'[r] = <<"panic">> BY <2>2, <3>4
    <3>6. at'[r] = 3 /\ reply'[r].by = "isolate" BY <2>2, <3>2
    <3> QED BY <3>5, <3>6 DEF Lined
  <2>10. Hidden(r)' BY <2>2 DEF Hidden, OutsideOfErrors
  <2>11. Compressed(r)' BY <1>1, <1>2, <1>3, <2>2, <2>6 DEF Compressed, Encoding
  <2>12. CrashIsUnshielded' BY <2>2 DEF CrashIsUnshielded
  <2>13. OneLine(r)'
    <3>1. server = "standard" => i = 3 BY <1>1, <1>2, <1>4, <2>5 DEF StandardChain
    <3>2. server = "standard" => lines[r] = <<>>
      BY <1>1, <1>2, <2>6, <3>1, LayerIs DEF Program, IInv, Told, Placed, Lined
    <3> QED BY <1>1, <2>2, <3>2 DEF OneLine
  <2> QED BY <2>7, <2>8, <2>9, <2>10, <2>11, <2>12, <2>13 DEF Told
<1>6. CASE Isolations(r) = {}
  <2>1. /\ way'[r] = "aborted" /\ crashed' = (server # "connect")
        /\ at'[r] = at[r]
    BY <1>6 DEF Panic, IInv, TypeOK
  <2>2. Told(r)'
    <3>1. lines'[r] = lines[r] /\ OneLine(r) BY <1>6 DEF Panic, IInv, Told
    <3> QED BY <1>1, <1>3, <2>1, <3>1
         DEF Told, Placed, PanicIsReply, Lined, OneLine, Hidden, Compressed, Encoding
  <2>3. ~(server = "standard" /\ Layer(r) \in {"post", "handler"})
    <3> SUFFICES ASSUME server = "standard", Layer(r) \in {"post", "handler"} PROVE FALSE
      OBVIOUS
    <3>1. at[r] - 1 \in 4 .. 5 BY <1>2
    <3>2. 3 \in 1 .. at[r] - 1 /\ Chain(request[r].kind)[3] = "isolate"
      BY <1>4, <3>1 DEF StandardChain
    <3> QED BY <1>6, <3>2, Zenon DEF Isolations
  <2>4. crashed' => ~Shielded(r)' BY <1>1, <2>1, <2>3 DEF Shielded
  <2> QED BY <1>1, <2>2, <2>4 DEF CrashIsUnshielded
<1> QED BY <1>5, <1>6

LEMMA NextIInv == IInv /\ [Next]_vars => IInv'
<1> SUFFICES ASSUME IInv, [Next]_vars PROVE IInv'
  OBVIOUS
<1>1. CASE UNCHANGED vars
  <2>1. TypeOK' BY <1>1 DEF vars, IInv, TypeOK
  <2>2. CrashIsUnshielded' BY <1>1 DEF vars, IInv, CrashIsUnshielded, Shielded
  <2>3. ASSUME NEW q \in Requests PROVE Told(q)' BY <1>1, OtherTold DEF vars, config
  <2> QED BY <2>1, <2>2, <2>3 DEF IInv
<1>2. CASE Next
  <2>1. PICK r \in Requests :
          \/ \E k \in Kinds, h \in Headers : Arrive(r, k, h)
          \/ RefuseCompression(r) \/ RefuseContentType(r)
          \/ \E code \in Outcomes : Answer(r, code)
          \/ GoOn(r) \/ Leave(r) \/ Panic(r)
    BY <1>2 DEF Next
  <2>2. ~crashed BY <1>2 DEF Next
  <2>3. TypeOK' BY <2>1, NextTypeOK
  <2>4. ASSUME NEW q \in Requests, q # r PROVE Told(q)'
    <3>1. UNCHANGED config
      BY <2>1 DEF Arrive, RefuseCompression, RefuseContentType, Answer, EndWith, GoOn, Leave, Panic
    <3>2. /\ request'[q] = request[q] /\ at'[q] = at[q] /\ way'[q] = way[q]
          /\ reply'[q] = reply[q] /\ raised'[q] = raised[q] /\ lines'[q] = lines[q]
      <4> USE DEF IInv, TypeOK
      <4>1. CASE \E k \in Kinds, h \in Headers : Arrive(r, k, h) BY <2>4, <4>1 DEF Arrive
      <4>2. CASE RefuseCompression(r) \/ RefuseContentType(r)
        BY <2>4, <4>2 DEF RefuseCompression, RefuseContentType, EndWith
      <4>3. CASE \E code \in Outcomes : Answer(r, code) BY <2>4, <4>3 DEF Answer, EndWith
      <4>4. CASE GoOn(r) \/ Leave(r) BY <2>4, <4>4 DEF GoOn, Leave
      <4>5. CASE Panic(r)
        <5>1. CASE Isolations(r) # {} BY <2>4, <4>5, <5>1 DEF Panic
        <5>2. CASE Isolations(r) = {} BY <2>4, <4>5, <5>2 DEF Panic
        <5> QED BY <5>1, <5>2
      <4> QED BY <2>1, <4>1, <4>2, <4>3, <4>4, <4>5
    <3> QED BY <3>1, <3>2, OtherTold
  <2>5. Told(r)' /\ CrashIsUnshielded'
    <3>1. CASE Panic(r) BY <2>2, <3>1, PanicTold
    <3>2. CASE ~Panic(r)
      <4>1. CrashIsUnshielded'
        BY <2>1, <2>2, <3>2 DEF Arrive, RefuseCompression, RefuseContentType, Answer, EndWith,
           GoOn, Leave, CrashIsUnshielded
      <4>2. ASSUME NEW code, way[r] = "in", EndWith(r, code),
                   Layer(r) \in {"compression", "pre", "post", "handler"}
            PROVE  Told(r)'
        <5>1. Layer(r) # "contentType" BY <4>2
        <5> QED BY <4>2, <5>1, EndTold
      <4>3. CASE RefuseCompression(r) BY <4>1, <4>2, <4>3 DEF RefuseCompression
      <4>4. CASE RefuseContentType(r) BY <4>1, <4>4, EndTold DEF RefuseContentType
      <4>5. CASE \E code \in Outcomes : Answer(r, code) BY <4>1, <4>2, <4>5 DEF Answer
      <4> QED BY <2>1, <3>2, <4>1, <4>3, <4>4, <4>5, ArriveTold, GoOnTold, LeaveTold
    <3> QED BY <3>1, <3>2
  <2> QED BY <2>3, <2>4, <2>5 DEF IInv
<1> QED BY <1>1, <1>2

LEMMA Invariance == Spec => []IInv
  BY InitIInv, NextIInv, PTL DEF Spec

-----------------------------------------------------------------------------
\* A panic in shielded code ends its own request with Internal, unless a Pre interceptor
\* says otherwise, and neither the process nor another request
\* (server/standard/server.go:381-383, server/interceptors.go:35-90).
THEOREM PanicsAreIsolatedHolds == Spec => []PanicsAreIsolated
<1>1. IInv => PanicsAreIsolated
  BY DEF IInv, Told, PanicIsReply, CrashIsUnshielded, PanicsAreIsolated, Replied
<1> QED BY <1>1, Invariance, PTL

\* A call of a standard server leaves at most one line, and one that got past its Pre
\* interceptors leaves it, unless it is a Health/Check that went well
\* (server/standard/server.go:356-448).
THEOREM EndsAreLoggedHolds == Spec => []EndsAreLogged
<1>1. IInv => EndsAreLogged
  <2> SUFFICES ASSUME IInv, NEW r \in Requests, server = "standard"
      PROVE  /\ Len(lines[r]) <= 1
             /\ PassedLogging(r) =>
                    lines[r] = IF reply[r].by = "isolate" THEN <<"panic">> ELSE AccessLine(r)
    BY DEF EndsAreLogged, AccessLine
  <2>1. Placed(r) /\ PanicIsReply(r) /\ Lined(r) /\ OneLine(r) BY DEF IInv, Told
  <2>2. PassedLogging(r) =>
            lines[r] = IF reply[r].by = "isolate" THEN <<"panic">> ELSE AccessLine(r)
    <3> SUFFICES ASSUME PassedLogging(r)
                 PROVE  lines[r] = IF reply[r].by = "isolate" THEN <<"panic">> ELSE AccessLine(r)
      OBVIOUS
    <3>1. /\ way[r] \in {"out", "replied"} /\ reply[r].by \notin {"compression", "pre"}
          /\ at[r] \in 0 .. 3
      <4>1. at[r] \in 0 .. 6 BY DEF IInv, TypeOK
      <4> QED BY <4>1 DEF PassedLogging
    <3>2. CASE reply[r].by = "isolate" BY <2>1, <3>1, <3>2 DEF Lined
    <3>3. CASE reply[r].by # "isolate"
      <4>1. lines[r] = IF at[r] >= 4 THEN <<>> ELSE AccessLine(r)
        BY <2>1, <3>1, <3>3 DEF Lined
      <4> QED BY <3>1, <3>3, <4>1
    <3> QED BY <3>2, <3>3
  <2> QED BY <2>1, <2>2 DEF OneLine
<1> QED BY <1>1, Invariance, PTL

\* With an ErrorsInterceptor no client gets the message of an internal or unknown error
\* of the program, but for interceptors that were given before it
\* (server/connectrpc/error.go:41-110).
THEOREM InternalErrorsAreGenericHolds == Spec => []InternalErrorsAreGeneric
<1>1. IInv => InternalErrorsAreGeneric
  <2> SUFFICES ASSUME IInv, NEW r \in Requests, server = "connect", options.errors # "none",
                      Replied(r), reply[r].code \in {"Internal", "Unknown"}
               PROVE  reply[r].by \in {"errors"} \cup OutsideOfErrors
    BY DEF InternalErrorsAreGeneric
  <2>1. at[r] = 0 /\ Hidden(r) BY DEF IInv, Told, Placed, Replied
  <2>2. ErrorsPlace(request[r].kind) \in 1 .. 4
    <3>1. \A b \in BOOLEAN : (IF b THEN 1 ELSE 0) \in 0 .. 1 OBVIOUS
    <3> QED BY DEF ErrorsPlace
  <2> QED BY <2>1, <2>2 DEF Hidden, Replied
<1> QED BY <1>1, Invariance, PTL

\* What gRPC gets to see is compressed if that is enforced
\* (server/standard/compression.go:12-76).
THEOREM RequestsInvHolds == Spec => []RequestsInv
<1>1. IInv => RequestsInv
  BY DEF IInv, Told, Compressed, RequestsInv, EnforcedIsCompressed
<1> QED BY <1>1, Invariance, PTL

-----------------------------------------------------------------------------
(* The factory: what the options amount to, and the registrations             *)

\* What the options can be.
ServerOptions ==
    [isPlainText : BOOLEAN, tls : {"nil", "given", "self-signed"},
     check : BOOLEAN, over : SUBSET {"HTTP", "GRPC"}, registrator : BOOLEAN,
     serverOptions : {"none", "limits", "chain"},
     url : {"nil", "traffic-director", "clientOnly"}, logger : {"default", "nil"}]

FactoryTypeOK ==
    /\ target \in {"factory", "connect"}
    /\ programOptions \in ServerOptions
    /\ applied \in Seq(Made!Names) /\ Len(applied) <= MaxOptions
    /\ stage \in {"options", "built", "launched", "panicked", "exited"}
    /\ services \in [Made!Services -> {"nobody", "program", "check", "static", "package"}]
    /\ early \in [Made!Services -> 0 .. 2]
    /\ serves \in {"none", "plain", "tls", "xds", "invalid"}
    /\ calling \in BOOLEAN

Transports == {"secure", "insecure", "plain"}

\* The options are those that a transport sets.
Speaks(o, transport) ==
    \/ transport = "plain" /\ o.isPlainText = TRUE /\ o.tls = "nil"
    \/ transport = "secure" /\ o.isPlainText = FALSE /\ o.tls = "given"
    \/ transport = "insecure" /\ o.isPlainText = FALSE /\ o.tls = "self-signed"

Gave(names) == {i \in DOMAIN applied : applied[i] \in names}

\* The last transport is the one the options have.
OptionsTell ==
    \/ Gave(Transports) = {} /\ Speaks(programOptions, "plain")
    \/ \E i \in Gave(Transports) :
          Speaks(programOptions, applied[i]) /\ \A j \in Gave(Transports) : j <= i

\* What a registration leaves behind until Launch.
Registrations ==
    /\ stage = "options" =>
          /\ serves = "none"
          /\ \A s \in Made!Services : early[s] = 0 /\ services[s] = "nobody"
    /\ stage = "built" =>
          /\ serves = "none"
          /\ \A s \in Made!Services :
                early[s] <= 1 /\ (early[s] = 0 => services[s] # "program")
    /\ stage = "launched" => serves # "none"

FactoryIInv ==
    /\ FactoryTypeOK /\ OptionsTell /\ Registrations
    /\ Made!NeverInvalid /\ Made!EarlyRegistrationsAnswer /\ Made!EndsOnlyByMisuse

LEMMA FactoryInit == Made!Init => FactoryIInv
<1> SUFFICES ASSUME Made!Init PROVE FactoryIInv
  OBVIOUS
<1> USE DEF Made!Init, Made!Services
<1>1. MaxOptions \in Nat BY FactoryAssumption DEF Made!ConstantsOK
<1>2. applied \in Seq(Made!Names) /\ Len(applied) <= MaxOptions /\ DOMAIN applied = {}
  BY <1>1
<1>3. programOptions \in ServerOptions BY DEF Made!NewOptions, ServerOptions
<1>4. FactoryTypeOK
  <2>1. calling \in BOOLEAN BY Zenon
  <2>2. /\ target \in {"factory", "connect"} /\ stage = "options" /\ serves = "none"
        /\ services \in [Made!Services -> {"nobody", "program", "check", "static", "package"}]
        /\ early \in [Made!Services -> 0 .. 2]
    OBVIOUS
  <2> QED BY <1>2, <1>3, <2>1, <2>2 DEF FactoryTypeOK
<1>5. OptionsTell BY <1>2 DEF OptionsTell, Gave, Speaks, Made!NewOptions
<1> QED
  BY <1>4, <1>5 DEF FactoryIInv, Registrations, Made!NeverInvalid,
                    Made!EarlyRegistrationsAnswer, Made!EndsOnlyByMisuse

\* What an option does to the options.
LEMMA ApplyIs ==
  ASSUME NEW o \in ServerOptions, NEW name \in Made!Names
  PROVE  LET new == Made!Apply(o, name) IN
         /\ new \in ServerOptions
         /\ name \in Transports => Speaks(new, name)
         /\ name \notin Transports => new.isPlainText = o.isPlainText /\ new.tls = o.tls
<1> DEFINE new == Made!Apply(o, name)
<1> USE DEF ServerOptions, Speaks, Transports
<1>1. CASE name = "secure" BY <1>1 DEF Made!Apply, Made!WithSecureServer
<1>2. CASE name = "insecure" BY <1>2 DEF Made!Apply, Made!WithInsecureServer
<1>3. CASE name = "plain" BY <1>3 DEF Made!Apply, Made!WithPlainTextServer
<1>4. CASE name \in {"healthHTTP", "healthGRPC", "healthBoth"}
  BY <1>4 DEF Made!Apply, Made!WithHealthCheck
<1>5. CASE name = "register" BY <1>5 DEF Made!Apply, Made!WithRegisterService
<1>6. CASE name \in {"limits", "chain"} BY <1>6 DEF Made!Apply, Made!WithGRPCServerOptions
<1>7. CASE name = "nilLogger" BY <1>7 DEF Made!Apply, Made!WithLogger
<1>8. CASE name \in {"traffic-director", "clientOnly"}
  BY <1>8 DEF Made!Apply, Made!WithServiceDiscoveryURL
<1> QED BY <1>1, <1>2, <1>3, <1>4, <1>5, <1>6, <1>7, <1>8 DEF Made!Names

LEMMA GiveOptionTells ==
  ASSUME FactoryIInv, NEW name \in Made!Names, Made!GiveOption(name)
  PROVE  FactoryIInv'
<1> DEFINE n == Len(applied)
<1>1. /\ applied \in Seq(Made!Names) /\ n \in Nat /\ n < MaxOptions
      /\ MaxOptions \in Nat /\ programOptions \in ServerOptions
      /\ programOptions' = Made!Apply(programOptions, name)
      /\ applied' = Append(applied, name) /\ stage = "options"
      /\ UNCHANGED <<target, stage, services, early, serves, calling>>
  BY FactoryAssumption, LenProperties
     DEF Made!ConstantsOK, FactoryIInv, FactoryTypeOK, Made!GiveOption, ServerOptions
<1>2. /\ applied' \in Seq(Made!Names) /\ Len(applied') = n + 1
      /\ DOMAIN applied = 1 .. n /\ DOMAIN applied' = 1 .. n + 1
      /\ \A i \in 1 .. n : applied'[i] = applied[i]
      /\ applied'[n + 1] = name
  BY <1>1, AppendProperties, LenProperties
<1>3. /\ programOptions' \in ServerOptions
      /\ name \in Transports => Speaks(programOptions', name)
      /\ name \notin Transports =>
            /\ programOptions'.isPlainText = programOptions.isPlainText
            /\ programOptions'.tls = programOptions.tls
  BY <1>1, ApplyIs
<1> HIDE DEF n
<1>4. ASSUME NEW names
      PROVE  /\ Gave(names) \subseteq 1 .. n /\ Gave(names) \subseteq Gave(names)'
             /\ name \in names => n + 1 \in Gave(names)'
             /\ name \notin names => Gave(names)' = Gave(names)
             /\ \A i \in Gave(names)' : i <= n + 1
  BY <1>1, <1>2 DEF Gave
<1>5. FactoryTypeOK'
  <2>1. Len(applied') <= MaxOptions BY <1>1, <1>2
  <2>2. /\ target' \in {"factory", "connect"}
        /\ services' \in [Made!Services -> {"nobody", "program", "check", "static", "package"}]
        /\ early' \in [Made!Services -> 0 .. 2]
        /\ stage' = "options"
        /\ serves' \in {"none", "plain", "tls", "xds", "invalid"}
        /\ calling' \in BOOLEAN
    BY <1>1, Zenon DEF FactoryIInv, FactoryTypeOK
  <2> QED BY <1>2, <1>3, <2>1, <2>2, Zenon DEF FactoryTypeOK
<1>6. \/ Gave(Transports)' = {} /\ Speaks(programOptions', "plain")
      \/ \E i \in Gave(Transports)' :
            Speaks(programOptions', applied'[i]) /\ \A j \in Gave(Transports)' : j <= i
  <2>1. CASE name \in Transports BY <1>2, <1>3, <1>4, <2>1
  <2>2. CASE name \notin Transports
    <3>1. Gave(Transports)' = Gave(Transports) BY <1>4, <2>2
    <3>2. \A t : Speaks(programOptions, t) => Speaks(programOptions', t)
      BY <1>3, <2>2 DEF Speaks
    <3>3. \A i \in Gave(Transports) : applied'[i] = applied[i] BY <1>2, <1>4
    <3> QED BY <3>1, <3>2, <3>3 DEF FactoryIInv, OptionsTell
  <2> QED BY <2>1, <2>2
<1>7. OptionsTell' BY <1>6 DEF OptionsTell
<1>8. Registrations' BY <1>1 DEF FactoryIInv, Registrations
<1>9. /\ Made!NeverInvalid' /\ Made!EarlyRegistrationsAnswer' /\ Made!EndsOnlyByMisuse'
  BY <1>1 DEF FactoryIInv, Made!NeverInvalid, Made!EarlyRegistrationsAnswer,
              Made!EndsOnlyByMisuse
<1> QED BY <1>5, <1>7, <1>8, <1>9 DEF FactoryIInv

\* Of what was given nothing changes once the server is built.
LEMMA SameOptions ==
  ASSUME OptionsTell, UNCHANGED <<applied, programOptions>>
  PROVE  OptionsTell'
BY DEF OptionsTell, Gave, Speaks

LEMMA BuildTells == FactoryIInv /\ Made!Build => FactoryIInv'
<1> SUFFICES ASSUME FactoryIInv, Made!Build PROVE FactoryIInv'
  OBVIOUS
<1>1. /\ stage = "options" /\ serves = "none"
      /\ UNCHANGED <<target, programOptions, applied, serves, calling>>
      /\ \A s \in Made!Services : early[s] = 0 /\ services[s] = "nobody"
      /\ early \in [Made!Services -> 0 .. 2]
  BY DEF Made!Build, FactoryIInv, Registrations, FactoryTypeOK
<1>2. OptionsTell' BY <1>1, SameOptions DEF FactoryIInv
<1>3. Made!Kind' = Made!Kind BY <1>1 DEF Made!Kind
<1>4. CASE Made!Kind # "connect" /\ programOptions.serverOptions = "chain"
  <2>1. stage' = "panicked" /\ UNCHANGED <<services, early>> BY <1>4 DEF Made!Build
  <2>2. Made!ChainPanics' BY <1>1, <1>3, <1>4, <2>1 DEF Made!ChainPanics
  <2> QED
    BY <1>1, <1>2, <2>1, <2>2
       DEF FactoryIInv, FactoryTypeOK, Registrations, Made!NeverInvalid,
           Made!EarlyRegistrationsAnswer, Made!EndsOnlyByMisuse
<1>5. CASE ~(Made!Kind # "connect" /\ programOptions.serverOptions = "chain")
  <2>1. /\ stage' = "built"
        /\ services' = CASE Made!Kind = "standard" -> Made!StandardServices
                         [] Made!Kind = "traffic-director" -> Made!TrafficDirectorServices
                         [] Made!Kind = "connect" -> Made!ConnectServices
        /\ early' = [early EXCEPT !["app"] =
                        IF Made!Kind = "connect"
                           \/ (Made!Kind = "standard" /\ programOptions.registrator)
                        THEN 1 ELSE 0]
    BY <1>5 DEF Made!Build
  <2>2. Made!Kind \in {"standard", "traffic-director", "connect"} BY DEF Made!Kind
  <2>3. /\ services' \in [Made!Services -> {"nobody", "program", "check", "static", "package"}]
        /\ \A s \in {"health", "reflection"} : services'[s] # "program"
        /\ services'["app"] = "program" <=> early'["app"] = 1
        /\ services'["app"] \in {"nobody", "program"}
        /\ programOptions.registrator /\ Made!Kind # "traffic-director" => early'["app"] = 1
        /\ Made!Kind = "traffic-director" => early'["app"] = 0
    BY <1>1, <2>1, <2>2
       DEF Made!StandardServices, Made!TrafficDirectorServices, Made!ConnectServices,
           Made!Services
  <2>4. /\ early' \in [Made!Services -> 0 .. 2]
        /\ \A s \in Made!Services : early'[s] <= 1 /\ (early'[s] > 0 => s = "app")
    BY <1>1, <2>1 DEF Made!Services
  <2>5. Made!EarlyRegistrationsAnswer'
    <3>1. \A s \in Made!Services : early'[s] > 0 => services'[s] = "program"
      BY <2>3, <2>4
    <3>2. programOptions' = programOptions BY <1>1
    <3> QED
      BY <1>3, <2>3, <3>1, <3>2 DEF Made!EarlyRegistrationsAnswer, Made!IgnoresRegistrator
  <2>6. \A s \in Made!Services : early'[s] = 0 => services'[s] # "program"
    BY <2>3 DEF Made!Services
  <2> QED
    BY <1>1, <1>2, <2>1, <2>3, <2>4, <2>5, <2>6
       DEF FactoryIInv, FactoryTypeOK, Registrations, Made!NeverInvalid,
           Made!EndsOnlyByMisuse
<1> QED BY <1>4, <1>5

LEMMA RegisterTells ==
  ASSUME FactoryIInv, NEW s \in Made!Services, Made!RegisterService(s)
  PROVE  FactoryIInv'
<1>1. /\ stage = "built" /\ serves = "none"
      /\ UNCHANGED <<target, programOptions, applied, serves, calling>>
      /\ early' = [early EXCEPT ![s] = @ + 1]
      /\ early \in [Made!Services -> 0 .. 2]
      /\ \A t \in Made!Services :
            /\ early[t] <= 1
            /\ early[t] > 0 => services[t] = "program"
            /\ early[t] = 0 => services[t] # "program"
      /\ programOptions.registrator =>
            services["app"] = IF Made!IgnoresRegistrator THEN "nobody" ELSE "program"
  BY DEF Made!RegisterService, FactoryIInv, Registrations, FactoryTypeOK,
         Made!EarlyRegistrationsAnswer
<1>2. OptionsTell' BY <1>1, SameOptions DEF FactoryIInv
<1>3. early' \in [Made!Services -> 0 .. 2] BY <1>1
<1>4. CASE services[s] # "nobody"
  <2>1. stage' = "exited" /\ UNCHANGED services BY <1>4 DEF Made!RegisterService
  <2>2. early'[s] = 2 \/ (early'[s] = 1 /\ services'[s] \notin {"nobody", "program"})
    BY <1>1, <1>4, <2>1
  <2> QED
    BY <1>1, <1>2, <1>3, <2>1, <2>2
       DEF FactoryIInv, FactoryTypeOK, Registrations, Made!NeverInvalid,
           Made!EarlyRegistrationsAnswer, Made!EndsOnlyByMisuse
<1>5. CASE services[s] = "nobody"
  <2>1. /\ stage' = "built" /\ services' = [services EXCEPT ![s] = "program"]
    BY <1>1, <1>5 DEF Made!RegisterService
  <2>2. early[s] = 0 BY <1>1, <1>5
  <2>3. services' \in [Made!Services -> {"nobody", "program", "check", "static", "package"}]
    BY <2>1 DEF FactoryIInv, FactoryTypeOK
  <2>4. \A t \in Made!Services :
           /\ early'[t] <= 1
           /\ early'[t] > 0 => services'[t] = "program"
           /\ early'[t] = 0 => services'[t] # "program"
    BY <1>1, <2>1, <2>2 DEF FactoryIInv, FactoryTypeOK
  <2>5. Made!EarlyRegistrationsAnswer'
    <3>1. CASE s = "app"
      <4>1. services'["app"] = "program" /\ early'["app"] = 1
        BY <1>1, <2>1, <2>2, <3>1 DEF FactoryIInv, FactoryTypeOK
      <4> QED BY <2>4, <4>1 DEF Made!EarlyRegistrationsAnswer, Made!IgnoresRegistrator
    <3>2. CASE s # "app"
      <4>1. services'["app"] = services["app"] /\ early'["app"] = early["app"]
        BY <1>1, <2>1, <3>2 DEF FactoryIInv, FactoryTypeOK, Made!Services
      <4>2. Made!IgnoresRegistrator' = Made!IgnoresRegistrator
        BY <1>1, <4>1 DEF Made!IgnoresRegistrator, Made!Kind
      <4> QED BY <1>1, <2>4, <4>1, <4>2 DEF Made!EarlyRegistrationsAnswer
    <3> QED BY <3>1, <3>2
  <2> QED
    BY <1>1, <1>2, <1>3, <2>1, <2>3, <2>4, <2>5
       DEF FactoryIInv, FactoryTypeOK, Registrations, Made!NeverInvalid,
           Made!EndsOnlyByMisuse
<1> QED BY <1>4, <1>5

\* Who answers is the same after a step that only launches, calls or ends.
LEMMA SameAnswers ==
  ASSUME Made!EarlyRegistrationsAnswer, UNCHANGED <<target, programOptions, services, early>>,
         stage \in {"built", "launched"}
  PROVE  Made!EarlyRegistrationsAnswer'
<1>1. Made!IgnoresRegistrator' = Made!IgnoresRegistrator
  BY DEF Made!IgnoresRegistrator, Made!Kind
<1> QED BY <1>1 DEF Made!EarlyRegistrationsAnswer

LEMMA LaunchTells == FactoryIInv /\ Made!Launch => FactoryIInv'
<1> SUFFICES ASSUME FactoryIInv, Made!Launch PROVE FactoryIInv'
  OBVIOUS
<1>1. /\ stage = "built" /\ serves = "none"
      /\ UNCHANGED <<target, programOptions, applied, services, early, calling>>
  BY DEF Made!Launch, FactoryIInv, Registrations
<1>2. OptionsTell' /\ Made!EarlyRegistrationsAnswer'
  BY <1>1, SameOptions, SameAnswers DEF FactoryIInv
<1>3. Made!Transport \in {"plain", "tls", "xds"}
  <2>1. programOptions.tls # "nil" \/ programOptions.isPlainText
    BY DEF FactoryIInv, OptionsTell, Speaks
  <2> QED BY <2>1 DEF Made!Transport, Made!Kind
<1>4. CASE programOptions.logger = "nil" /\ Made!Kind # "traffic-director"
  <2>1. stage' = "panicked" /\ UNCHANGED serves BY <1>4 DEF Made!Launch
  <2> QED
    BY <1>1, <1>2, <1>4, <2>1
       DEF FactoryIInv, FactoryTypeOK, Registrations, Made!NeverInvalid, Made!EndsOnlyByMisuse
<1>5. CASE ~(programOptions.logger = "nil" /\ Made!Kind # "traffic-director")
  <2>1. stage' = "launched" /\ serves' = Made!Transport BY <1>5 DEF Made!Launch
  <2> QED
    BY <1>1, <1>2, <1>3, <2>1
       DEF FactoryIInv, FactoryTypeOK, Registrations, Made!NeverInvalid, Made!EndsOnlyByMisuse
<1> QED BY <1>4, <1>5

LEMMA LateRegisterTells ==
  ASSUME FactoryIInv, NEW s \in Made!Services, Made!LateRegisterService(s)
  PROVE  FactoryIInv'
<1>1. /\ stage = "launched" /\ serves # "none"
      /\ UNCHANGED <<target, programOptions, applied, early, serves, calling>>
  BY DEF Made!LateRegisterService, FactoryIInv, Registrations
<1>2. OptionsTell' BY <1>1, SameOptions DEF FactoryIInv
<1>3. CASE stage' = "exited" /\ UNCHANGED services
  BY <1>1, <1>2, <1>3
     DEF FactoryIInv, FactoryTypeOK, Registrations, Made!NeverInvalid,
         Made!EarlyRegistrationsAnswer, Made!EndsOnlyByMisuse
<1>4. CASE /\ Made!Kind = "standard" /\ services[s] = "nobody"
           /\ services' = [services EXCEPT ![s] = "program"] /\ UNCHANGED stage
  <2>1. services' \in [Made!Services -> {"nobody", "program", "check", "static", "package"}]
    BY <1>4 DEF FactoryIInv, FactoryTypeOK
  <2>2. \A t \in Made!Services : early'[t] > 0 => services'[t] = "program"
    BY <1>1, <1>4 DEF FactoryIInv, FactoryTypeOK, Made!EarlyRegistrationsAnswer
  <2>3. programOptions.registrator => services["app"] = "program"
    BY <1>1, <1>4 DEF FactoryIInv, Made!EarlyRegistrationsAnswer, Made!IgnoresRegistrator
  <2>4. programOptions'.registrator => services'["app"] = "program"
    BY <1>1, <1>4, <2>3 DEF FactoryIInv, FactoryTypeOK, Made!Services
  <2>5. ~Made!IgnoresRegistrator'
    BY <1>1, <1>4 DEF Made!IgnoresRegistrator, Made!Kind
  <2> QED
    BY <1>1, <1>2, <1>4, <2>1, <2>2, <2>4, <2>5
       DEF FactoryIInv, FactoryTypeOK, Registrations, Made!NeverInvalid,
           Made!EarlyRegistrationsAnswer, Made!EndsOnlyByMisuse
<1> QED BY <1>3, <1>4 DEF Made!LateRegisterService

LEMMA FactoryNext == FactoryIInv /\ [Made!Next]_(Made!vars) => FactoryIInv'
<1> SUFFICES ASSUME FactoryIInv, [Made!Next]_(Made!vars) PROVE FactoryIInv'
  OBVIOUS
<1>1. CASE Made!Call
  <2>1. /\ stage = "launched" /\ calling' = ~calling
        /\ stage' = IF programOptions.logger = "nil" THEN "panicked" ELSE stage
        /\ UNCHANGED <<target, programOptions, applied, services, early, serves>>
    BY <1>1 DEF Made!Call
  <2>2. OptionsTell' /\ Made!EarlyRegistrationsAnswer'
    BY <2>1, SameOptions, SameAnswers DEF FactoryIInv
  <2>3. calling' \in BOOLEAN BY <2>1, Zenon
  <2> QED
    BY <2>1, <2>2, <2>3
       DEF FactoryIInv, FactoryTypeOK, Registrations, Made!NeverInvalid, Made!EndsOnlyByMisuse
<1>2. CASE UNCHANGED Made!vars
  <2>1. UNCHANGED <<target, programOptions, applied, stage, services, early, serves, calling>>
    BY <1>2 DEF Made!vars
  <2>2. OptionsTell' BY <2>1, SameOptions DEF FactoryIInv
  <2>3. Made!EarlyRegistrationsAnswer' /\ Made!EndsOnlyByMisuse'
    BY <2>1
       DEF FactoryIInv, Made!EarlyRegistrationsAnswer, Made!IgnoresRegistrator, Made!Kind,
           Made!EndsOnlyByMisuse, Made!ChainPanics
  <2> QED
    BY <2>1, <2>2, <2>3
       DEF FactoryIInv, FactoryTypeOK, Registrations, Made!NeverInvalid
<1> QED
  BY <1>1, <1>2, GiveOptionTells, BuildTells, RegisterTells, LaunchTells, LateRegisterTells
     DEF Made!Next

\* Whatever options a program gives, in whatever order, and whatever it registers: the
\* server speaks what the last option of the transport said, it is never left without
\* one; what was registered before Launch answers, but for the option of a traffic
\* director server; and only misuse, or a chain of interceptors, ends the process
\* (server/options.go:58-316, server/factory/factory.go:12-39).
THEOREM FactoryInvHolds == Made!Spec => []FactoryInv
<1>1. ASSUME FactoryIInv PROVE Made!LastTransportWins
  <2> DEFINE given == {i \in DOMAIN applied : applied[i] \in {"secure", "insecure", "plain"}}
             last == IF given = {} THEN "plain"
                     ELSE applied[CHOOSE i \in given : \A j \in given : j <= i]
  <2>1. given = Gave(Transports) BY DEF Gave, Transports
  <2>2. Speaks(programOptions, last)
    <3>1. CASE given = {} BY <1>1, <2>1, <3>1 DEF FactoryIInv, OptionsTell
    <3>2. CASE given # {}
      <4>1. PICK i \in given : Speaks(programOptions, applied[i]) /\ \A j \in given : j <= i
        BY <1>1, <2>1, <3>2 DEF FactoryIInv, OptionsTell
      <4>2. given \subseteq Nat
        BY <1>1, LenProperties DEF FactoryIInv, FactoryTypeOK
      <4> HIDE DEF given
      <4>3. \A k \in given : (\A j \in given : j <= k) => k = i BY <4>1, <4>2
      <4>4. (CHOOSE k \in given : \A j \in given : j <= k) = i BY <4>1, <4>3
      <4> QED BY <3>2, <4>1, <4>4
    <3> QED BY <3>1, <3>2
  <2> HIDE DEF last
  <2>3. /\ programOptions.isPlainText <=> last = "plain"
        /\ programOptions.tls = CASE last = "plain" -> "nil" [] last = "secure" -> "given"
                                  [] last = "insecure" -> "self-signed"
    BY <2>2 DEF Speaks
  <2> QED BY <2>3 DEF Made!LastTransportWins, last
<1>2. FactoryTypeOK => Made!TypeOK BY Zenon DEF FactoryTypeOK, ServerOptions, Made!TypeOK
<1>3. FactoryIInv => FactoryInv BY <1>1, <1>2 DEF FactoryIInv, FactoryInv
<1> QED BY <1>3, FactoryInit, FactoryNext, PTL DEF Made!Spec

-----------------------------------------------------------------------------
(* Tracing: where each step is, and what is known after so many of them       *)

\* The names of the steps.
StepNames == {"TraceContext", "Random", "Baggage", "CloudTrace", "span", "zap", "log", "tracing"}

\* Where in Steps each is: the span after the propagators, the others after it.
SpanAt(c) == IF c.propagators = "package" THEN 5 ELSE 2
ZapAt(c) == SpanAt(c) + (IF c.tracing = "pre" THEN 2 ELSE 1)
LogAt(c) == IF c.kind = "standard" THEN ZapAt(c) + 1 ELSE ZapAt(c)
LastAt(c) == IF c.tracing = "post" THEN LogAt(c) + 1 ELSE LogAt(c)

StepAt(c, i) ==
    IF i = SpanAt(c) THEN "span"
    ELSE IF i > SpanAt(c)
         THEN IF i = LogAt(c) THEN "log"
              ELSE IF c.kind = "standard" /\ i = ZapAt(c) THEN "zap" ELSE "tracing"
    ELSE IF i = 1 THEN "TraceContext"
    ELSE IF i = 2 THEN "Random"
    ELSE IF i = 3 THEN "Baggage" ELSE "CloudTrace"

\* w is x, y and z one after the other.
Joined(w, x, y, z) ==
    /\ w = x \o y \o z /\ Len(w) = Len(x) + Len(y) + Len(z)
    /\ \A i \in 1 .. Len(x) + Len(y) + Len(z) :
          w[i] = IF i <= Len(x) THEN x[i]
                 ELSE IF i <= Len(x) + Len(y) THEN y[i - Len(x)]
                 ELSE z[i - (Len(x) + Len(y))]

LEMMA Concat3 ==
  ASSUME NEW S, NEW x \in Seq(S), NEW y \in Seq(S), NEW z \in Seq(S)
  PROVE  \E w \in Seq(S) : Joined(w, x, y, z)
<1>1. Len(x) \in Nat /\ Len(y) \in Nat /\ Len(z) \in Nat BY LenProperties
<1>2. PICK v \in Seq(S) :
         /\ v = x \o y /\ Len(v) = Len(x) + Len(y)
         /\ \A i \in 1 .. Len(x) + Len(y) : v[i] = IF i <= Len(x) THEN x[i] ELSE y[i - Len(x)]
  <2>1. /\ x \o y \in Seq(S) /\ Len(x \o y) = Len(x) + Len(y)
        /\ \A i \in 1 .. Len(x) + Len(y) :
              (x \o y)[i] = IF i <= Len(x) THEN x[i] ELSE y[i - Len(x)]
    BY ConcatProperties
  <2> QED BY <2>1, Zenon
<1>3. PICK w \in Seq(S) :
         /\ w = v \o z /\ Len(w) = Len(v) + Len(z)
         /\ \A i \in 1 .. Len(v) + Len(z) : w[i] = IF i <= Len(v) THEN v[i] ELSE z[i - Len(v)]
  <2>1. /\ v \o z \in Seq(S) /\ Len(v \o z) = Len(v) + Len(z)
        /\ \A i \in 1 .. Len(v) + Len(z) :
              (v \o z)[i] = IF i <= Len(v) THEN v[i] ELSE z[i - Len(v)]
    BY ConcatProperties
  <2> QED BY <2>1, Zenon
<1>4. ASSUME NEW i \in 1 .. Len(x) + Len(y) + Len(z)
      PROVE  w[i] = IF i <= Len(x) THEN x[i]
                    ELSE IF i <= Len(x) + Len(y) THEN y[i - Len(x)]
                    ELSE z[i - (Len(x) + Len(y))]
  <2>1. /\ w[i] = IF i <= Len(x) + Len(y) THEN v[i] ELSE z[i - (Len(x) + Len(y))]
        /\ i <= Len(x) + Len(y) => v[i] = IF i <= Len(x) THEN x[i] ELSE y[i - Len(x)]
    BY <1>1, <1>2, <1>3
  <2> QED BY <1>1, <2>1
<1>5. w = x \o y \o z BY <1>2, <1>3
<1>6. Joined(w, x, y, z) BY <1>2, <1>3, <1>4, <1>5 DEF Joined
<1> QED BY <1>6

\* The interceptors: zap and the log of a standard server, the log alone of the other, and
\* the tracing that the program put before or after them.
LEMMA InterceptorsAre ==
  ASSUME NEW c \in Trace!Servers
  PROVE  /\ Trace!Interceptors(c) \in Seq(StepNames)
         /\ Len(Trace!Interceptors(c)) = LastAt(c) - SpanAt(c)
         /\ \A i \in 1 .. LastAt(c) - SpanAt(c) :
               Trace!Interceptors(c)[i] = StepAt(c, SpanAt(c) + i)
<1> DEFINE x == IF c.tracing = "pre" THEN <<"tracing">> ELSE <<>>
           y == IF c.kind = "standard" THEN <<"zap", "log">> ELSE <<"log">>
           z == IF c.tracing = "post" THEN <<"tracing">> ELSE <<>>
<1>1. /\ c.kind \in {"standard", "traffic-director"} /\ c.tracing \in {"none", "pre", "post"}
  BY DEF Trace!Servers
<1>2. /\ x \in Seq(StepNames) /\ Len(x) = IF c.tracing = "pre" THEN 1 ELSE 0
      /\ c.tracing = "pre" => x[1] = "tracing"
  <2>1. <<"tracing">> \in Seq(StepNames) /\ <<>> \in Seq(StepNames) BY DEF StepNames
  <2>2. CASE c.tracing = "pre" BY <2>1, <2>2
  <2>3. CASE c.tracing # "pre" BY <2>1, <2>3
  <2> QED BY <2>2, <2>3
<1>3. /\ y \in Seq(StepNames) /\ Len(y) = IF c.kind = "standard" THEN 2 ELSE 1
      /\ c.kind = "standard" => y[1] = "zap" /\ y[2] = "log"
      /\ c.kind # "standard" => y[1] = "log"
  <2>1. \A a, b \in StepNames : <<a, b>> \in Seq(StepNames) OBVIOUS
  <2>2. "zap" \in StepNames /\ "log" \in StepNames BY DEF StepNames
  <2> QED BY <2>1, <2>2
<1>4. /\ z \in Seq(StepNames) /\ Len(z) = IF c.tracing = "post" THEN 1 ELSE 0
      /\ c.tracing = "post" => z[1] = "tracing"
  <2>1. <<"tracing">> \in Seq(StepNames) /\ <<>> \in Seq(StepNames) BY DEF StepNames
  <2>2. CASE c.tracing = "post" BY <2>1, <2>2
  <2>3. CASE c.tracing # "post" BY <2>1, <2>3
  <2> QED BY <2>2, <2>3
<1>5. Trace!Interceptors(c) = x \o y \o z BY DEF Trace!Interceptors
<1> HIDE DEF x, y, z
<1>6. SpanAt(c) \in {2, 5} BY DEF SpanAt
<1>7. Len(x) + Len(y) + Len(z) = LastAt(c) - SpanAt(c)
  BY <1>1, <1>2, <1>3, <1>4, <1>6 DEF LastAt, LogAt, ZapAt
<1>8. PICK w \in Seq(StepNames) : Joined(w, x, y, z)
  <2>1. x \in Seq(StepNames) /\ y \in Seq(StepNames) /\ z \in Seq(StepNames)
    BY <1>2, <1>3, <1>4
  <2> QED BY <2>1, Concat3, Zenon
<1>9. ASSUME NEW i \in 1 .. LastAt(c) - SpanAt(c)
      PROVE  w[i] = StepAt(c, SpanAt(c) + i)
  <2>1. w[i] = IF i <= Len(x) THEN x[i]
               ELSE IF i <= Len(x) + Len(y) THEN y[i - Len(x)]
               ELSE z[i - (Len(x) + Len(y))]
    BY <1>7, <1>8 DEF Joined
  <2>2. SpanAt(c) + i # SpanAt(c) /\ SpanAt(c) + i > SpanAt(c) BY <1>6
  <2>3. StepAt(c, SpanAt(c) + i) =
           IF SpanAt(c) + i = LogAt(c) THEN "log"
           ELSE IF c.kind = "standard" /\ SpanAt(c) + i = ZapAt(c) THEN "zap" ELSE "tracing"
    BY <2>2 DEF StepAt
  <2>4. CASE c.tracing = "pre"
    BY <1>1, <1>2, <1>3, <1>4, <1>6, <2>1, <2>3, <2>4 DEF LastAt, LogAt, ZapAt
  <2>5. CASE c.tracing = "post"
    BY <1>1, <1>2, <1>3, <1>4, <1>6, <2>1, <2>3, <2>5 DEF LastAt, LogAt, ZapAt
  <2>6. CASE c.tracing = "none"
    BY <1>1, <1>2, <1>3, <1>4, <1>6, <2>1, <2>3, <2>6 DEF LastAt, LogAt, ZapAt
  <2> QED BY <1>1, <2>4, <2>5, <2>6
<1> QED BY <1>5, <1>7, <1>8, <1>9 DEF Joined

LEMMA StepsAre ==
  ASSUME NEW c \in Trace!Servers
  PROVE  /\ Trace!Steps(c) \in Seq(StepNames) /\ Len(Trace!Steps(c)) = LastAt(c)
         /\ \A i \in 1 .. LastAt(c) : Trace!Steps(c)[i] = StepAt(c, i)
<1> DEFINE x == IF c.propagators = "package" THEN Trace!Propagators ELSE <<"TraceContext">>
           y == <<"span">>
           z == Trace!Interceptors(c)
<1>1. /\ SpanAt(c) \in {2, 5} /\ (SpanAt(c) = 5 <=> c.propagators = "package")
      /\ LastAt(c) \in Nat /\ LastAt(c) > SpanAt(c)
  BY DEF SpanAt, ZapAt, LogAt, LastAt
<1>2. /\ x \in Seq(StepNames) /\ Len(x) = SpanAt(c) - 1
      /\ x[1] = "TraceContext"
      /\ SpanAt(c) = 5 => x[2] = "Random" /\ x[3] = "Baggage" /\ x[4] = "CloudTrace"
  <2>1. \A a, b, d, e \in StepNames : <<a, b, d, e>> \in Seq(StepNames) OBVIOUS
  <2>2. /\ "TraceContext" \in StepNames /\ "Random" \in StepNames /\ "Baggage" \in StepNames
        /\ "CloudTrace" \in StepNames
    BY DEF StepNames
  <2>3. CASE c.propagators = "package" BY <2>1, <2>2, <2>3 DEF SpanAt, Trace!Propagators
  <2>4. CASE c.propagators # "package" BY <2>2, <2>4 DEF SpanAt
  <2> QED BY <2>3, <2>4
<1>3. y \in Seq(StepNames) /\ Len(y) = 1 /\ y[1] = "span" BY DEF StepNames
<1>4. /\ z \in Seq(StepNames) /\ Len(z) = LastAt(c) - SpanAt(c)
      /\ \A i \in 1 .. LastAt(c) - SpanAt(c) : z[i] = StepAt(c, SpanAt(c) + i)
  BY InterceptorsAre
<1>5. Trace!Steps(c) = x \o y \o z BY DEF Trace!Steps
<1> HIDE DEF x, y, z
<1>6. Len(x) + Len(y) + Len(z) = LastAt(c) BY <1>1, <1>2, <1>3, <1>4
<1>7. PICK w \in Seq(StepNames) : Joined(w, x, y, z)
  <2>1. x \in Seq(StepNames) /\ y \in Seq(StepNames) /\ z \in Seq(StepNames)
    BY <1>2, <1>3, <1>4
  <2> QED BY <2>1, Concat3, Zenon
<1>8. ASSUME NEW i \in 1 .. LastAt(c)
      PROVE  w[i] = StepAt(c, i)
  <2>1. CASE i < SpanAt(c)
    <3>1. w[i] = x[i] BY <1>1, <1>2, <1>6, <1>7, <2>1 DEF Joined
    <3>2. CASE SpanAt(c) = 2
      <4>1. i = 1 BY <2>1, <3>2
      <4> QED BY <1>2, <3>1, <3>2, <4>1 DEF StepAt
    <3>3. CASE SpanAt(c) = 5
      <4>1. i \in {1, 2, 3, 4} BY <2>1, <3>3
      <4>2. x[i] = IF i = 1 THEN "TraceContext" ELSE IF i = 2 THEN "Random"
                   ELSE IF i = 3 THEN "Baggage" ELSE "CloudTrace"
        BY <1>2, <3>3, <4>1
      <4> QED BY <3>1, <3>3, <4>1, <4>2 DEF StepAt
    <3> QED BY <1>1, <3>2, <3>3
  <2>2. CASE i = SpanAt(c)
    <3>1. w[i] = y[1] BY <1>1, <1>2, <1>3, <1>6, <1>7, <2>2 DEF Joined
    <3> QED BY <1>3, <2>2, <3>1 DEF StepAt
  <2>3. CASE i > SpanAt(c)
    <3>1. w[i] = z[i - SpanAt(c)] /\ i - SpanAt(c) \in 1 .. LastAt(c) - SpanAt(c)
      BY <1>1, <1>2, <1>3, <1>6, <1>7, <2>3 DEF Joined
    <3>2. SpanAt(c) + (i - SpanAt(c)) = i BY <1>1
    <3> QED BY <1>4, <3>1, <3>2
  <2> QED BY <1>1, <2>1, <2>2, <2>3
<1> QED BY <1>5, <1>6, <1>7, <1>8 DEF Joined

-----------------------------------------------------------------------------
TracingTypeOK ==
    /\ traced \in Trace!Incoming /\ tracing \in Trace!Servers
    /\ traceID \in Trace!IDs /\ logged \in Trace!IDs /\ fields \in Trace!IDs \cup {"noZap"}

\* n steps are done.
Done(n) == todo = SubSeq(Trace!Steps(tracing), n + 1, LastAt(tracing))

\* What the context holds after n steps, when the package's propagators are in place.
ContextAfter(n, c, r, id) ==
    c.propagators = "package" =>
        /\ n = 0 => id = "none"
        /\ n = 1 => id = IF r.traceparent THEN "traceparent" ELSE "none"
        /\ n \in {2, 3} => id = IF r.traceparent THEN "traceparent" ELSE "random"
        /\ n >= 4 =>
              \/ id = IF r.cloud THEN "cloud" ELSE IF r.traceparent THEN "traceparent" ELSE "random"
              \/ c.tracing # "none" /\ c.override

\* What the access line and the contextual logger have.
LogsAfter(n, c, id, log, line) ==
    /\ line # "noZap" <=> c.kind = "standard" /\ n >= ZapAt(c)
    /\ line \in {"noZap", "none"} \/ (n = LastAt(c) /\ line = id)
    /\ n >= LogAt(c) =>
          \/ log = id
          \/ c.tracing = "post" /\ n > LogAt(c) /\ (c.override \/ log = "none")

After(n) ==
    /\ Done(n)
    /\ ContextAfter(n, tracing, traced, traceID)
    /\ LogsAfter(n, tracing, traceID, logged, fields)

TracingIInv == TracingTypeOK /\ \E n \in 0 .. LastAt(tracing) : After(n)

LEMMA Positions ==
  ASSUME NEW c \in Trace!Servers
  PROVE  /\ SpanAt(c) \in {2, 5} /\ (SpanAt(c) = 5 <=> c.propagators = "package")
         /\ ZapAt(c) = SpanAt(c) + (IF c.tracing = "pre" THEN 2 ELSE 1)
         /\ LogAt(c) = ZapAt(c) + (IF c.kind = "standard" THEN 1 ELSE 0)
         /\ LastAt(c) = LogAt(c) + (IF c.tracing = "post" THEN 1 ELSE 0)
         /\ c.tracing \in {"none", "pre", "post"} /\ c.kind \in {"standard", "traffic-director"}
BY DEF SpanAt, ZapAt, LogAt, LastAt, Trace!Servers

LEMMA TracingInit == Trace!Init => TracingIInv
<1> SUFFICES ASSUME Trace!Init PROVE TracingIInv
  OBVIOUS
<1>1. /\ tracing \in Trace!Servers /\ todo = Trace!Steps(tracing)
      /\ traceID = "none" /\ fields = "noZap"
  BY DEF Trace!Init
<1>0. /\ SpanAt(tracing) \in {2, 5} /\ ZapAt(tracing) \in Nat /\ LogAt(tracing) \in Nat
      /\ LastAt(tracing) \in Nat /\ ZapAt(tracing) > 2 /\ LogAt(tracing) > 2
  BY <1>1, Positions
<1>2. Done(0)
  <2>1. Trace!Steps(tracing) \in Seq(StepNames) /\ Len(Trace!Steps(tracing)) = LastAt(tracing)
    BY <1>1, StepsAre
  <2>2. SubSeq(Trace!Steps(tracing), 1, LastAt(tracing)) = Trace!Steps(tracing)
    BY <2>1, SubSeqFull
  <2>3. 0 + 1 = 1 OBVIOUS
  <2> QED BY <1>1, <2>2, <2>3, Zenon DEF Done
<1>3. TracingTypeOK BY DEF Trace!Init, TracingTypeOK, Trace!IDs
<1>4. LogsAfter(0, tracing, traceID, logged, fields)
  <2>1. ~(0 >= ZapAt(tracing)) /\ ~(0 >= LogAt(tracing)) BY <1>0
  <2> QED BY <1>1, <2>1 DEF LogsAfter
<1>5. ContextAfter(0, tracing, traced, traceID)
  <2>1. traceID = "none" /\ 0 # 1 /\ 0 \notin {2, 3} /\ ~(0 >= 4) BY <1>1
  <2> QED BY ONLY <2>1 DEF ContextAfter
<1>6. 0 \in 0 .. LastAt(tracing) BY <1>0
<1> QED BY <1>2, <1>3, <1>4, <1>5, <1>6 DEF TracingIInv, After

\* A step takes the next name.
LEMMA TakesNext ==
  ASSUME TracingTypeOK, NEW n \in 0 .. LastAt(tracing), Done(n), NEW step, Trace!Takes(step)
  PROVE  /\ n + 1 \in 1 .. LastAt(tracing) /\ StepAt(tracing, n + 1) = step
         /\ Done(n + 1)' /\ UNCHANGED <<traced, tracing>>
<1> DEFINE s == Trace!Steps(tracing)
           last == LastAt(tracing)
<1>0. tracing \in Trace!Servers BY DEF TracingTypeOK
<1>1. /\ todo # <<>> /\ Head(todo) = step /\ todo' = Tail(todo) /\ UNCHANGED <<traced, tracing>>
  BY DEF Trace!Takes
<1>2. s \in Seq(StepNames) /\ Len(s) = last /\ \A i \in 1 .. last : s[i] = StepAt(tracing, i)
  BY <1>0, StepsAre
<1>3. last \in Nat BY <1>0, Positions
<1>4. todo = SubSeq(s, n + 1, last) BY DEF Done
<1> HIDE DEF s, last
<1>5. n < last
  <2>1. CASE n = last
    <3>1. n + 1 \in Int /\ last \in Int /\ last < n + 1 BY <1>3, <2>1
    <3>2. todo = <<>> BY <1>4, <3>1, SubSeqEmpty
    <3> QED BY <1>1, <3>2
  <2> QED BY <1>3, <2>1 DEF last
<1>6. n + 1 \in 1 .. Len(s) /\ last \in n + 1 .. Len(s) BY <1>2, <1>3, <1>5
<1>7. Head(todo) = s[n + 1] /\ Tail(todo) = SubSeq(s, (n + 1) + 1, last)
  BY <1>2, <1>4, <1>6, HeadTailOfSubSeq
<1>8. Done(n + 1)'
  BY <1>1, <1>7
     DEF Done, s, last, Trace!Steps, Trace!Interceptors, LastAt, LogAt, ZapAt, SpanAt
<1> QED BY <1>1, <1>2, <1>6, <1>7, <1>8 DEF last

LEMMA TracingNext == TracingIInv /\ [Trace!Next]_(Trace!vars) => TracingIInv'
<1> SUFFICES ASSUME TracingIInv, [Trace!Next]_(Trace!vars) PROVE TracingIInv'
  OBVIOUS
<1>1. PICK n \in 0 .. LastAt(tracing) : After(n) BY DEF TracingIInv
<1>2. /\ TracingTypeOK /\ Done(n) /\ ContextAfter(n, tracing, traced, traceID)
      /\ LogsAfter(n, tracing, traceID, logged, fields)
  BY <1>1 DEF TracingIInv, After
<1>3. tracing \in Trace!Servers BY <1>2 DEF TracingTypeOK
<1>4. /\ SpanAt(tracing) \in {2, 5} /\ (SpanAt(tracing) = 5 <=> tracing.propagators = "package")
      /\ ZapAt(tracing) = SpanAt(tracing) + (IF tracing.tracing = "pre" THEN 2 ELSE 1)
      /\ LogAt(tracing) = ZapAt(tracing) + (IF tracing.kind = "standard" THEN 1 ELSE 0)
      /\ LastAt(tracing) = LogAt(tracing) + (IF tracing.tracing = "post" THEN 1 ELSE 0)
      /\ tracing.tracing \in {"none", "pre", "post"}
      /\ tracing.kind \in {"standard", "traffic-director"}
  BY <1>3, Positions
\* The position of a step, and what the state after it must be.
<1>5. ASSUME NEW step, Trace!Takes(step)
      PROVE  n + 1 \in 1 .. LastAt(tracing) /\ StepAt(tracing, n + 1) = step
  BY <1>2, <1>5, TakesNext
<1>6. ASSUME NEW step, Trace!Takes(step),
             traceID' \in Trace!IDs, logged' \in Trace!IDs, fields' \in Trace!IDs \cup {"noZap"},
             ContextAfter(n + 1, tracing, traced, traceID'),
             LogsAfter(n + 1, tracing, traceID', logged', fields')
      PROVE  TracingIInv'
  <2>1. /\ n + 1 \in 1 .. LastAt(tracing) /\ Done(n + 1)' /\ UNCHANGED <<traced, tracing>>
    BY <1>2, <1>6, TakesNext
  <2>2. LastAt(tracing)' = LastAt(tracing) BY <2>1 DEF LastAt, LogAt, ZapAt, SpanAt
  <2>3. /\ ContextAfter(n + 1, tracing, traced, traceID)'
        /\ LogsAfter(n + 1, tracing, traceID, logged, fields)'
    BY <1>6, <2>1 DEF ContextAfter, LogsAfter, LastAt, LogAt, ZapAt, SpanAt
  <2>4. After(n + 1)' BY <2>1, <2>3 DEF After
  <2>5. TracingTypeOK' BY <1>2, <1>6, <2>1 DEF TracingTypeOK
  <2> QED BY <2>1, <2>2, <2>4, <2>5 DEF TracingIInv
<1>7. /\ traceID \in Trace!IDs /\ logged \in Trace!IDs /\ fields \in Trace!IDs \cup {"noZap"}
      /\ \A id \in {"none", "traceparent", "cloud", "random", "span", "override"} : id \in Trace!IDs
  BY <1>2 DEF TracingTypeOK, Trace!IDs
<1>8. CASE Trace!ExtractTraceContext
  <2>1. /\ Trace!Takes("TraceContext") /\ UNCHANGED <<logged, fields>>
        /\ traceID' = IF traced.traceparent THEN "traceparent" ELSE traceID
    BY <1>8 DEF Trace!ExtractTraceContext
  <2>2. n = 0 BY <1>4, <1>5, <2>1 DEF StepAt
  <2>3. ContextAfter(n + 1, tracing, traced, traceID') BY <1>2, <2>1, <2>2 DEF ContextAfter
  <2>4. LogsAfter(n + 1, tracing, traceID', logged', fields')
    BY <1>2, <1>4, <2>1, <2>2 DEF LogsAfter
  <2> QED BY <1>6, <1>7, <2>1, <2>3, <2>4
<1>9. CASE Trace!ExtractRandom
  <2>1. /\ Trace!Takes("Random") /\ UNCHANGED <<logged, fields>>
        /\ traceID' = IF traceID = "none" THEN "random" ELSE traceID
    BY <1>9 DEF Trace!ExtractRandom
  <2>2. n = 1 /\ SpanAt(tracing) = 5 BY <1>4, <1>5, <2>1 DEF StepAt
  <2>3. ContextAfter(n + 1, tracing, traced, traceID') BY <1>2, <2>1, <2>2 DEF ContextAfter
  <2>4. LogsAfter(n + 1, tracing, traceID', logged', fields')
    BY <1>2, <1>4, <2>1, <2>2 DEF LogsAfter
  <2> QED BY <1>6, <1>7, <2>1, <2>3, <2>4
<1>10. CASE Trace!ExtractBaggage
  <2>1. Trace!Takes("Baggage") /\ UNCHANGED <<traceID, logged, fields>>
    BY <1>10 DEF Trace!ExtractBaggage
  <2>2. n = 2 /\ SpanAt(tracing) = 5 BY <1>4, <1>5, <2>1 DEF StepAt
  <2>3. ContextAfter(n + 1, tracing, traced, traceID') BY <1>2, <2>1, <2>2 DEF ContextAfter
  <2>4. LogsAfter(n + 1, tracing, traceID', logged', fields')
    BY <1>2, <1>4, <2>1, <2>2 DEF LogsAfter
  <2> QED BY <1>6, <1>7, <2>1, <2>3, <2>4
<1>11. CASE Trace!ExtractCloudTrace
  <2>1. /\ Trace!Takes("CloudTrace") /\ UNCHANGED <<logged, fields>>
        /\ traceID' = IF traced.cloud THEN "cloud" ELSE traceID
    BY <1>11 DEF Trace!ExtractCloudTrace
  <2>2. n = 3 /\ SpanAt(tracing) = 5 BY <1>4, <1>5, <2>1 DEF StepAt
  <2>3. ContextAfter(n + 1, tracing, traced, traceID') BY <1>2, <2>1, <2>2 DEF ContextAfter
  <2>4. LogsAfter(n + 1, tracing, traceID', logged', fields')
    BY <1>2, <1>4, <2>1, <2>2 DEF LogsAfter
  <2> QED BY <1>6, <1>7, <2>1, <2>3, <2>4
<1>12. CASE Trace!StartSpan
  <2>1. /\ Trace!Takes("span") /\ UNCHANGED <<logged, fields>>
        /\ traceID' = IF traceID = "none" /\ tracing.provider THEN "span" ELSE traceID
    BY <1>12 DEF Trace!StartSpan
  <2>2. n + 1 = SpanAt(tracing) BY <1>4, <1>5, <2>1 DEF StepAt
  <2>3. ContextAfter(n + 1, tracing, traced, traceID')
    BY <1>2, <1>4, <2>1, <2>2 DEF ContextAfter
  <2>4. LogsAfter(n + 1, tracing, traceID', logged', fields')
    BY <1>2, <1>4, <2>1, <2>2 DEF LogsAfter
  <2> QED BY <1>6, <1>7, <2>1, <2>3, <2>4
<1>13. CASE Trace!Zap
  <2>1. Trace!Takes("zap") /\ fields' = "none" /\ UNCHANGED <<traceID, logged>>
    BY <1>13 DEF Trace!Zap
  <2>2. n + 1 = ZapAt(tracing) /\ tracing.kind = "standard" BY <1>4, <1>5, <2>1 DEF StepAt
  <2>3. ContextAfter(n + 1, tracing, traced, traceID')
    BY <1>2, <1>4, <2>1, <2>2 DEF ContextAfter
  <2>4. LogsAfter(n + 1, tracing, traceID', logged', fields')
    BY <1>2, <1>4, <2>1, <2>2 DEF LogsAfter
  <2> QED BY <1>6, <1>7, <2>1, <2>3, <2>4
<1>14. CASE Trace!WithLogger
  <2>1. Trace!Takes("log") /\ logged' = traceID /\ UNCHANGED <<traceID, fields>>
    BY <1>14 DEF Trace!WithLogger
  <2>2. n + 1 = LogAt(tracing) BY <1>4, <1>5, <2>1 DEF StepAt
  <2>3. ContextAfter(n + 1, tracing, traced, traceID')
    BY <1>2, <1>4, <2>1, <2>2 DEF ContextAfter
  <2>4. LogsAfter(n + 1, tracing, traceID', logged', fields')
    BY <1>2, <1>4, <2>1, <2>2 DEF LogsAfter
  <2> QED BY <1>6, <1>7, <2>1, <2>3, <2>4
<1>15. CASE Trace!WithTraceID
  <2>1. /\ Trace!Takes("tracing") /\ UNCHANGED logged
        /\ traceID' = IF tracing.override THEN "override"
                      ELSE IF traceID = "none" THEN "random" ELSE traceID
        /\ fields' = IF fields = "noZap" THEN fields ELSE traceID'
    BY <1>15 DEF Trace!WithTraceID
  <2>2. \/ tracing.tracing = "pre" /\ n + 1 = SpanAt(tracing) + 1
        \/ tracing.tracing = "post" /\ n + 1 = LastAt(tracing)
    BY <1>4, <1>5, <2>1 DEF StepAt
  <2>3. ContextAfter(n + 1, tracing, traced, traceID')
    BY <1>2, <1>4, <2>1, <2>2 DEF ContextAfter
  <2>4. LogsAfter(n + 1, tracing, traceID', logged', fields')
    <3>1. CASE tracing.tracing = "pre" /\ n + 1 = SpanAt(tracing) + 1
      <4>1. n + 1 < ZapAt(tracing) /\ n + 1 < LogAt(tracing) /\ n < ZapAt(tracing)
        BY <1>4, <3>1
      <4>2. fields = "noZap" BY <1>2, <1>4, <4>1 DEF LogsAfter
      <4> QED BY <1>4, <2>1, <4>1, <4>2 DEF LogsAfter
    <3>2. CASE tracing.tracing = "post" /\ n + 1 = LastAt(tracing)
      <4>1. n >= LogAt(tracing) /\ ~(n > LogAt(tracing)) /\ n + 1 > LogAt(tracing)
        BY <1>4, <3>2
      <4>2. logged = traceID BY <1>2, <4>1 DEF LogsAfter
      <4>3. tracing.override \/ traceID' = logged \/ logged = "none" BY <2>1, <4>2
      <4>4. fields' \in {"noZap", traceID'} /\ (fields' # "noZap" <=> fields # "noZap")
        <5>1. traceID' # "noZap" BY <1>7, <2>1 DEF Trace!IDs
        <5> QED BY <2>1, <5>1
      <4>5. fields # "noZap" <=> tracing.kind = "standard" /\ n + 1 >= ZapAt(tracing)
        BY <1>2, <1>4, <4>1 DEF LogsAfter
      <4> QED BY <2>1, <3>2, <4>1, <4>3, <4>4, <4>5 DEF LogsAfter
    <3> QED BY <2>2, <3>1, <3>2
  <2> QED BY <1>6, <1>7, <2>1, <2>3, <2>4
<1>16. CASE UNCHANGED Trace!vars
  <2>1. UNCHANGED <<traced, tracing, todo, traceID, logged, fields>> BY <1>16 DEF Trace!vars
  <2>2. Trace!Steps(tracing)' = Trace!Steps(tracing) /\ LastAt(tracing)' = LastAt(tracing)
    BY <2>1 DEF Trace!Steps, Trace!Interceptors, LastAt, LogAt, ZapAt, SpanAt
  <2>3. Done(n)' BY <1>2, <2>1, <2>2 DEF Done
  <2>4. /\ ContextAfter(n, tracing, traced, traceID)'
        /\ LogsAfter(n, tracing, traceID, logged, fields)'
    BY <1>2, <2>1 DEF ContextAfter, LogsAfter, LastAt, LogAt, ZapAt, SpanAt
  <2>5. After(n)' BY <2>3, <2>4 DEF After
  <2>6. TracingTypeOK' BY <1>2, <2>1 DEF TracingTypeOK
  <2> QED BY <2>2, <2>5, <2>6 DEF TracingIInv
<1> QED
  BY <1>8, <1>9, <1>10, <1>11, <1>12, <1>13, <1>14, <1>15, <1>16 DEF Trace!Next

\* What is still to come after n steps.
LEMMA StillToCome ==
  ASSUME TracingTypeOK, NEW n \in 0 .. LastAt(tracing), Done(n)
  PROVE  /\ todo = SubSeq(Trace!Steps(tracing), n + 1, Len(Trace!Steps(tracing)))
         /\ Len(Trace!Steps(tracing)) = LastAt(tracing)
         /\ todo = <<>> => n = LastAt(tracing)
         /\ "zap" \in Trace!ToSet(todo) <=> tracing.kind = "standard" /\ n < ZapAt(tracing)
<1> DEFINE s == Trace!Steps(tracing)
           last == LastAt(tracing)
<1>1. tracing \in Trace!Servers BY DEF TracingTypeOK
<1>2. s \in Seq(StepNames) /\ Len(s) = last /\ \A i \in 1 .. last : s[i] = StepAt(tracing, i)
  BY <1>1, StepsAre
<1>3. last \in Nat BY <1>1, Positions
<1>4. todo = SubSeq(s, n + 1, last) BY DEF Done
<1>5. \A i \in 1 .. last :
         StepAt(tracing, i) = "zap" <=> tracing.kind = "standard" /\ i = ZapAt(tracing)
  BY <1>1, Positions DEF StepAt
<1>6. ZapAt(tracing) \in 1 .. last BY <1>1, Positions
<1> HIDE DEF s, last
<1>7. /\ todo \in Seq(StepNames) /\ Len(todo) = last - n
      /\ \A i \in 1 .. last - n : todo[i] = s[n + i]
  <2>1. n + 1 \in Int /\ last \in Int BY <1>3
  <2>2. \A i \in n + 1 .. last : s[i] \in StepNames BY <1>2, <1>3, ElementOfSeq
  <2>3. /\ todo \in Seq(StepNames)
        /\ Len(todo) = IF n + 1 <= last THEN last - (n + 1) + 1 ELSE 0
        /\ \A i \in 1 .. last - (n + 1) + 1 : todo[i] = s[n + 1 + i - 1]
    BY <1>4, <2>1, <2>2, SubSeqProperties
  <2> QED BY <1>3, <2>3 DEF last
<1>8. DOMAIN todo = 1 .. last - n BY <1>7, LenProperties
<1>9. "zap" \in Trace!ToSet(todo) <=> \E i \in 1 .. last - n : s[n + i] = "zap"
  BY <1>7, <1>8 DEF Trace!ToSet
<1>10. (\E i \in 1 .. last - n : s[n + i] = "zap") <=>
          tracing.kind = "standard" /\ n < ZapAt(tracing)
  <2>1. ASSUME NEW i \in 1 .. last - n, s[n + i] = "zap"
        PROVE  tracing.kind = "standard" /\ n < ZapAt(tracing)
    BY <1>2, <1>3, <1>5, <2>1
  <2>2. ASSUME tracing.kind = "standard", n < ZapAt(tracing)
        PROVE  \E i \in 1 .. last - n : s[n + i] = "zap"
    <3>1. ZapAt(tracing) - n \in 1 .. last - n /\ n + (ZapAt(tracing) - n) = ZapAt(tracing)
      BY <1>3, <1>6, <2>2
    <3>2. s[ZapAt(tracing)] = "zap" BY <1>2, <1>5, <1>6, <2>2
    <3> QED BY <3>1, <3>2
  <2> QED BY <2>1, <2>2
<1>11. todo = <<>> => n = last
  <2>1. Len(<<>>) = 0 OBVIOUS
  <2> QED BY <1>3, <1>7, <2>1
<1> QED BY <1>2, <1>4, <1>9, <1>10, <1>11 DEF s, last

\* For every server and every request: the identifier of the client reaches the handler
\* unless it is overridden, a fresh one otherwise, and the logs tell the same
\* (server/tracelog/tracelog.go:17-44, server/standard/tracing.go:55-97).
THEOREM TracingInvHolds == Trace!Spec => []TracingInv
<1>1. ASSUME TracingIInv PROVE TracingInv
  <2>1. PICK n \in 0 .. LastAt(tracing) :
           /\ Done(n) /\ ContextAfter(n, tracing, traced, traceID)
           /\ LogsAfter(n, tracing, traceID, logged, fields)
    BY <1>1 DEF TracingIInv, After
  <2>2. TracingTypeOK /\ tracing \in Trace!Servers BY <1>1 DEF TracingIInv, TracingTypeOK
  <2>3. /\ todo = SubSeq(Trace!Steps(tracing), n + 1, Len(Trace!Steps(tracing)))
        /\ Len(Trace!Steps(tracing)) = LastAt(tracing)
        /\ todo = <<>> => n = LastAt(tracing)
        /\ "zap" \in Trace!ToSet(todo) <=> tracing.kind = "standard" /\ n < ZapAt(tracing)
    BY <2>1, <2>2, StillToCome
  <2>4. LastAt(tracing) >= LogAt(tracing) /\ LastAt(tracing) >= 3
        /\ (tracing.propagators = "package" => LastAt(tracing) >= 4)
        /\ ZapAt(tracing) \in Nat
    BY <2>2, Positions
  <2>5. fields # "noZap" <=> tracing.kind = "standard" /\ "zap" \notin Trace!ToSet(todo)
    BY <2>1, <2>3, <2>4 DEF LogsAfter
  <2>6. Trace!TypeOK BY <2>2, <2>3, <2>5 DEF TracingTypeOK, Trace!TypeOK
  <2>7. Trace!ClientsIdentifierWins
    BY <2>1, <2>3, <2>4
       DEF Trace!ClientsIdentifierWins, Trace!Handled, Trace!Overridden, ContextAfter
  <2>8. Trace!LogsAgree
    BY <2>1, <2>3, <2>4 DEF Trace!LogsAgree, Trace!Handled, LogsAfter
  <2> QED BY <2>6, <2>7, <2>8 DEF TracingInv
<1> QED BY <1>1, TracingInit, TracingNext, PTL DEF Trace!Spec

=============================================================================
