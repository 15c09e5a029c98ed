------------------------------ MODULE Requests ------------------------------
(***************************************************************************)
(* The way of a request through a server: the layers that newGRPCServer,      *)
(* traffic_director.NewServer and connectrpc.New put around the program's     *)
(* handler, what each does on the way in and on the way out, and where a      *)
(* panic of the program's code ends.  Layers that neither end a request nor   *)
(* change its outcome (tags, metrics, tracing) are left out.                  *)
(***************************************************************************)
EXTENDS Logging, Sequences, FiniteSets

CONSTANTS
    Requests,   \* the requests in progress at a time
    Outcomes,   \* the codes the program's handlers and interceptors return
    Headers     \* the headers of requests, see HeaderFields

\* method is /grpc.health.v1.Health/Check, another one under /grpc.health (List,
\* Watch) or any other, encoding the header grpc-encoding, accepts says that some
\* header lists a supported compressor, and json that the content type ends with
\* "json" or is none of Connect and gRPC.
HeaderFields == [method : {"healthCheck", "health", "other"},
                 encoding : {"absent", "twice", "empty", "supported", "unsupported"},
                 accepts : BOOLEAN,
                 json : BOOLEAN]

ASSUME OutcomesAssumption == Outcomes \subseteq Codes
ASSUME HeadersAssumption == Headers \subseteq HeaderFields

VARIABLES
    server,     \* "standard", "trafficDirector" or "connect"
    options,    \* the options that matter here
    crashed,    \* a panic ended the process
    request,    \* what each client asked for
    at,         \* the layer each request is at: 0 before and after all layers
    way,        \* "idle", "in", "out", "replied" or "aborted"
    reply,      \* the reply so far: a code, and the layer it is by
    raised,     \* the layer whose code panicked, "none" if none did
    lines       \* the log lines of each request

vars == <<server, options, crashed, request, at, way, reply, raised, lines>>
config == <<server, options>>

Options == [enforce : BOOLEAN,      \* EnforceCompression
            strict : BOOLEAN,       \* ConnectWebStrictContentType
            errors : {"none", "first", "last"}, \* the ErrorsInterceptor among the extra ones
            verbosity : {2, 3}]     \* Verbosity

\* The options a server looks at; the others are left at their defaults.
OptionsOf(srv) ==
    {o \in Options :
        /\ srv # "standard" => ~o.enforce /\ o.verbosity = 3
        /\ srv # "connect" => ~o.strict /\ o.errors = "none"}

Kinds == {"unary", "stream"}
Layers == {"compression", "pre", "isolate", "zap", "contentType", "errors", "post", "handler"}
Program == {"pre", "errors", "post", "handler"}    \* the program's own code

NoReply == [code |-> "OK", by |-> "none"]
NoRequest == [kind |-> "unary", headers |-> [method |-> "other", encoding |-> "absent",
                                             accepts |-> FALSE, json |-> FALSE]]

-----------------------------------------------------------------------------
(* The layers, outermost first.                                              *)

If(b, layer, inner) == IF b THEN <<layer>> \o inner ELSE inner

\* Mutant: the panic isolation is added last.
StandardChain_IsolatesLast == <<"compression", "pre", "zap", "post", "isolate", "handler">>
StandardChain == <<"compression", "pre", "isolate", "zap", "post", "handler">>

TrafficDirectorChain == <<"pre", "post", "handler">>

\* The program's extra interceptors, of which the ErrorsInterceptor may be one.
ExtraChain ==
    CASE options.errors = "none"  -> <<"post", "handler">>
      [] options.errors = "first" -> <<"errors", "post", "handler">>
      [] options.errors = "last"  -> <<"post", "errors", "handler">>

\* IsolateRequestPanicInterceptor is a UnaryInterceptorFunc: streams pass by it.
ConnectChain(kind) ==
    If(kind = "unary", "isolate", If(options.strict, "contentType", ExtraChain))

Chain(kind) ==
    CASE server = "standard" -> StandardChain
      [] server = "trafficDirector" -> TrafficDirectorChain
      [] server = "connect" -> ConnectChain(kind)

Layer(r) == Chain(request[r].kind)[at[r]]

TypeOK ==
    /\ server \in {"standard", "trafficDirector", "connect"}
    /\ options \in Options
    /\ crashed \in BOOLEAN
    /\ request \in [Requests -> [kind : Kinds, headers : HeaderFields]]
    /\ at \in [Requests -> 0 .. 6]
    /\ way \in [Requests -> {"idle", "in", "out", "replied", "aborted"}]
    /\ reply \in [Requests -> [code : Codes \cup {"badRequest"}, by : Layers \cup {"none"}]]
    /\ raised \in [Requests -> Program \cup {"none"}]
    /\ lines \in [Requests -> Seq({"panic"} \cup Levels)]

Init ==
    /\ server \in {"standard", "trafficDirector", "connect"}
    /\ options \in OptionsOf(server)
    /\ crashed = FALSE
    /\ request = [r \in Requests |-> NoRequest]
    /\ at = [r \in Requests |-> 0]
    /\ way = [r \in Requests |-> "idle"]
    /\ reply = [r \in Requests |-> NoReply]
    /\ raised = [r \in Requests |-> "none"]
    /\ lines = [r \in Requests |-> <<>>]

-----------------------------------------------------------------------------
(* CompressionHandler                                                        *)

\* The prefix of the path that CompressionHandler looks at.
IsHealth(h) == h.method # "other"

\* Mutant: the option is not looked at.
Refuses_NeverEnforces(h) ==
    ~IsHealth(h) /\ h.encoding \in {"twice", "unsupported"}

\* A health check passes; a header grpc-encoding must be a single supported
\* one; without it, or with an empty one, some compressor must be acceptable if
\* compression is enforced.
Refuses(h) ==
    /\ ~IsHealth(h)
    /\ \/ h.encoding \in {"twice", "unsupported"}
       \/ h.encoding \in {"absent", "empty"} /\ ~h.accepts /\ options.enforce

\* The grpc-encoding that gRPC reads: the header added comes after an empty one.
Encoding(h) ==
    IF IsHealth(h) \/ h.encoding \in {"empty", "supported"} THEN h.encoding
    ELSE IF h.accepts THEN "supported" ELSE "identity"

-----------------------------------------------------------------------------
(* The way in                                                                *)

\* Health/Check is a unary method.
Arrive(r, k, h) ==
    /\ way[r] = "idle"
    /\ h.method = "healthCheck" => k = "unary"
    /\ way' = [way EXCEPT ![r] = "in"]
    /\ at' = [at EXCEPT ![r] = 1]
    /\ request' = [request EXCEPT ![r] = [kind |-> k, headers |-> h]]
    /\ UNCHANGED <<config, crashed, reply, raised, lines>>

EndWith(r, code) ==
    /\ way' = [way EXCEPT ![r] = "out"]
    /\ reply' = [reply EXCEPT ![r] = [code |-> code, by |-> Layer(r)]]
    /\ UNCHANGED <<config, crashed, request, at, raised, lines>>

RefuseCompression(r) ==
    /\ way[r] = "in" /\ Layer(r) = "compression"
    /\ Refuses(request[r].headers)
    /\ EndWith(r, "badRequest")

\* ContentTypeInterceptor: JSON is refused, allowed or not.
RefuseContentType(r) ==
    /\ way[r] = "in" /\ Layer(r) = "contentType"
    /\ request[r].headers.json
    /\ EndWith(r, "Unknown")

\* A handler answers; an interceptor of the program may, instead of going on.
Answer(r, code) ==
    /\ way[r] = "in" /\ Layer(r) \in {"pre", "post", "handler"}
    /\ EndWith(r, code)

GoOn(r) ==
    /\ way[r] = "in" /\ Layer(r) # "handler"
    /\ Layer(r) = "compression" => ~Refuses(request[r].headers)
    /\ Layer(r) = "contentType" => ~request[r].headers.json
    /\ at' = [at EXCEPT ![r] = @ + 1]
    /\ UNCHANGED <<config, crashed, request, way, reply, raised, lines>>

-----------------------------------------------------------------------------
(* The way out                                                               *)

\* obfuscateError: the codes whose message the client does not get.
\* Mutant: errors without a code pass.
Obfuscated_InternalOnly(code) == code = "Internal"
Obfuscated(code) == code \in {"Internal", "Unknown"}

\* Mutant: the decider goes by the prefix that CompressionHandler goes by.
AccessLine_NoHealth(r) ==
    IF IsHealth(request[r].headers) /\ reply[r].code = "OK" THEN <<>>
    ELSE <<CodeLevel(options.verbosity, reply[r].code)>>

\* defaultLoggingDecider: a Health/Check that went well is not logged; List and a
\* Watch that ends well are.
AccessLine(r) ==
    IF request[r].headers.method = "healthCheck" /\ reply[r].code = "OK" THEN <<>>
    ELSE <<CodeLevel(options.verbosity, reply[r].code)>>

\* What a layer may make of the reply: the program's interceptors what they like.
Replies(r) ==
    CASE Layer(r) \in {"pre", "post"} -> {reply[r]} \cup [code : Outcomes, by : {Layer(r)}]
      [] Layer(r) = "errors" /\ Obfuscated(reply[r].code) -> {[reply[r] EXCEPT !.by = "errors"]}
      [] OTHER -> {reply[r]}

Leave(r) ==
    /\ way[r] = "out"
    /\ lines' = IF Layer(r) = "zap" THEN [lines EXCEPT ![r] = @ \o AccessLine(r)] ELSE lines
    /\ \E new \in Replies(r) : reply' = [reply EXCEPT ![r] = new]
    /\ at' = [at EXCEPT ![r] = @ - 1]
    /\ way' = IF at[r] = 1 THEN [way EXCEPT ![r] = "replied"] ELSE way
    /\ UNCHANGED <<config, crashed, request, raised>>

-----------------------------------------------------------------------------
(* Panics                                                                    *)

\* The layers outside of the one a request is at that recover a panic.
Isolations(r) == {i \in 1 .. at[r] - 1 : Chain(request[r].kind)[i] = "isolate"}

RecoveredCode == "Internal"

\* A panic of the program's code (in the ErrorsInterceptor, its errorMapper) is
\* recovered by the isolation if there is one around, by net/http under connect,
\* which aborts the request, and by nobody in a goroutine of gRPC.
Panic(r) ==
    /\ way[r] \in {"in", "out"} /\ Layer(r) \in Program
    /\ Layer(r) = "handler" => way[r] = "in"
    /\ Layer(r) = "errors" => way[r] = "out" /\ reply[r].code # "OK"
    /\ raised' = [raised EXCEPT ![r] = Layer(r)]
    /\ IF Isolations(r) # {}
       THEN /\ at' = [at EXCEPT ![r] = CHOOSE i \in Isolations(r) : TRUE]
            /\ way' = [way EXCEPT ![r] = "out"]
            /\ reply' = [reply EXCEPT ![r] = [code |-> RecoveredCode, by |-> "isolate"]]
            /\ lines' = [lines EXCEPT ![r] = Append(@, "panic")]
            /\ UNCHANGED crashed
       ELSE /\ way' = [way EXCEPT ![r] = "aborted"]
            /\ crashed' = (server # "connect")
            /\ UNCHANGED <<at, reply, lines>>
    /\ UNCHANGED <<config, request>>

-----------------------------------------------------------------------------
Next ==
    /\ ~crashed
    /\ \E r \in Requests :
         \/ \E k \in Kinds, h \in Headers : Arrive(r, k, h)
         \/ RefuseCompression(r) \/ RefuseContentType(r)
         \/ \E code \in Outcomes : Answer(r, code)
         \/ GoOn(r) \/ Leave(r) \/ Panic(r)

Spec == Init /\ [][Next]_vars

-----------------------------------------------------------------------------
Replied(r) == way[r] = "replied"

\* Code that an isolation is around: what runs inside newGRPCServer's chain, and
\* the unary calls of connectrpc.
Shielded(r) ==
    \/ server = "standard" /\ raised[r] \in {"post", "handler"}
    \/ server = "connect" /\ request[r].kind = "unary"

\* A panic in shielded code ends its own request, with code Internal, and never
\* the process or another request; only a Pre interceptor, which is outside of the
\* isolation, can tell the client something else (server.go:381-383,
\* interceptors.go:35-90).
PanicsAreIsolated ==
    /\ crashed => \E r \in Requests : raised[r] # "none" /\ ~Shielded(r)
    /\ \A r \in Requests : Replied(r) /\ raised[r] # "none" =>
          reply[r].code = "Internal" \/ reply[r].by = "pre"

\* The reply of a standard server comes from behind the Pre interceptors and has
\* passed what logs it; Pre interceptors may still replace it.
PassedLogging(r) ==
    /\ way[r] \in {"out", "replied"}
    /\ at[r] <= 3
    /\ reply[r].by \notin {"compression", "pre"}

\* A call of a standard server leaves at most one line, and one that got past the
\* Pre interceptors leaves it: of the panic, or of the access log at the level of the
\* code that it ended with.  Only Health/Check is exempt, when it goes well
\* (server.go:356-448).
EndsAreLogged ==
    \A r \in Requests :
        server = "standard" =>
            /\ Len(lines[r]) <= 1
            /\ PassedLogging(r) =>
                lines[r] = IF reply[r].by = "isolate" THEN <<"panic">>
                           ELSE IF /\ request[r].headers.method = "healthCheck"
                                   /\ reply[r].code = "OK"
                           THEN <<>>
                           ELSE <<CodeLevel(options.verbosity, reply[r].code)>>

\* The layers outside of the ErrorsInterceptor, whose messages it does not see.
OutsideOfErrors ==
    {"isolate", "contentType"} \cup (IF options.errors = "last" THEN {"post"} ELSE {})

\* With an ErrorsInterceptor no client gets the message of an internal or
\* unknown error of the handler or of an interceptor given after it; only the
\* layers outside of it show theirs, and those are the isolation, the content type
\* check and interceptors that were given before it (error.go:41-110, server.go:75-93).
InternalErrorsAreGeneric ==
    \A r \in Requests :
        /\ server = "connect" /\ options.errors # "none"
        /\ Replied(r) /\ reply[r].code \in {"Internal", "Unknown"}
        => reply[r].by \in {"errors"} \cup OutsideOfErrors

\* When compression is enforced, what reaches gRPC names a compressor it has,
\* but for health checks and for a header grpc-encoding that is there and
\* empty, to which the server's choice is added in vain (compression.go:12-59).
EnforcedIsCompressed ==
    \A r \in Requests :
        server = "standard" /\ options.enforce /\ at[r] > 1 =>
            LET h == request[r].headers IN
            Encoding(h) = "supported" \/ IsHealth(h) \/ (h.encoding = "empty" /\ h.accepts)

\* With EnforceCompression what gRPC gets to see is compressed, and every variable of
\* the requests keeps its type (server/standard/compression.go:12-76).
RequestsInv == TypeOK /\ EnforcedIsCompressed
=============================================================================
