------------------------------- MODULE Tracing ------------------------------
(***************************************************************************)
(* server/tracelog, server/standard/tracing.go: the trace identifier of a     *)
(* request of the gRPC servers.  The propagators find or make it, each        *)
(* interceptor may change it or note it down: in the logger of the context,   *)
(* in the access line of grpc_zap.  Programs may put the interceptors of      *)
(* SetupTracingInterceptors before or after those of the package.  Unary      *)
(* calls and streams do the same, and the option OverrideTraceID nothing.     *)
(***************************************************************************)
EXTENDS Sequences, SequencesExt

VARIABLES
    request,    \* the headers that hold an identifier
    server,     \* the server, its options, and how the program set up tracing
    todo,       \* the propagators and interceptors still to come
    traceID,    \* the identifier in the context
    logged,     \* the identifier of the contextual logger
    fields      \* the identifier that the access line will have

vars == <<request, server, todo, traceID, logged, fields>>

\* An identifier is named for where it comes from; those made at random are all
\* different from each other and from those of clients.
IDs == {"none", "traceparent", "cloud", "random", "span", "override"}

Incoming == [traceparent : BOOLEAN, cloud : BOOLEAN]
Servers == [kind : {"standard", "traffic-director"},
            propagators : {"package", "program"},     \* otel.SetTextMapPropagator
            provider : BOOLEAN,                       \* otel.SetTracerProvider
            tracing : {"none", "pre", "post"}, override : BOOLEAN]

Propagators == <<"TraceContext", "Random", "Baggage", "CloudTrace">>

\* The interceptors that have to do with tracing, between those of the program.
Interceptors(s) ==
    (IF s.tracing = "pre" THEN <<"tracing">> ELSE <<>>)
    \o (IF s.kind = "standard" THEN <<"zap", "log">> ELSE <<"log">>)
    \o (IF s.tracing = "post" THEN <<"tracing">> ELSE <<>>)

Steps(s) ==
    (IF s.propagators = "package" THEN Propagators ELSE <<"TraceContext">>)
    \o <<"span">> \o Interceptors(s)

TypeOK ==
    /\ request \in Incoming
    /\ server \in Servers
    /\ \E n \in 0 .. Len(Steps(server)) : todo = SubSeq(Steps(server), n + 1, Len(Steps(server)))
    /\ traceID \in IDs
    /\ logged \in IDs
    /\ fields \in IDs \cup {"noZap"}
    /\ fields # "noZap" <=> server.kind = "standard" /\ "zap" \notin ToSet(todo)

Init ==
    /\ request \in Incoming
    /\ server \in Servers
    /\ todo = Steps(server)
    /\ traceID = "none" /\ logged = "none" /\ fields = "noZap"

Takes(step) ==
    /\ todo # <<>> /\ Head(todo) = step
    /\ todo' = Tail(todo)
    /\ UNCHANGED <<request, server>>

-----------------------------------------------------------------------------
ExtractTraceContext ==
    /\ Takes("TraceContext")
    /\ traceID' = IF request.traceparent THEN "traceparent" ELSE traceID
    /\ UNCHANGED <<logged, fields>>

ExtractRandom ==
    /\ Takes("Random")
    /\ traceID' = IF traceID = "none" THEN "random" ELSE traceID
    /\ UNCHANGED <<logged, fields>>

ExtractBaggage == Takes("Baggage") /\ UNCHANGED <<traceID, logged, fields>>

\* X-Cloud-Trace-Context takes precedence.
ExtractCloudTrace ==
    /\ Takes("CloudTrace")
    /\ traceID' = IF request.cloud THEN "cloud" ELSE traceID
    /\ UNCHANGED <<logged, fields>>

\* The span of the request is a child, or a root of its own.
StartSpan ==
    /\ Takes("span")
    /\ traceID' = IF traceID = "none" /\ server.provider THEN "span" ELSE traceID
    /\ UNCHANGED <<logged, fields>>

\* grpc_zap takes fields from here on.
Zap ==
    /\ Takes("zap")
    /\ fields' = "none"
    /\ UNCHANGED <<traceID, logged>>

\* Mutant: the logger of the options is handed on as it is.
WithLogger_Plain ==
    /\ Takes("log")
    /\ UNCHANGED <<traceID, logged, fields>>

WithLogger ==
    /\ Takes("log")
    /\ logged' = traceID
    /\ UNCHANGED <<traceID, fields>>

\* withTraceID.  ctxzap.AddFields does nothing before grpc_zap.
WithTraceID ==
    /\ Takes("tracing")
    /\ traceID' = IF server.override THEN "override"
                  ELSE IF traceID = "none" THEN "random" ELSE traceID
    /\ fields' = IF fields = "noZap" THEN fields ELSE traceID'
    /\ UNCHANGED logged

Next ==
    \/ ExtractTraceContext \/ ExtractRandom \/ ExtractBaggage \/ ExtractCloudTrace
    \/ StartSpan \/ Zap \/ WithLogger \/ WithTraceID

Spec == Init /\ [][Next]_vars

-----------------------------------------------------------------------------
Handled == todo = <<>>
Overridden == server.tracing # "none" /\ server.override

\* The identifier of the client reaches the handler unless it is overridden, that of
\* X-Cloud-Trace-Context before that of traceparent; without one there is a fresh
\* one, if the program left the propagators alone (server/tracelog/tracelog.go:17-26,
\* server/standard/tracing.go:55-97).
ClientsIdentifierWins ==
    Handled /\ server.propagators = "package" /\ ~Overridden =>
        traceID = IF request.cloud THEN "cloud"
                  ELSE IF request.traceparent THEN "traceparent" ELSE "random"

\* The contextual logger tells the identifier of the handler's context, unless the
\* program overrides it after the logger was made, and the access line, where it
\* tells one, tells the same (server/tracelog/tracelog.go:42-44,
\* server/standard/tracing.go:79-94).
LogsAgree ==
    Handled =>
        /\ logged = traceID \/ (server.tracing = "post" /\ (server.override \/ logged = "none"))
        /\ fields \in {traceID, "none", "noZap"}

=============================================================================
