----------------------------- MODULE MCRequests -----------------------------
(* What happens to requests and what decides on it, for TLC: the layers of a    *)
(* server, the options and registrations a server is made of, or the trace       *)
(* identifier of a request.  One run checks all three, each from its initial      *)
(* states while the others stay where they are.                                *)
EXTENDS Requests, TLC

CONSTANTS MaxOptions

VARIABLES
    target, programOptions, applied, stage, services, early, serves, calling,
    traced, tracing, todo, traceID, logged, fields, part

Made == INSTANCE Factory WITH options <- programOptions
Trace == INSTANCE Tracing WITH request <- traced, server <- tracing

ASSUME FactoryAssumption == Made!ConstantsOK

madevars == <<target, programOptions, applied, stage, services, early, serves, calling>>
tracevars == <<traced, tracing, todo, traceID, logged, fields>>
allvars == <<vars, madevars, tracevars, part>>

\* A header for every way through CompressionHandler, one with a JSON content type and
\* those of health checks.
Header(encoding, accepts) ==
    [method |-> "other", encoding |-> encoding, accepts |-> accepts, json |-> FALSE]

SomeHeaders ==
    {Header("absent", FALSE), Header("absent", TRUE), Header("empty", FALSE),
     Header("empty", TRUE), Header("twice", TRUE), Header("supported", FALSE),
     [Header("unsupported", TRUE) EXCEPT !.json = TRUE],
     [Header("absent", FALSE) EXCEPT !.method = "healthCheck"],
     [Header("absent", FALSE) EXCEPT !.method = "health"]}

Symmetry == Permutations(Requests)

RequestsAway ==
    /\ server = "standard" /\ options = CHOOSE o \in OptionsOf("standard") : TRUE
    /\ Init
MadeAway == target = "factory" /\ Made!Init
TraceAway ==
    /\ traced = [traceparent |-> FALSE, cloud |-> FALSE]
    /\ tracing = CHOOSE s \in Trace!Servers : TRUE
    /\ Trace!Init

MCInit ==
    \/ part = "requests" /\ Init /\ MadeAway /\ TraceAway
    \/ part = "factory" /\ Made!Init /\ RequestsAway /\ TraceAway
    \/ part = "tracing" /\ Trace!Init /\ RequestsAway /\ MadeAway

MCNext ==
    /\ UNCHANGED part
    /\ \/ part = "requests" /\ Next /\ UNCHANGED <<madevars, tracevars>>
       \/ part = "factory" /\ Made!Next /\ UNCHANGED <<vars, tracevars>>
       \/ part = "tracing" /\ Trace!Next /\ UNCHANGED <<vars, madevars>>

MCSpec == MCInit /\ [][MCNext]_allvars

-----------------------------------------------------------------------------
\* A server speaks what the last option of the transport said, answers for what the
\* program registered before Launch, and ends by itself only if the program misused it:
\* all of it but for two departures from the comments of the options, which
\* IgnoresRegistrator and ChainPanics name
\* (server/options.go:58-316, server/factory/factory.go:12-39).
FactoryInv ==
    /\ Made!TypeOK
    /\ Made!LastTransportWins
    /\ Made!NeverInvalid
    /\ Made!EarlyRegistrationsAnswer
    /\ Made!EndsOnlyByMisuse

\* The client's trace identifier reaches the handler, and the logs tell the same
\* (server/tracelog/tracelog.go:17-44, server/standard/tracing.go:55-97).
TracingInv == Trace!TypeOK /\ Trace!ClientsIdentifierWins /\ Trace!LogsAgree
=============================================================================
