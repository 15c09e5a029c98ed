----------------------------- MODULE GrpcLogger -----------------------------
(***************************************************************************)
(* logging.go: the logger given to gRPC.  settableLoggerV2 passes each call    *)
(* of gRPC's goroutines on to the logger set last, which it loads first; the  *)
(* program may replace that logger at any time, by a zapGrpcLoggerV2.         *)
(***************************************************************************)
EXTENDS Integers

CONSTANTS
    Threads,    \* goroutines of gRPC that log
    MaxSets     \* bound on the times the logger is replaced

\* What the constants are.
ConstantsOK == MaxSets \in Nat

\* zap's levels: DEBUG is -1, INFO 0, WARN 1, ERROR 2, FATAL 5.
Levels == 0 .. 3
ZapLevels == {-1, 0, 2}

Loggers == [kind : {"zap"},
            level : ZapLevels,                  \* the level of the zap logger
            tracer : {"nil", "off", "on"},
            verbosity : {-1, 0, 2},             \* -1: to be inferred
            set : 0 .. MaxSets]                 \* which Set put it there

Unset == [kind |-> "none", set |-> 0]
Discard == [kind : {"discard"}, set : 1 .. MaxSets]

NoAnswer == [level |-> 0, wanted |-> FALSE]

VARIABLES
    log,        \* the logger set last
    sets,       \* how often it was set
    ended,      \* how the process ended: a Store that panicked, a line of Fatal
    answer,     \* the last answer of V since
    thread      \* where each goroutine is

vars == <<log, sets, ended, answer, thread>>

Severities == {"Info", "Warning", "Error", "Fatal"}

\* since: the logger in place when the call began; to: the one it writes to.
Idle == [at |-> "idle"]
ThreadStates ==
    {Idle}
    \cup [at : {"get"}, severity : Severities, since : 0 .. MaxSets]
    \cup [at : {"write"}, severity : Severities, since : 0 .. MaxSets, to : 0 .. MaxSets]

TypeOK ==
    /\ log \in {Unset} \cup Loggers \cup Discard
    /\ sets \in 0 .. MaxSets
    /\ ended \in {"no", "panic", "exit"}
    /\ answer \in [level : Levels, wanted : BOOLEAN]
    /\ thread \in [Threads -> ThreadStates]

\* GRPC_REGISTER_ZAP_LOGGER sets the package's own logger from the start.
Init ==
    /\ \/ log = Unset
       \/ log \in {l \in Loggers : l.set = 0 /\ l.verbosity = -1 /\ l.tracer # "nil"}
    /\ sets = 0
    /\ ended = "no"
    /\ answer = NoAnswer
    /\ thread = [t \in Threads |-> Idle]

-----------------------------------------------------------------------------
(* The setters                                                               *)

\* atomic.Value takes values of one concrete type only.
Store(l) ==
    IF log.kind \in {"none", l.kind}
    THEN log' = l /\ UNCHANGED ended
    ELSE ended' = "panic" /\ UNCHANGED log

\* SetGRPCLogger, with verbosity -1, SetGRPCLoggerWithVerbosity, and Reset,
\* which sets gRPC's own logger, of another type, and which nothing here calls.
Set(l) ==
    /\ sets < MaxSets
    /\ sets' = sets + 1
    /\ l.set = sets'
    /\ Store(l)
    /\ answer' = NoAnswer
    /\ UNCHANGED thread

-----------------------------------------------------------------------------
(* A line of gRPC                                                            *)

Call(t, severity) ==
    /\ thread[t].at = "idle"
    /\ thread' = [thread EXCEPT ![t] =
                    [at |-> "get", severity |-> severity, since |-> log.set]]
    /\ UNCHANGED <<log, sets, ended, answer>>

\* What gRPC calls Info is DEBUG here.
LevelOf(severity) ==
    CASE severity = "Info" -> -1 [] severity = "Warning" -> 1
      [] severity = "Error" -> 2 [] severity = "Fatal" -> 5

\* The test of writeArgs: a logger that is not set, or discards, writes nothing.
Writes(l, severity) == l.kind = "zap" /\ l.level <= LevelOf(severity)

\* The end of a call: grpclog ends the process after a Fatal, written or not.
CallEnds(t) ==
    /\ thread' = [thread EXCEPT ![t] = Idle]
    /\ ended' = IF thread[t].severity = "Fatal" THEN "exit" ELSE ended
    /\ UNCHANGED <<log, sets, answer>>

\* Mutant: the logger set first stays in use.
Get_First(t) ==
    /\ thread[t].at = "get"
    /\ IF Writes(log, thread[t].severity)
       THEN /\ thread' = [thread EXCEPT ![t] = [at |-> "write", severity |-> @.severity,
                                                since |-> @.since, to |-> 0]]
            /\ UNCHANGED <<log, sets, ended, answer>>
       ELSE CallEnds(t)

\* get(), and the line goes to the logger it returned whatever is set since.
Get(t) ==
    /\ thread[t].at = "get"
    /\ IF Writes(log, thread[t].severity)
       THEN /\ thread' = [thread EXCEPT ![t] = [at |-> "write", severity |-> @.severity,
                                                since |-> @.since, to |-> log.set]]
            /\ UNCHANGED <<log, sets, ended, answer>>
       ELSE CallEnds(t)

Write(t) == thread[t].at = "write" /\ CallEnds(t)

-----------------------------------------------------------------------------
(* The verbosity                                                             *)

\* The verbosity that V infers, and then does not use.
Inferred(l) ==
    IF l.verbosity >= 0 THEN l.verbosity
    ELSE IF l.tracer = "on" THEN 3
    ELSE IF l.level = -1 THEN 1 ELSE 0

\* Nothing is wanted of a logger that is not set, or discards.
V(l, level) == l.kind = "zap" /\ l.verbosity <= level

Ask(level) ==
    /\ answer' = [level |-> level, wanted |-> V(log, level)]
    /\ UNCHANGED <<log, sets, ended, thread>>

Next ==
    /\ ended = "no"
    /\ \/ \E l \in Loggers \cup Discard : Set(l)
       \/ \E level \in Levels : Ask(level)
       \/ \E t \in Threads :
             (\E severity \in Severities : Call(t, severity)) \/ Get(t) \/ Write(t)

Spec == Init /\ [][Next]_vars

-----------------------------------------------------------------------------
\* A line is written to a logger that was in place during its call, never to
\* one that had been replaced before (logging.go:46-57, 248-268).
LinesGoToTheLoggerInPlace ==
    \A t \in Threads :
        thread[t].at = "write" => thread[t].to \in thread[t].since .. log.set

-----------------------------------------------------------------------------
(* What the documentation says, and the code does not do.                    *)

\* logging.go:33-37: of a logger in INFO the verbosity "is set to 0", of one in
\* DEBUG to 1, with an enabled tracer to 3.  V infers that much and compares with
\* -1 instead (logging.go:117-130): every level is wanted.
VerbosityIsInferred ==
    (log.kind = "zap" /\ log.verbosity = -1 /\ answer.wanted) =>
        answer.level <= Inferred(log)
=============================================================================
