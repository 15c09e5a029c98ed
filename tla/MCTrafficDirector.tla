------------------------- MODULE MCTrafficDirector --------------------------
(* The package traffic-director for TLC: its server, or processes that write    *)
(* its bootstrap file.  One run checks both, each from its initial states while *)
(* the other stays where it is.                                                *)
EXTENDS TrafficDirector

CONSTANTS Procs, MaxCrashes

VARIABLES setup, healthy, crashes, pc, config, offset, file, owner, spoiled, part

File == INSTANCE Bootstrap

ASSUME BootstrapAssumption == File!ConstantsOK

filevars == <<setup, healthy, crashes, pc, config, offset, file, owner, spoiled>>
allvars == <<vars, filevars, part>>

\* Processes that Bootstrap refuses.
FileAway ==
    /\ setup = [p \in Procs |-> [File!Complete EXCEPT !.env = FALSE]]
    /\ healthy = TRUE /\ crashes = 0
    /\ pc = [p \in Procs |-> "off"]
    /\ config = [p \in Procs |-> File!NoConfig(p)]
    /\ offset = [p \in Procs |-> 0]
    /\ file = File!Absent
    /\ owner = "none" /\ spoiled = FALSE

MCInit ==
    \/ part = "server" /\ Init /\ FileAway
    \/ part = "file" /\ File!Init /\ Init

MCNext ==
    /\ UNCHANGED part
    /\ \/ part = "server" /\ Next /\ UNCHANGED filevars
       \/ part = "file" /\ File!Next /\ UNCHANGED vars

MCSpec == MCInit /\ [][MCNext]_allvars /\ Fairness /\ File!Fairness

-----------------------------------------------------------------------------
\* When Bootstrap has returned nil the file is all of what this process generated,
\* unless another created it or had it open, and every variable keeps its type
\* (traffic-director/bootstrap.go:126-146).
BootstrapInv == File!TypeOK /\ File!NilMeansWritten

\* Once nobody writes it, the file can be read, unless a writer failed half way or two
\* wrote configs of different lengths (traffic-director/bootstrap.go:126-146).
QuietFileIsReadable == File!QuietFileIsReadable

\* Whatever a crash or a failure left, the processes end up serving once all is well
\* (traffic-director/bootstrap.go:36-56, traffic-director/server.go:109-113).
RestartRepairs == File!RestartRepairs
=============================================================================
