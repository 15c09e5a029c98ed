----------------------------- MODULE Bootstrap ------------------------------
(***************************************************************************)
(* discovery-service/bootstrap.go and traffic-director/bootstrap.go: the      *)
(* file that tells gRPC its xDS server.  A process writes it from what the    *)
(* metadata server says, right before it makes its server, which reads it.    *)
(* Processes on a host may share the file; they fail, crash and are started   *)
(* again while they write.                                                   *)
(***************************************************************************)
EXTENDS Integers, Sequences, SequencesExt

CONSTANTS
    Procs,          \* the processes that share the file
    MaxCrashes      \* bound on the crashes

\* What the constants are; "none" is the owner when there is none.
ConstantsOK == MaxCrashes \in Nat /\ "none" \notin Procs

VARIABLES
    setup,      \* the URL and the environment of each process
    healthy,    \* the metadata server and the disk do what they are asked
    crashes,    \* number of crashes so far
    pc,         \* where each process is
    config,     \* what it generated
    offset,     \* of its open file
    file,       \* the tokens of the file, Absent if there is none
    owner,      \* history: the last to create the file, if no other had it open
    spoiled     \* history: since then a writer failed, or two wrote different lengths

world == <<setup, healthy, crashes>>
history == <<owner, spoiled>>
vars == <<world, pc, config, offset, file, history>>

Setups == [scheme : {"traffic-director", "xds", "other"}, env : BOOLEAN, network : BOOLEAN]
Complete == [scheme |-> "traffic-director", env |-> TRUE, network |-> TRUE]

\* The processes that are set up to generate the file.
Generators == {p \in Procs : setup[p] = Complete}

\* What the metadata server answers, or that it does not.  The status is not looked at.
Answers == {"value", "page", "none"}
Lookups == {"addresses", "empty", "error"}      \* of the name of the host
Infos == {"unknown", "GKE", "GCE"}
Configs == [by : Procs, info : Infos]

Absent == <<[part |-> -2]>>
Hole == [part |-> 0]
Newline == [part |-> -1]

\* Only the deployment changes how long a config is.
Length(c) == CASE c.info = "unknown" -> 1 [] c.info = "GCE" -> 2 [] c.info = "GKE" -> 3
Json(c) == [i \in 1 .. Length(c) |-> [of |-> c, part |-> i]]
Text(c) == Json(c) \o <<Newline>>

\* gRPC can read the file: one config and white space.
Readable(f) ==
    /\ f # Absent /\ f # <<>> /\ f[1].part = 1
    /\ LET text == Json(f[1].of) IN
       /\ IsPrefix(text, f)
       /\ \A i \in Len(text) + 1 .. Len(f) : f[i] = Newline

TypeOK ==
    /\ setup \in [Procs -> Setups]
    /\ healthy \in BOOLEAN
    /\ crashes \in 0 .. MaxCrashes
    /\ pc \in [Procs -> {"off", "create", "write", "newline", "close", "booted", "serving"}]
    /\ config \in [Procs -> Configs]
    /\ offset \in [Procs -> 0 .. 4]
    /\ file = Absent \/ Len(file) \in 0 .. 4
    /\ owner \in Procs \cup {"none"}
    /\ spoiled \in BOOLEAN

NoConfig(p) == [by |-> p, info |-> "unknown"]

\* The file may be there from an earlier process that is gone.
Init ==
    /\ setup \in [Procs -> Setups]
    /\ healthy \in BOOLEAN
    /\ crashes = 0
    /\ pc = [p \in Procs |-> "off"]
    /\ config = [p \in Procs |-> NoConfig(p)]
    /\ offset = [p \in Procs |-> 0]
    /\ file \in {Absent} \cup {Text([NoConfig(p) EXCEPT !.info = "GKE"]) : p \in Procs}
    /\ owner = "none"
    /\ spoiled = FALSE

Writing == {p \in Procs : pc[p] \in {"write", "newline", "close"}}

-----------------------------------------------------------------------------
(* What Bootstrap finds out                                                  *)

\* What is returned for the scheme and the environment; "generate" goes on.
Outcome(s) ==
    IF ~s.env \/ s.scheme = "other" THEN "error"
    ELSE IF s.scheme = "xds" THEN "nil"
    ELSE IF s.network THEN "generate" ELSE "error"

\* What has to be found.  A page is no number, but has a slash, which is all that is
\* asked of a zone.
ProjectIdFound(answer) == answer = "value"
HostIpFound(lookup) == lookup = "addresses"
ZoneFound(answer) == answer # "none"

\* A process starts and calls Bootstrap: an error or a panic ends it.  The type of
\* the deployment may stay unknown, the names of cluster, pod and machine empty.
Start(p) ==
    /\ pc[p] = "off"
    /\ \/ /\ Outcome(setup[p]) = "nil"
          /\ pc' = [pc EXCEPT ![p] = "booted"]
          /\ UNCHANGED config
       \/ /\ Outcome(setup[p]) = "generate"
          /\ \E project, zone \in Answers, lookup \in Lookups, info \in Infos :
                /\ healthy => project = "value" /\ zone = "value" /\ lookup = "addresses"
                /\ ProjectIdFound(project) /\ HostIpFound(lookup) /\ ZoneFound(zone)
                /\ config' = [config EXCEPT ![p].info = info]
          /\ pc' = [pc EXCEPT ![p] = "create"]
    /\ UNCHANGED <<world, offset, file, history>>

-----------------------------------------------------------------------------
(* The file                                                                  *)

\* A write at an offset; what is skipped reads as zeros.
WriteAt(f, at, tokens) ==
    [i \in 1 .. IF Len(f) > at + Len(tokens) THEN Len(f) ELSE at + Len(tokens) |->
        IF i \in at + 1 .. at + Len(tokens) THEN tokens[i - at]
        ELSE IF i <= Len(f) THEN f[i] ELSE Hole]

\* Process p is done with Bootstrap.
Leaves(p, to) ==
    /\ pc' = [pc EXCEPT ![p] = to]
    /\ config' = [config EXCEPT ![p] = NoConfig(p)]
    /\ offset' = [offset EXCEPT ![p] = 0]

\* The panic of Bootstrap ends the process and closes its file.
Dies(p) ==
    /\ Leaves(p, "off")
    /\ spoiled' = (spoiled \/ p \in Writing)
    /\ UNCHANGED <<world, owner>>

\* Mutant: the file is opened, and not made empty.
Create_KeepsOld(p) ==
    /\ pc[p] = "create"
    /\ pc' = [pc EXCEPT ![p] = "write"]
    /\ file' = IF file = Absent THEN <<>> ELSE file
    /\ offset' = [offset EXCEPT ![p] = 0]
    /\ owner' = IF Writing = {} THEN p ELSE "none"
    /\ spoiled' = \E q \in Writing : spoiled \/ Length(config[q]) # Length(config[p])
    /\ UNCHANGED <<world, config>>

\* Mutant: the file must not be there.
Create_Exclusive(p) ==
    /\ pc[p] = "create"
    /\ IF file = Absent
       THEN /\ pc' = [pc EXCEPT ![p] = "write"]
            /\ file' = <<>>
            /\ offset' = [offset EXCEPT ![p] = 0]
            /\ owner' = p
            /\ UNCHANGED <<world, config, spoiled>>
       ELSE Dies(p) /\ UNCHANGED file

\* os.Create makes the file empty.
Create(p) ==
    /\ pc[p] = "create"
    /\ \/ /\ pc' = [pc EXCEPT ![p] = "write"]
          /\ file' = <<>>
          /\ offset' = [offset EXCEPT ![p] = 0]
          /\ owner' = IF Writing = {} THEN p ELSE "none"
          /\ spoiled' = \E q \in Writing : spoiled \/ Length(config[q]) # Length(config[p])
          /\ UNCHANGED <<world, config>>
       \/ ~healthy /\ Dies(p) /\ UNCHANGED file

\* One call of Write: all the tokens, or fewer and an error.
Write(p, from, to, tokens) ==
    /\ pc[p] = from
    /\ \/ /\ pc' = [pc EXCEPT ![p] = to]
          /\ file' = WriteAt(file, offset[p], tokens)
          /\ offset' = [offset EXCEPT ![p] = @ + Len(tokens)]
          /\ UNCHANGED <<world, config, history>>
       \/ /\ ~healthy
          /\ \E n \in 0 .. Len(tokens) - 1 :
                file' = WriteAt(file, offset[p], SubSeq(tokens, 1, n))
          /\ Dies(p)

\* Mutant: an error is not looked at.
WriteConfig_IgnoresError(p) ==
    /\ pc[p] = "write"
    /\ pc' = [pc EXCEPT ![p] = "newline"]
    /\ \E n \in (IF healthy THEN {} ELSE 0 .. Length(config[p])) \cup {Length(config[p])} :
          /\ file' = WriteAt(file, offset[p], SubSeq(Json(config[p]), 1, n))
          /\ offset' = [offset EXCEPT ![p] = @ + n]
    /\ UNCHANGED <<world, config, history>>

WriteConfig(p) == Write(p, "write", "newline", Json(config[p]))
WriteNewline(p) == Write(p, "newline", "close", <<Newline>>)

Close(p) ==
    /\ pc[p] = "close"
    /\ UNCHANGED file
    /\ \/ /\ pc' = [pc EXCEPT ![p] = "booted"]
          /\ UNCHANGED <<world, config, offset, history>>
       \/ ~healthy /\ Dies(p)

\* The server is made: it panics if the file cannot be read.
MakeServer(p) ==
    /\ pc[p] = "booted"
    /\ Leaves(p, IF Readable(file) THEN "serving" ELSE "off")
    /\ UNCHANGED <<world, file, history>>

-----------------------------------------------------------------------------
Crash(p) ==
    /\ pc[p] # "off"
    /\ crashes < MaxCrashes
    /\ crashes' = crashes + 1
    /\ Leaves(p, "off")
    /\ spoiled' = (spoiled \/ p \in Writing)
    /\ UNCHANGED <<setup, healthy, file, owner>>

HealthChanges ==
    /\ healthy' = ~healthy
    /\ UNCHANGED <<setup, crashes, pc, config, offset, file, history>>

Step(p) ==
    Start(p) \/ Create(p) \/ WriteConfig(p) \/ WriteNewline(p) \/ Close(p) \/ MakeServer(p)

Next == HealthChanges \/ \E p \in Procs : Step(p) \/ Crash(p)

\* Processes run, and what supervises them starts them again.
Fairness == \A p \in Procs : WF_vars(Step(p))

Spec == Init /\ [][Next]_vars /\ Fairness

-----------------------------------------------------------------------------
\* Once nobody writes it, the file can be read, whatever failed before it was
\* created and even if two processes wrote it at the same time, unless a writer
\* failed half way or two wrote configs of different lengths
\* (traffic-director/bootstrap.go:126-146).
QuietFileIsReadable == file # Absent /\ Writing = {} /\ ~spoiled => Readable(file)

\* When Bootstrap has returned nil the file is all of what this process generated,
\* unless another created it or had it open (traffic-director/bootstrap.go:130-146).
NilMeansWritten ==
    \A p \in Generators : pc[p] = "booted" /\ owner = p => file = Text(config[p])

\* Whatever a crash or a failure left, the processes end up serving once the
\* metadata server and the disk are well and no other process writes the file; one
\* that only reads the file needs it to be readable
\* (traffic-director/bootstrap.go:36-56, traffic-director/server.go:109-113).
RestartRepairs ==
    \A p \in Procs :
        <>[](Outcome(setup[p]) # "error" /\ healthy /\ \A q \in Generators \ {p} : pc[q] = "serving") =>
            <>[](pc[p] = "serving" \/ (p \notin Generators /\ ~Readable(file)))
=============================================================================
