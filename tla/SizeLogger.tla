----------------------------- MODULE SizeLogger -----------------------------
(***************************************************************************)
(* size_logger.go: the stats handler of a gRPC client.  It adds up the        *)
(* messages of all RPCs of a connection in plain fields, and every            *)
(* messageLimit messages it logs the sums and starts again.  The RPCs run     *)
(* concurrently, without a lock.                                             *)
(***************************************************************************)
EXTENDS Integers

CONSTANTS
    RPCs,           \* the RPCs that receive at the same time
    MessageLimit,
    Sizes,          \* the lengths of messages
    MaxDuration,    \* the largest time.Duration: time.Since of the zero time
    MaxTime,        \* bound on the clock
    MaxCount,       \* messageCount stays here once it has passed messageLimit
    MaxBytes        \* the bytes added to one line stay here

\* What the constants are.
ConstantsOK ==
    /\ MessageLimit \in Nat \ {0} /\ MaxCount \in Nat /\ MaxCount > MessageLimit
    /\ MaxTime \in Nat /\ MaxDuration \in Nat /\ MaxDuration > MaxTime
    /\ Sizes \subseteq Nat /\ MaxBytes \in Nat

VARIABLES
    pc,                 \* where each RPC is in HandleRPC
    read,               \* the messageCount it has read to add one to
    messageCount, bytes, lastReceivedTime, waitToReceive,   \* the fields; Zero: the zero time
    now,                \* the clock
    stats,              \* the last line logged
    received,           \* history until RPCs overlap: the number and sum of the messages
                        \* since that line, and its end
    overlapped          \* history: two RPCs have been in HandleRPC at the same time

fields == <<messageCount, bytes, lastReceivedTime, waitToReceive>>
vars == <<pc, read, fields, now, stats, received, overlapped>>

Zero == -1
NoStats == [count |-> 0, bytes |-> 0, wait |-> 0]

TypeOK ==
    /\ pc \in [RPCs -> {"idle", "enter", "add", "compare", "log"}]
    /\ read \in [RPCs -> 0 .. MaxCount]
    /\ messageCount \in 0 .. MaxCount
    /\ bytes \in 0 .. MaxBytes
    /\ lastReceivedTime \in {Zero} \cup 0 .. MaxTime
    /\ waitToReceive \in -MaxDuration - 1 .. MaxDuration
    /\ now \in 0 .. MaxTime
    /\ overlapped \in BOOLEAN

Init ==
    /\ pc = [r \in RPCs |-> "idle"]
    /\ read = [r \in RPCs |-> 0]
    /\ messageCount = 0 /\ bytes = 0
    /\ lastReceivedTime = Zero /\ waitToReceive = 0
    /\ now = 0
    /\ stats = NoStats
    /\ received = [count |-> 0, bytes |-> 0, from |-> Zero]
    /\ overlapped = FALSE

-----------------------------------------------------------------------------
Cap(n, max) == IF n > max THEN max ELSE n

\* time.Duration is a signed 64-bit number that wraps.
Wrap(d) == ((d + MaxDuration + 1) % (2 * (MaxDuration + 1))) - MaxDuration - 1

Since(t) == IF t = Zero THEN MaxDuration ELSE now - t

\* A message of RPC r comes in.
Receive(r) ==
    /\ pc[r] = "idle"
    /\ pc' = [pc EXCEPT ![r] = "enter"]
    /\ overlapped' = (overlapped \/ \E q \in RPCs : pc[q] # "idle")
    /\ UNCHANGED <<read, fields, now, stats, received>>

\* Mutant: the time is not taken, so that the waits overlap.
Wait_KeepsTime(r) ==
    /\ pc[r] = "enter"
    /\ pc' = [pc EXCEPT ![r] = "add"]
    /\ waitToReceive' = Wrap(waitToReceive + Since(lastReceivedTime))
    /\ lastReceivedTime' = IF lastReceivedTime = Zero THEN now ELSE lastReceivedTime
    /\ read' = [read EXCEPT ![r] = messageCount]
    /\ UNCHANGED <<messageCount, bytes, now, stats, received, overlapped>>

\* waitToReceive and lastReceivedTime are set; messageCount++ reads.
Wait(r) ==
    /\ pc[r] = "enter"
    /\ pc' = [pc EXCEPT ![r] = "add"]
    /\ waitToReceive' = Wrap(waitToReceive + Since(lastReceivedTime))
    /\ lastReceivedTime' = now
    /\ read' = [read EXCEPT ![r] = messageCount]
    /\ UNCHANGED <<messageCount, bytes, now, stats, received, overlapped>>

\* messageCount++ writes; the length of the message is added, in one step, since no
\* property is about bytes once RPCs overlap.
Add(r) ==
    /\ pc[r] = "add"
    /\ pc' = [pc EXCEPT ![r] = "compare"]
    /\ messageCount' = Cap(read[r] + 1, MaxCount)
    /\ read' = [read EXCEPT ![r] = 0]
    /\ \E size \in Sizes :
          /\ bytes' = Cap(bytes + size, MaxBytes)
          /\ received' = IF overlapped THEN received
                         ELSE [received EXCEPT !.count = Cap(@ + 1, MaxCount),
                                               !.bytes = Cap(@ + size, MaxBytes)]
    /\ UNCHANGED <<lastReceivedTime, waitToReceive, now, stats, overlapped>>

Compare(r) ==
    /\ pc[r] = "compare"
    /\ pc' = [pc EXCEPT ![r] = IF messageCount = MessageLimit THEN "log" ELSE "idle"]
    /\ UNCHANGED <<read, fields, now, stats, received, overlapped>>

Log(r) ==
    /\ pc[r] = "log"
    /\ pc' = [pc EXCEPT ![r] = "idle"]
    /\ stats' = [count |-> messageCount, bytes |-> bytes, wait |-> waitToReceive]
    /\ messageCount' = 0 /\ bytes' = 0 /\ waitToReceive' = 0
    /\ received' = [count |-> 0, bytes |-> 0, from |-> lastReceivedTime]
    /\ UNCHANGED <<read, lastReceivedTime, now, overlapped>>

Tick ==
    /\ now < MaxTime
    /\ now' = now + 1
    /\ UNCHANGED <<pc, read, fields, stats, received, overlapped>>

HandleRPC(r) == Wait(r) \/ Add(r) \/ Compare(r) \/ Log(r)

Next == Tick \/ \E r \in RPCs : Receive(r) \/ HandleRPC(r)

\* HandleRPC takes its steps once it is called.
Fairness == \A r \in RPCs : WF_vars(HandleRPC(r))

Spec == Init /\ [][Next]_vars /\ Fairness

-----------------------------------------------------------------------------
\* As long as HandleRPC was never entered by two RPCs at once, each line is about
\* messageLimit messages, their bytes, and the time from the last message of the
\* line before to its own last (size_logger.go:41-76).  The first line has no line
\* before: its wait starts with MaxDuration and may wrap to a negative number.
LinesAreWhole ==
    [][~overlapped /\ stats' # stats =>
        /\ stats'.count = MessageLimit /\ received.count = MessageLimit
        /\ stats'.bytes = received.bytes
        /\ received.from # Zero => stats'.wait = lastReceivedTime - received.from]_vars

\* The count passes messageLimit, after which nothing is ever logged again, only
\* if two RPCs were in HandleRPC at once (size_logger.go:46-51).
PassedOnlyByOverlap == messageCount > MessageLimit => overlapped

\* With one RPC at a time and messages that keep coming, lines keep coming
\* (size_logger.go:51-76).
LinesKeepComing ==
    [](~overlapped) /\ []<>(\E r \in RPCs : pc[r] = "add") => []<>(messageCount = 0)
=============================================================================
