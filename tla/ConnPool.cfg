\* Three connections, which do not divide the counter's range; two wraps.  RPCs do not
\* meet but at the channel: one is enough, with two options that override each other.
\* Two messages a line are enough to lose an update and to pass the limit.
\* Goroutines that log meet at the logger only, which is replaced twice.
CONSTANTS
    Num = 3
    Width = 2
    Callers = {c1, c2}
    Closers = {x1, x2}
    MaxCalls = 9
    RPCs = {r1}
    MaxExtra = 2
    Receivers = {r1, r2}
    MessageLimit = 2
    Sizes = {1, 2}
    MaxDuration = 4
    MaxTime = 2
    MaxCount = 3
    MaxBytes = 4
    Threads = {t1}
    MaxSets = 2
SPECIFICATION MCSpec
INVARIANTS PoolInv CloseClosesAll OneCloseSucceeds DialInv GrpcLoggerInv
PROPERTIES RPCsEnd SizeLines
CHECK_DEADLOCK FALSE
