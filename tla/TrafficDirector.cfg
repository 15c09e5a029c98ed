\* A forcing and two timed callers, two connections.  Two processes of any set-up.
CONSTANTS
    ForceCallers = {f1}
    GraceCallers = {g1, g2}
    Conns = {k1, k2}
    Procs = {p1, p2}
    MaxCrashes = 1
SPECIFICATION MCSpec
INVARIANTS ServerInv BootstrapInv QuietFileIsReadable
PROPERTIES ShutdownEndsLaunch NoStopperIsLeft LifecycleSpec RestartRepairs
CHECK_DEADLOCK FALSE
