\* A forcing and a timed caller, one connection of each kind, every option.
CONSTANTS
    ForceCallers = {f1}
    GraceCallers = {g1}
    HttpConns = {h1}
    GrpcConns = {r1}
SPECIFICATION Spec
INVARIANTS TypeOK GracefulMeansDrained LaunchReports ClosedOnlyByShutdown
PROPERTIES NothingAcceptedAtTheEnd LifecycleSpec
    ShutdownReturns SeenShutdownTerminates
CHECK_DEADLOCK FALSE
