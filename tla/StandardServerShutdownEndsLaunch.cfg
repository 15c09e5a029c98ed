\* ShutdownEndsLaunch, on one caller and one connection of each kind.
CONSTANTS
    ForceCallers = {f1}
    GraceCallers = {g1}
    HttpConns = {h1}
    GrpcConns = {r1}
SPECIFICATION Spec
PROPERTY ShutdownEndsLaunch
CHECK_DEADLOCK FALSE
