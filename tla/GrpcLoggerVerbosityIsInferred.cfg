\* The levels of gRPC, and every kind of logger.
CONSTANTS
    Threads = {t1}
    MaxSets = 2
SPECIFICATION Spec
INVARIANT VerbosityIsInferred
CHECK_DEADLOCK FALSE
