\* Two client connections.
CONSTANTS
    Builds = {b1, b2}
    Answers <- Lists
    Failure = Failure
    Overlap = TRUE
SPECIFICATION SafetySpec
INVARIANT CloseIsItsOwn
