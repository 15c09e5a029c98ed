\* One client connection that goes idle and back; targets that do not parse.
CONSTANTS
    Builds = {b1, b2}
    Answers <- Lists
    Failure = Failure
    Overlap = FALSE
SPECIFICATION Spec
INVARIANTS TypeOK CloseIsItsOwn
PROPERTIES QuietWhileRotating Converges ClosedIsReleased
CHECK_DEADLOCK FALSE
