\* Two requests at a time, through each server.  Three options are enough for any to
\* come before, between and after two others.
CONSTANTS
    Requests = {r1, r2}
    Outcomes = {"OK", "Unknown"}
    Headers <- SomeHeaders
    MaxOptions = 3
SPECIFICATION MCSpec
INVARIANTS RequestsInv PanicsAreIsolated EndsAreLogged InternalErrorsAreGeneric
     TracingInv
SYMMETRY Symmetry
CHECK_DEADLOCK FALSE
