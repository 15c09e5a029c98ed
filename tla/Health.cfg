\* A probe of either kind and a stream, of either package.  Two callers of Shutdown, one
\* connection over HTTP/1.1 and two over HTTP/2, each transport.
CONSTANTS
    Probes = {p1}
    Watchers = {w1}
    Checks <- EveryBody
    Callers = {c1, c2}
    HttpConns = {h1}
    H2Conns = {r1, r2}
SPECIFICATION MCSpec
INVARIANTS TypeOK ServerInv
PROPERTIES NoReadyOnceTerminating TerminationIsSeen WatchConverges ShutterTerminates RegisteredShutdownEndsLaunch
CHECK_DEADLOCK FALSE
