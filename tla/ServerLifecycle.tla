--------------------------- MODULE ServerLifecycle ---------------------------
(***************************************************************************)
(* What a server of this package promises to the program that runs it        *)
(* (server/interface.go), without goroutines, locks or libraries: it is       *)
(* brought up, serves its connections, is stopped, goes down for a reason,    *)
(* and a call of Shutdown reports success only when the server can take no    *)
(* more connections and none is left open.  The one thing interface.go does   *)
(* not say is that a server may give connections up while they are open:      *)
(* those, and no others, outlive a Shutdown that reports success.  A server   *)
(* that gives none up (MayGiveUp = {}) keeps the promise as it is written.    *)
(***************************************************************************)
CONSTANTS
    Callers,
    Conns,
    MayGiveUp   \* connections that the server may give up

VARIABLES
    phase,      \* "created", "up", "stopping" or "down"
    open,       \* the open connections that the server accepted
    givenUp,    \* the connections that it has given up, open or not
    reason,     \* why it went down
    drained     \* the callers whose Shutdown reported success

vars == <<phase, open, givenUp, reason, drained>>

Init ==
    /\ phase = "created"
    /\ open = {}
    /\ givenUp = {}
    /\ reason = "none"
    /\ drained = {}

Up ==
    /\ phase = "created"
    /\ phase' = "up"
    /\ UNCHANGED <<open, givenUp, reason, drained>>

Accept(k) ==
    /\ phase = "up"
    /\ k \notin open
    /\ open' = open \cup {k}
    /\ UNCHANGED <<phase, givenUp, reason, drained>>

\* Connections end at any time.
Release(K) ==
    /\ open' = open \ K
    /\ UNCHANGED <<phase, givenUp, reason, drained>>

GiveUp(k) ==
    /\ k \in open \cap MayGiveUp
    /\ givenUp' = givenUp \cup {k}
    /\ UNCHANGED <<phase, open, reason, drained>>

\* Some connections may be closed with it.
Stop(K) ==
    /\ phase \in {"created", "up"}
    /\ phase' = "stopping"
    /\ open' = open \ K
    /\ UNCHANGED <<givenUp, reason, drained>>

\* A server goes down once.  It cannot fail to serve before it serves, it is
\* closed only when asked to, and a failure does not hide that it was asked,
\* except for an address or options that could never serve.
GoDown(e) ==
    /\ phase # "down"
    /\ phase' = "down"
    /\ reason' = e
    /\ e = "serve" => phase = "up"
    /\ e = "closed" => phase = "stopping"
    /\ phase = "stopping" => e \in {"closed", "listen", "config"}
    /\ UNCHANGED <<open, givenUp, drained>>

\* A Shutdown reports success: connections that were idle are closed with it.
ReportDrained(c) ==
    /\ phase \in {"stopping", "down"}
    /\ open' = open \cap givenUp
    /\ drained' = drained \cup {c}
    /\ UNCHANGED <<phase, givenUp, reason>>

Next ==
    \/ Up
    \/ \E k \in Conns : Accept(k) \/ GiveUp(k)
    \/ \E K \in SUBSET Conns : Stop(K) \/ Release(K)
    \/ \E e \in {"listen", "logger", "config", "closed", "serve"} : GoDown(e)
    \/ \E c \in Callers : ReportDrained(c)

Spec == Init /\ [][Next]_vars
=============================================================================
