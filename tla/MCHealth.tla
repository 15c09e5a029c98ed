------------------------------ MODULE MCHealth ------------------------------
(* What a server tells of itself and how a ConnectWebServer ends, for TLC: a     *)
(* check for every body and every status, and a ConnectWebServer.  One run       *)
(* checks both, each from its initial states while the other stays where it is.  *)
EXTENDS Health

CONSTANTS Callers, HttpConns, H2Conns       \* ConnectServer

VARIABLES
    transport, launch, listener, callback, inShutdown, shutter, cause, caller, conn, hijacked,
    part

Web == INSTANCE ConnectServer

ASSUME WebAssumption == Web!ConstantsOK

webvars == <<transport, launch, listener, callback, inShutdown, shutter, cause, caller,
             conn, hijacked>>
allvars == <<vars, webvars, part>>

EveryBody == {[isReady |-> TRUE,  out |-> "nil",           err |-> FALSE],
              [isReady |-> FALSE, out |-> "value",         err |-> FALSE],
              [isReady |-> TRUE,  out |-> "unmarshalable", err |-> FALSE],
              [isReady |-> FALSE, out |-> "nil",           err |-> TRUE]}

WebAway == transport = "plain" /\ Web!Init
HealthAway ==
    /\ handler = "server"
    /\ asks = [p \in Probes |-> "http"]
    /\ app = CHOOSE k \in Checks : TRUE
    /\ Init

MCInit ==
    \/ part = "health" /\ Init /\ WebAway
    \/ part = "web" /\ HealthAway /\ Web!Init

MCNext ==
    /\ UNCHANGED part
    /\ \/ part = "health" /\ Next /\ UNCHANGED webvars
       \/ part = "web" /\ Web!Next /\ UNCHANGED vars

\* The initial states of a part enable nothing that its fairness is about.
MCSpec == MCInit /\ [][MCNext]_allvars /\ Fairness /\ Web!Fairness

-----------------------------------------------------------------------------
\* What always holds of a ConnectWebServer: a terminated one whose callback was
\* registered in time has no connection left, and a shutdown is not a failure
\* (connectrpc/server.go:159-199).
ServerInv == Web!ServerInv

\* A shutter that was told to shut down gets to OnTerminated, with requests running
\* (connectrpc/server.go:159-199).
ShutterTerminates == Web!ShutterTerminates

\* A Shutdown whose callback was registered in time ends Launch
\* (connectrpc/server.go:183-199).
RegisteredShutdownEndsLaunch == Web!RegisteredShutdownEndsLaunch
=============================================================================
