----------------------------- MODULE ClientDial -----------------------------
(***************************************************************************)
(* client.go, xds.go: how a program makes a client connection, and what       *)
(* becomes of its RPCs.  The functions put their own dial options before      *)
(* those of the program, and gRPC takes the last of a kind.  Then the         *)
(* channel connects, or not, to an endpoint that comes and goes.             *)
(***************************************************************************)
EXTENDS Integers, Sequences, SequencesExt, FiniteSetsExt

CONSTANTS
    RPCs,
    MaxExtra        \* bound on the program's own dial options

\* What the constants are.
ConstantsOK == MaxExtra \in Nat

VARIABLES
    call,       \* the function the program calls, with what
    server,     \* what the endpoint speaks, and if the mesh asks xDS clients for TLS
    conn,       \* what the function returned
    up,         \* the endpoint resolves and accepts connections
    channel,    \* the state of the channel
    rpc         \* the state of each RPC

vars == <<call, server, conn, up, channel, rpc>>

-----------------------------------------------------------------------------
(* Dial options                                                              *)

Functions == {"NewClientConn", "NewInternalClientConn", "NewInternalNoWaitClientConn",
              "NewExternalClientConn"}

Creds(c) == [kind |-> "creds", value |-> c]
WaitForReady(b) == [kind |-> "wait", value |-> IF b THEN "yes" ELSE "no"]
Autos == [insecureTLS : BOOLEAN, plainText : BOOLEAN, xds : BOOLEAN]

MoreThanOneTrue(a) == Cardinality({f \in DOMAIN a : a[f]}) > 1

\* WithAutoTransportCredentials.
AutoCreds(a, env) ==
    IF MoreThanOneTrue(a) THEN "error"
    ELSE IF a.xds THEN IF env THEN "xds" ELSE "error"
    ELSE IF a.plainText THEN "plain"
    ELSE IF a.insecureTLS THEN "skipVerify" ELSE "tls"

\* What the program may pass: the three flags, or a default call option.
Extras == [auto : Autos] \cup [wait : BOOLEAN]
OptionOf(e, env) ==
    IF "auto" \in DOMAIN e THEN Creds(AutoCreds(e.auto, env)) ELSE WaitForReady(e.wait)

Calls == [fn : Functions, xds : BOOLEAN, env : BOOLEAN,
          extra : UNION {[1 .. n -> Extras] : n \in 0 .. MaxExtra}]

\* gRPC takes the last option of a kind.
LastOf(options, kind, default) ==
    LET those == {i \in DOMAIN options : options[i].kind = kind} IN
    IF those = {} THEN default ELSE options[Max(those)].value

\* What each function puts before the program's options.
OwnOptions(fn) ==
    CASE fn = "NewInternalClientConn" -> <<Creds("plain"), WaitForReady(TRUE)>>
      [] fn = "NewInternalNoWaitClientConn" -> <<Creds("plain")>>
      [] fn = "NewExternalClientConn" -> <<Creds("tls")>>
      [] OTHER -> <<>>

ExtraOptions(c) == [i \in DOMAIN c.extra |-> OptionOf(c.extra[i], c.env)]
XdsOptions(c) == IF c.xds THEN <<Creds("xds")>> ELSE <<>>

\* Mutant: the credentials of an xds:// address are put after those of the function.
DialOptions_XdsLater(c) == OwnOptions(c.fn) \o XdsOptions(c) \o ExtraOptions(c)

DialOptions(c) == XdsOptions(c) \o OwnOptions(c.fn) \o ExtraOptions(c)

NoConn == [state |-> "none", creds |-> "none", wait |-> "no"]
States == {"none", "open", "badOption", "noBootstrap", "noCredentials"}

Open(c) == [state |-> "open", creds |-> LastOf(DialOptions(c), "creds", "none"),
            wait |-> LastOf(DialOptions(c), "wait", "no")]

\* WithMustAutoTransportCredentials panics before, grpc.NewClient fails after.
NewClientConn(c) ==
    IF Creds("error") \in ToSet(ExtraOptions(c)) THEN [NoConn EXCEPT !.state = "badOption"]
    ELSE IF c.xds /\ ~c.env THEN [NoConn EXCEPT !.state = "noBootstrap"]
    ELSE IF Open(c).creds = "none" THEN [NoConn EXCEPT !.state = "noCredentials"]
    ELSE Open(c)

-----------------------------------------------------------------------------
TypeOK ==
    /\ call \in Calls
    /\ server \in [tls : BOOLEAN, mesh : BOOLEAN]
    /\ conn \in [state : States, creds : {"none", "plain", "skipVerify", "tls", "xds"},
                 wait : {"yes", "no"}]
    /\ up \in BOOLEAN
    /\ channel \in {"idle", "connecting", "ready", "failure"}
    /\ rpc \in [RPCs -> {"none", "pending", "plain", "tls", "unavailable"}]

Init ==
    /\ call \in Calls
    /\ server \in [tls : BOOLEAN, mesh : BOOLEAN]
    /\ conn = NoConn
    /\ up \in BOOLEAN
    /\ channel = "idle"
    /\ rpc = [r \in RPCs |-> "none"]

\* What the client speaks.  xDS credentials fall back to plain text when the mesh
\* says nothing of security, as it does of an address that is not an xDS one.
Transport ==
    CASE conn.creds = "plain" -> "plain"
      [] conn.creds = "xds" -> IF call.xds /\ server.mesh THEN "tls" ELSE "plain"
      [] OTHER -> "tls"

Dial ==
    /\ conn.state = "none"
    /\ conn' = NewClientConn(call)
    /\ UNCHANGED <<call, server, up, channel, rpc>>

\* An RPC wakes an idle channel.
Invoke(r) ==
    /\ conn.state = "open" /\ rpc[r] = "none"
    /\ rpc' = [rpc EXCEPT ![r] = "pending"]
    /\ channel' = IF channel = "idle" THEN "connecting" ELSE channel
    /\ UNCHANGED <<call, server, conn, up>>

Fits == (Transport = "tls") = server.tls

Connect ==
    /\ channel = "connecting"
    /\ channel' = IF up /\ Fits THEN "ready" ELSE "failure"
    /\ UNCHANGED <<call, server, conn, up, rpc>>

Retry ==
    /\ channel = "failure"
    /\ channel' = "connecting"
    /\ UNCHANGED <<call, server, conn, up, rpc>>

Succeed(r) ==
    /\ rpc[r] = "pending" /\ channel = "ready"
    /\ rpc' = [rpc EXCEPT ![r] = Transport]
    /\ UNCHANGED <<call, server, conn, up, channel>>

\* Mutant: the option is taken the wrong way round.
FailFast_Inverted(r) ==
    /\ rpc[r] = "pending" /\ channel = "failure" /\ conn.wait = "yes"
    /\ rpc' = [rpc EXCEPT ![r] = "unavailable"]
    /\ UNCHANGED <<call, server, conn, up, channel>>

FailFast(r) ==
    /\ rpc[r] = "pending" /\ channel = "failure" /\ conn.wait = "no"
    /\ rpc' = [rpc EXCEPT ![r] = "unavailable"]
    /\ UNCHANGED <<call, server, conn, up, channel>>

\* Round robin connects again at once.
EndpointComesOrGoes ==
    /\ up' = ~up
    /\ channel' = IF channel = "ready" THEN "connecting" ELSE channel
    /\ UNCHANGED <<call, server, conn, rpc>>

Next ==
    \/ Dial \/ Connect \/ Retry \/ EndpointComesOrGoes
    \/ \E r \in RPCs : Invoke(r) \/ Succeed(r) \/ FailFast(r)

\* The channel tries again after its back-off, and RPCs learn of its state.
Fairness ==
    /\ WF_vars(Connect) /\ WF_vars(Retry)
    /\ \A r \in RPCs : WF_vars(Succeed(r)) /\ SF_vars(FailFast(r))

Spec == Init /\ [][Next]_vars /\ Fairness

-----------------------------------------------------------------------------
AutoAt(i) == "auto" \in DOMAIN call.extra[i]
NoAuto == \A i \in DOMAIN call.extra : ~AutoAt(i)

LastAuto(i) == AutoAt(i) /\ \A j \in DOMAIN call.extra : j > i => ~AutoAt(j)

\* Departs from client.go:97-98 ("default gRPC applies which is full TLS"): the code gives
\* xDS credentials a plain text to fall back to when the mesh says nothing of security.
FallsBack == ~(call.xds /\ server.mesh)

\* An RPC is in plain text only if the last credentials that the program chose allow it:
\* its last option, or else the function of the internal clients, or else the xds://
\* address of NewClientConn.  An external client without an option speaks TLS, whatever
\* the address; xDS credentials speak plain text only as their fallback
\* (client.go:64-66, 88-91, 101-128, 142-159).
PlainTextIsAskedFor ==
    (\E r \in RPCs : rpc[r] = "plain") =>
        \/ /\ NoAuto
           /\ \/ call.fn \in {"NewInternalClientConn", "NewInternalNoWaitClientConn"}
              \/ call.fn = "NewClientConn" /\ call.xds /\ FallsBack
        \/ \E i \in DOMAIN call.extra :
              /\ LastAuto(i)
              /\ call.extra[i].auto.plainText \/ (call.extra[i].auto.xds /\ FallsBack)

\* A connection that was asked for with contradicting flags, or with xDS and no
\* bootstrap file, is never opened, whatever other options follow
\* (client.go:111-114, 135-138, 199-201).
ContradictionsDoNotDial ==
    conn.state = "open" =>
        /\ \A i \in DOMAIN call.extra :
              AutoAt(i) => /\ ~MoreThanOneTrue(call.extra[i].auto)
                           /\ (call.extra[i].auto.xds => call.env)
        /\ (call.xds => call.env)

\* RPCs of an internal client never fail because the endpoint is not ready, unless
\* the program says so (client.go:58-61).
InternalWaits ==
    call.fn = "NewInternalClientConn" /\ (\A i \in DOMAIN call.extra : AutoAt(i)) =>
        \A r \in RPCs : rpc[r] # "unavailable"

\* RPCs that wait are answered once the endpoint stays, if it speaks what the client
\* does; those that do not wait end either way (client.go:58-61, 75-78).
RPCsEnd ==
    \A r \in RPCs :
        /\ (<>[]up => (rpc[r] = "pending" /\ Fits ~> rpc[r] # "pending"))
        /\ (<>[]up \/ <>[](~up) =>
               (rpc[r] = "pending" /\ conn.wait = "no" ~> rpc[r] # "pending"))
=============================================================================
