----------------------------- MODULE MCConnPool -----------------------------
(* The package dgrpc for TLC: a pool whose counter of 2 bits wraps after four     *)
(* calls, a client connection, the size logger, or the logger of gRPC.  One run   *)
(* checks all four, each from its initial states while the others stay where they *)
(* are.                                                                       *)
EXTENDS ConnPool

CONSTANTS
    RPCs, MaxExtra,                                                     \* ClientDial
    Receivers, MessageLimit, Sizes, MaxDuration, MaxTime, MaxCount, MaxBytes, \* SizeLogger
    Threads, MaxSets                                                    \* GrpcLogger

VARIABLES
    call, server, conn, up, channel, rpc,
    pc, read, messageCount, bytes, lastReceivedTime, waitToReceive, now, stats, received,
    overlapped,
    log, sets, ended, answer, thread,
    part

Dial == INSTANCE ClientDial
Size == INSTANCE SizeLogger WITH RPCs <- Receivers
Grpc == INSTANCE GrpcLogger

ASSUME DialAssumption == Dial!ConstantsOK
ASSUME SizeAssumption == Size!ConstantsOK
ASSUME GrpcAssumption == Grpc!ConstantsOK

dialvars == <<call, server, conn, up, channel, rpc>>
sizevars == <<pc, read, messageCount, bytes, lastReceivedTime, waitToReceive, now, stats,
              received, overlapped>>
grpcvars == <<log, sets, ended, answer, thread>>
allvars == <<vars, dialvars, sizevars, grpcvars, part>>

DialAway ==
    /\ call = [fn |-> "NewClientConn", xds |-> FALSE, env |-> FALSE, extra |-> <<>>]
    /\ server = [tls |-> FALSE, mesh |-> FALSE]
    /\ up = FALSE
    /\ Dial!Init
GrpcAway == log = Grpc!Unset /\ Grpc!Init

MCInit ==
    \/ part = "pool" /\ Init /\ DialAway /\ Size!Init /\ GrpcAway
    \/ part = "dial" /\ Init /\ Dial!Init /\ Size!Init /\ GrpcAway
    \/ part = "size" /\ Init /\ DialAway /\ Size!Init /\ GrpcAway
    \/ part = "grpc" /\ Init /\ DialAway /\ Size!Init /\ Grpc!Init

MCNext ==
    /\ UNCHANGED part
    /\ \/ part = "pool" /\ Next /\ UNCHANGED <<dialvars, sizevars, grpcvars>>
       \/ part = "dial" /\ Dial!Next /\ UNCHANGED <<vars, sizevars, grpcvars>>
       \/ part = "size" /\ Size!Next /\ UNCHANGED <<vars, dialvars, grpcvars>>
       \/ part = "grpc" /\ Grpc!Next /\ UNCHANGED <<vars, dialvars, sizevars>>

\* The initial states of a part enable nothing that its fairness is about.
MCSpec == MCInit /\ [][MCNext]_allvars /\ Dial!Fairness /\ Size!Fairness

-----------------------------------------------------------------------------
\* A client connection speaks plain text, fails at once or waits as the program's own
\* options say, and contradictions are never opened (client.go:51-167).
DialInv ==
    /\ Dial!TypeOK
    /\ Dial!PlainTextIsAskedFor
    /\ Dial!ContradictionsDoNotDial
    /\ Dial!InternalWaits

\* RPCs that wait are answered once a fitting endpoint stays, others end either way
\* (client.go:58-61, 75-78).
RPCsEnd == Dial!RPCsEnd

\* As long as no two RPCs were in HandleRPC at once, lines are about messageLimit
\* messages and the time since the line before, and they keep coming; the count passes
\* the limit only if two were (size_logger.go:41-76).
SizeLines ==
    /\ [](Size!TypeOK /\ Size!PassedOnlyByOverlap)
    /\ Size!LinesAreWhole
    /\ Size!LinesKeepComing

\* A line is written to a logger that was in place during its call
\* (logging.go:46-57, 248-268).
GrpcLoggerInv == Grpc!TypeOK /\ Grpc!LinesGoToTheLoggerInPlace
=============================================================================
