------------------------------ MODULE Factory -------------------------------
(***************************************************************************)
(* server/options.go, server/factory: a program gives options one after the   *)
(* other, a server is made of them, services are registered and the server    *)
(* is launched.  Which server it becomes, what it serves and what of it ends  *)
(* the process depends on all of them together.                              *)
(***************************************************************************)
EXTENDS Integers, Sequences

CONSTANTS
    MaxOptions          \* bound on the options of a program

\* What the constants are.
ConstantsOK == MaxOptions \in Nat

VARIABLES
    target,     \* what the program calls: ServerFromOptions or connectrpc.New
    options,    \* server.Options
    applied,    \* history: the options given, in their order
    stage,      \* how far the program is
    services,   \* who answers for each service
    early,      \* history: how often the program registered each before Launch
    serves,     \* what the server speaks
    calling     \* an RPC looks for its service

vars == <<target, options, applied, stage, services, early, serves, calling>>

Services == {"app", "health", "reflection"}

-----------------------------------------------------------------------------
(* Options                                                                   *)

NewOptions ==
    [isPlainText |-> TRUE, tls |-> "nil", check |-> FALSE, over |-> {},
     registrator |-> FALSE, serverOptions |-> "none", url |-> "nil", logger |-> "default"]

WithServiceDiscoveryURL(o, u) == [o EXCEPT !.url = u]
WithSecureServer(o) == [o EXCEPT !.isPlainText = FALSE, !.tls = "given"]

WithInsecureServer(o) == [o EXCEPT !.isPlainText = FALSE, !.tls = "self-signed"]

WithPlainTextServer(o) == [o EXCEPT !.isPlainText = TRUE, !.tls = "nil"]
WithHealthCheck(o, over) == [o EXCEPT !.check = TRUE, !.over = over]
WithLogger(o, logger) == [o EXCEPT !.logger = logger]
WithRegisterService(o) == [o EXCEPT !.registrator = TRUE]

\* The options of a later call take the place of those before: limits, or a chain of
\* interceptors of grpc_middleware.
WithGRPCServerOptions(o, what) == [o EXCEPT !.serverOptions = what]

Names == {"secure", "insecure", "plain", "healthHTTP", "healthGRPC", "healthBoth",
          "register", "limits", "chain", "nilLogger", "traffic-director", "clientOnly"}

Apply(o, name) ==
    CASE name = "secure" -> WithSecureServer(o)
      [] name = "insecure" -> WithInsecureServer(o)
      [] name = "plain" -> WithPlainTextServer(o)
      [] name = "healthHTTP" -> WithHealthCheck(o, {"HTTP"})
      [] name = "healthGRPC" -> WithHealthCheck(o, {"GRPC"})
      [] name = "healthBoth" -> WithHealthCheck(o, {"HTTP", "GRPC"})
      [] name = "register" -> WithRegisterService(o)
      [] name \in {"limits", "chain"} -> WithGRPCServerOptions(o, name)
      [] name = "nilLogger" -> WithLogger(o, "nil")
      [] OTHER -> WithServiceDiscoveryURL(o, name)

TypeOK ==
    /\ target \in {"factory", "connect"}
    /\ options \in [isPlainText : BOOLEAN, tls : {"nil", "given", "self-signed"},
                    check : BOOLEAN, over : SUBSET {"HTTP", "GRPC"}, registrator : BOOLEAN,
                    serverOptions : {"none", "limits", "chain"},
                    url : {"nil", "traffic-director", "clientOnly"}, logger : {"default", "nil"}]
    /\ applied \in Seq(Names) /\ Len(applied) <= MaxOptions
    /\ stage \in {"options", "built", "launched", "panicked", "exited"}
    /\ services \in [Services -> {"nobody", "program", "check", "static", "package"}]
    /\ early \in [Services -> 0 .. 2]
    /\ serves \in {"none", "plain", "tls", "xds", "invalid"}
    /\ calling \in BOOLEAN

Init ==
    /\ target \in {"factory", "connect"}
    /\ options = NewOptions
    /\ applied = <<>>
    /\ stage = "options"
    /\ services = [s \in Services |-> "nobody"]
    /\ early = [s \in Services |-> 0]
    /\ serves = "none"
    /\ calling = FALSE

GiveOption(name) ==
    /\ stage = "options" /\ Len(applied) < MaxOptions
    /\ options' = Apply(options, name)
    /\ applied' = Append(applied, name)
    /\ UNCHANGED <<target, stage, services, early, serves, calling>>

-----------------------------------------------------------------------------
(* The server                                                                *)

\* ServerFromOptions, or New of the package connectrpc.
Kind ==
    IF target = "connect" THEN "connect"
    ELSE IF options.url = "traffic-director" THEN "traffic-director" ELSE "standard"

\* Mutant: the option is forgotten.
StandardServices_NoRegistrator ==
    [app |-> "nobody", reflection |-> "package",
     health |-> IF options.check /\ "GRPC" \in options.over THEN "check" ELSE "nobody"]

StandardServices ==
    [app |-> IF options.registrator THEN "program" ELSE "nobody", reflection |-> "package",
     health |-> IF options.check /\ "GRPC" \in options.over THEN "check" ELSE "nobody"]

TrafficDirectorServices ==
    [app |-> "nobody", reflection |-> "nobody", health |-> "static"]

\* The program's handlers are an argument of New.  Reflection comes with a check.
ConnectServices ==
    [app |-> "program",
     health |-> IF options.check THEN "static" ELSE "nobody",
     reflection |-> IF options.check THEN "package" ELSE "nobody"]

\* Both gRPC servers set a chain of interceptors; gRPC panics at a second one.
Build ==
    /\ stage = "options"
    /\ IF Kind # "connect" /\ options.serverOptions = "chain"
       THEN /\ stage' = "panicked"
            /\ UNCHANGED <<services, early>>
       ELSE /\ stage' = "built"
            /\ services' = CASE Kind = "standard" -> StandardServices
                             [] Kind = "traffic-director" -> TrafficDirectorServices
                             [] Kind = "connect" -> ConnectServices
            /\ early' = [early EXCEPT !["app"] =
                            IF Kind = "connect" \/ (Kind = "standard" /\ options.registrator)
                            THEN 1 ELSE 0]
    /\ UNCHANGED <<target, options, applied, serves, calling>>

\* RegisterService, or a registrar kept from ServiceRegistrar: gRPC ends the process
\* for a duplicate.
RegisterService(s) ==
    /\ stage = "built" /\ Kind # "connect"
    /\ early' = [early EXCEPT ![s] = @ + 1]
    /\ IF services[s] # "nobody"
       THEN stage' = "exited" /\ UNCHANGED services
       ELSE services' = [services EXCEPT ![s] = "program"] /\ UNCHANGED stage
    /\ UNCHANGED <<target, options, applied, serves, calling>>

\* What Launch chooses to serve.  "invalid": "this should never happen".
Transport ==
    CASE Kind = "traffic-director" -> "xds"
      [] Kind = "standard" /\ ~(options.check /\ "HTTP" \in options.over) -> "plain"
      [] OTHER -> IF options.tls # "nil" THEN "tls"
                  ELSE IF options.isPlainText THEN "plain" ELSE "invalid"

\* The first line of Launch goes to the program's logger, but for traffic director.
Launch ==
    /\ stage = "built"
    /\ IF options.logger = "nil" /\ Kind # "traffic-director"
       THEN stage' = "panicked" /\ UNCHANGED serves
       ELSE stage' = "launched" /\ serves' = Transport
    /\ UNCHANGED <<target, options, applied, services, early, calling>>

\* The interceptor of tracelog takes the logger of the options.
Call ==
    /\ stage = "launched"
    /\ calling' = ~calling
    /\ stage' = IF options.logger = "nil" THEN "panicked" ELSE stage
    /\ UNCHANGED <<target, options, applied, services, early, serves>>

\* The xDS server knows that it serves and ends the process.  The standard server
\* only ever gets requests from net/http and does not know; it adds to a map that
\* RPCs read, which ends the process when both happen at once.
LateRegisterService(s) ==
    /\ stage = "launched" /\ Kind # "connect"
    /\ \/ /\ (Kind = "traffic-director" \/ services[s] # "nobody" \/ calling)
          /\ stage' = "exited"
          /\ UNCHANGED services
       \/ /\ Kind = "standard" /\ services[s] = "nobody"
          /\ services' = [services EXCEPT ![s] = "program"]
          /\ UNCHANGED stage
    /\ UNCHANGED <<target, options, applied, early, serves, calling>>

Next ==
    \/ Build \/ Launch \/ Call
    \/ \E name \in Names : GiveOption(name)
    \/ \E s \in Services : RegisterService(s) \/ LateRegisterService(s)

Spec == Init /\ [][Next]_vars

-----------------------------------------------------------------------------
\* The options of the transport erase each other, in whatever order and however
\* often they are given (server/options.go:82-83, 182-183, 195-196).
LastTransportWins ==
    LET given == {i \in DOMAIN applied : applied[i] \in {"secure", "insecure", "plain"}}
        last == IF given = {} THEN "plain"
                ELSE applied[CHOOSE i \in given : \A j \in given : j <= i] IN
    /\ options.isPlainText <=> last = "plain"
    /\ options.tls = CASE last = "plain" -> "nil" [] last = "secure" -> "given"
                       [] last = "insecure" -> "self-signed"

\* No program gets to what "should never happen" (server/standard/server.go:173-176,
\* server/connectrpc/server.go:202).
NeverInvalid == serves # "invalid"

\* Departs from server/options.go:240-241 ("the different gRPC services that this
\* server is going to support"): a traffic director server never looks at the option.
IgnoresRegistrator == Kind = "traffic-director" /\ early["app"] = 0

\* What the program asked for before Launch, by the option, the handlers of New or
\* RegisterService, answers once the server is built, but for the option given to a
\* traffic director server: there nobody answers
\* (server/interface.go:8-13, server/standard/server.go:109-115).
EarlyRegistrationsAnswer ==
    stage \in {"built", "launched"} =>
        /\ \A s \in Services : early[s] > 0 => services[s] = "program"
        /\ options.registrator =>
              services["app"] = IF IgnoresRegistrator THEN "nobody" ELSE "program"

\* Departs from server/options.go:308-312 (a chain of interceptors "is going to
\* override" those of this package): gRPC panics at the second chain, in NewServer.
ChainPanics ==
    /\ Kind # "connect" /\ options.serverOptions = "chain"
    /\ \A s \in Services : services[s] = "nobody"

\* The process ends by itself only when the program gave a nil logger, registered a
\* service once more than it was free or registered after Launch; and, unlike what
\* its comment says, for a chain of interceptors among the options of gRPC
\* (server/factory/factory.go:18-38, server/standard/server.go:235-240).
EndsOnlyByMisuse ==
    /\ stage = "panicked" => options.logger = "nil" \/ ChainPanics
    /\ stage = "exited" /\ serves = "none" =>
          \E s \in Services :
              \/ early[s] = 2
              \/ early[s] = 1 /\ services[s] \notin {"nobody", "program"}

=============================================================================
