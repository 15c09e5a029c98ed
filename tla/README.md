# Formal models of dgrpc

TLA+ modules of the parts of `github.com/streamingfast/dgrpc` that run
concurrently, that fail, or whose order matters: the three servers and their
shutdown, the way of a request through the interceptors, the options a server
is made of, trace identifiers, health checks, the bootstrap file, the name
resolver, client connections, the connection pool and the loggers. TLC
model-checks each on a small instance; TLAPS proves every safety property that TLC
checks for every instance, and with TLC stays what must eventually happen. Source
paths below are relative to the
repository, without `src/`.

## 1. The system

| Component | State it keeps | Operations | Meets | Hard because |
|---|---|---|---|---|
| `StandardServer` (`server/standard/server.go`) | `httpServer`, `grpcServer`, `shutter`, options | `Launch`, `Shutdown`, `OnTerminated` | net/http, h2c, grpc, shutter | `Launch` and `Shutdown` race on an unsynchronised field; two ways to shut down; deadlines; hijacked connections |
| `ConnectWebServer` (`server/connectrpc/server.go`) | `Shutter`, options, handler | `New`, `Launch`, `Shutdown` | net/http, h2c, connect, shutter | the server is closed by a callback registered in the middle of `Launch`; the callback waits for `Serve` |
| `TrafficDirectorServer` (`server/discovery-service/traffic-director/server.go`) | `xdsServer`, `shutter` | `Launch`, `Shutdown`, `OnTerminated` | xds, grpc, shutter | a timer races with `GracefulStop` in a goroutine and with other calls |
| Interceptors, compression, errors (`newGRPCServer`, `interceptors.go`, `compression.go`, `connectrpc/*.go`) | none but the order of the layers | in and out of each layer | the program's handlers and interceptors | order of layers; panics unwinding through them |
| Log levels, gRPC logger (`server.go`, `logging.go`) | the logger set last | `SetGRPCLogger`, `V` | grpclog | |
| Health checks (`server/health.go`, `connectrpc/health.go`, `healthCheck`, `HealthHandler`) | one status per stream | `Check`, `List`, `Watch`, `/healthz` | shutter, the program's check | check-then-act on the shutter; streams send changes only |
| `betterdns` resolver (`server/standard/resolver.go`) | one `cancelContext` and one channel for the process; locals of a goroutine per client connection | `Build`, `Close`, `ResolveNow`, `manageConnections` | gRPC's client connections, DNS | shared state between connections; failures, retries |
| `RoundRobinConnPool` (`conn.go`) | an atomic 32-bit counter, the connections | `Conn`, `Invoke`, `NewStream`, `Close` | grpc | counter wraps; partial failures of `Close` |
| Factory and options (`server/factory`, `server/options.go`, `server/secure.go`) | options | `ServerFromOptions`, `With...`, `RegisterService` | all servers | options erase each other; which server honours which; misuse ends the process |
| Tracing (`server/tracelog`, `server/standard/tracing.go`) | the identifier in a request's context | propagators, interceptors | otel, grpc_zap | each takes or replaces the identifier in turn; logs note it at different points |
| Discovery bootstrap (`server/discovery-service`, its `traffic-director/bootstrap.go`) | a file | `Bootstrap` | the metadata server, the disk, gRPC's xDS client, other processes | four steps of writing, each of which may fail; crashes and restarts; a shared file |
| Client dialing (`client.go`, `xds.go`) | the dial options | `New...ClientConn`, `With...` | grpc | the last option of a kind wins; RPCs that wait for a server |
| Size logger (`size_logger.go`) | four plain fields per connection | `HandleRPC` | grpc stats | RPCs run concurrently without a lock; a duration that wraps |
| Example programs, HTTP error logger, errors, generated code | | | | see section 8 |

What makes each correct, and the property that says so:

- `StandardServer`: a `Shutdown` that reports success has drained what net/http
  knows of: all connections of a TLS server, and on plain text all but those of
  HTTP/2, which gRPC uses (`GracefulMeansDrained`; that `interface.go` promises more
  is shown by the run `server_waits_for_active`). The end of `Launch` is always reported, once, with
  the right reason (`LaunchReports`, `ClosedOnlyByShutdown`), nothing is
  accepted at the end (`NothingAcceptedAtTheEnd`), calls return
  (`ShutdownReturns`) and end the server (`SeenShutdownTerminates`); as a whole it is a `ServerLifecycle`.
- `ConnectWebServer`: a terminated server is closed and a shutdown is not a
  failure (`TerminatedMeansClosed` and `ClosedIsNotAFailure`, in `ServerInv`), neither the shutter nor
  `Launch` waits for ever (`ShutterTerminates`, `RegisteredShutdownEndsLaunch`).
- `TrafficDirectorServer`: every `Shutdown` that returned stopped the server
  (`ReturnedMeansStopped`, in `ServerInv`), ends `Launch` (`ShutdownEndsLaunch`) and leaves no
  goroutine (`NoStopperIsLeft`); it is a `ServerLifecycle`.
- Requests: panics stay in their request where there is an isolation
  (`PanicsAreIsolated`), ends are logged (`EndsAreLogged`), internal errors are
  not shown (`InternalErrorsAreGeneric`), enforced compression is enforced
  (`EnforcedIsCompressed`, in `RequestsInv`).
- Options: the last of the transport wins, no program gets to an invalid
  configuration, what was registered before `Launch` answers, and only misuse ends
  the process (`FactoryInv`); the two cases in which the code departs from the
  comments of its options are named in the formulas (`IgnoresRegistrator`,
  `ChainPanics`).
- Tracing: the client's identifier reaches the handler, and both logs tell it
  (`TracingInv`).
- Bootstrap: nil means written (`BootstrapInv`), a file that nobody writes can be
  read (`QuietFileIsReadable`), a restart repairs what a crash left
  (`RestartRepairs`).
- Client dialing: plain text only if the last credentials chosen allow it, TLS for an
  external client whatever its address, contradictions are never opened, internal
  clients wait (`DialInv`), RPCs end (`RPCsEnd`).
- Size logger: lines are about whole windows and keep coming, as long as RPCs do not
  overlap (`SizeLines`). gRPC logger: a line goes to a logger in place during its
  call (`GrpcLoggerInv`).
- Health: whoever looks at the shutter is not ready once terminating
  (`NoReadyOnceTerminating`), open streams of the standard server learn of it
  (`TerminationIsSeen`), and all streams follow the program (`WatchConverges`).
- Resolver: `Close` ends its own goroutine (`CloseIsItsOwn`, `ClosedIsReleased`),
  rotated answers disturb nobody (`QuietWhileRotating`), connections converge
  (`Converges`).
- Pool: fair up to wraps (`BalancedUpToWraps`, in `PoolInv`); `Close` closes everything
  (`CloseClosesAll`), and reports success only if it did all of it itself
  (`OneCloseSucceeds`).

## 2. The modules

`ServerLifecycle` is the abstract specification: what a server promises to the
program that runs it (`server/interface.go`), in five variables. It may give
connections up (`GiveUp`), which then outlive a `Shutdown` that reports success; which
ones is the constant `MayGiveUp`. `StandardServer`, for which these are the HTTP/2
connections that its h2c handler takes from the http.Server, and `TrafficDirector`,
which gives up none, implement it (`LifecycleSpec` in each, through
`INSTANCE ServerLifecycle WITH` and a refinement mapping). `ConnectServer` does
not: its `Shutdown` reports success to the callers that find another one under
way before anything is closed, so no mapping exists; its own properties take the
place of the refinement. `Requests` extends `Logging`. `...Proofs` hold the
theorems, and the modules `MC...` give TLC its constants.

Four of the latter also put components side by side that are used together and
do not share state: `MCTrafficDirector` (the server and the file it starts from),
`MCRequests` (requests, the options that decide on a server, their trace
identifier), `MCHealth` (health checks and the end of a `ConnectWebServer`) and
`MCConnPool` (what a client has of this package). A variable
`part` says which of them a behaviour is about; the others stay in an initial
state of theirs in which none of their fair actions is enabled. The properties of
a part hold by themselves in those states, so each is checked on all behaviours of
its own part and on no product of them. What is checked of a part is one named
conjunction (`FactoryInv`, `DialInv`, ...) of the properties its module states. The
theorems about a part (`File!Spec => []BootstrapInv`) are of the specification of that
part, without the constants and the initial states that the `MC...` module adds.

### StandardServer

`launch` is the program counter of `Launch`, `caller[c]` that of each call of
`Shutdown`. Steps are cut where goroutines can interleave: at the read of the
`httpServer` field (`ShutdownRead`; its result is used a step later, the data
race being read as an atomic read that may come before or after the write), at its write
(`LaunchCreateHTTPServer`), at the calls of the libraries and at each pass of
`http.Server.Shutdown`'s loop. `options` chooses among health over nothing, gRPC
or HTTP and plain text, TLS or neither. Connections are of HTTP/1.1 or HTTP/2;
the h2c handler takes an HTTP/2 connection away from a plain-text `http.Server`
(`hijacked`).

The gRPC path of `Shutdown` is taken by a call that comes early. The `grpc.Server`
there only ever gets RPCs through `ServeHTTP`. `Stop` closes those it finds ("ending",
`RpcCloses`), serves those that come while it waits, and waits for them too
(`GrpcStopped`). `GracefulStop` runs in a goroutine of its own (`stopper`); with an RPC
running, the drain of its transport panics and ends the process (`crashed`), and
nothing happens any more. Liveness properties name that end.

### ConnectServer

The same `Launch` with the shutter first: `Shutdown` ignores its timeout and
gives the shutter a nil error; the first caller runs the callbacks
(`RunCallbacks`, `CloseConns`), the others return. `callback` says whether
`OnTerminating` was called before the callbacks ran, or too late ("lost"):
nothing then closes the server. This is what the premises of
`TerminatedMeansClosed` and `RegisteredShutdownEndsLaunch` are about.

### TrafficDirector

`xds.GRPCServer` is modelled as the `grpc.Server` it wraps: `Stop` marks the
server ("quitting"), then closes connections; `GracefulStop` drains. Each timed
`Shutdown` has a `stopper`, its goroutine. All forced and graceful calls
interleave.

### Requests and Logging

A request is at a layer, on its way in or out. `Chain` lists the layers of
`newGRPCServer`, `traffic_director.NewServer` and `connectrpc.New` that can end a
call, change its outcome or log it. `Panic` is a panic of the program's code: its
interceptors, its handlers and the `errorMapper` of an `ErrorsInterceptor`. It is
recovered by the nearest isolation around it, else by net/http (connect) or
nobody (gRPC runs a handler in a goroutine of its own). The `ErrorsInterceptor`
is the first or the last of the extra interceptors, or not there. On the way out
interceptors of the program may replace the reply (`Replies`). A request is for
`Health/Check`, for another method of that service or for any other:
`CompressionHandler` lets pass what begins with `/grpc.health` (`IsHealth`), while the
access log exempts the one method `Check` (`AccessLine`). What an `errorMapper` turns
an error into is left out. `CodeLevel` has the two tables of levels.

### GrpcLogger

`settableLoggerV2` and `V` of `zapGrpcLoggerV2`. A call of a goroutine loads the
logger set last (`Get`) and writes to it a step later (`Write`); `Set` may come in
between. `Discard` is what `Reset` stores: an `atomic.Value` panics at a second
concrete type.

### Factory

Options are given one after the other (`GiveOption`), then a server is built and
launched. `services` says who answers for each service: the program, the server
or nobody. `stage` "panicked" is a nil logger or a second chain of interceptors,
"exited" the `Fatal` of a registration that gRPC refuses. Two properties have an
exception with a name, each where the code does other than the comment of an option:
`IgnoresRegistrator` and `ChainPanics`.

### Tracing

`todo` is what a request still has to go through: the propagators that
`tracelog`'s `init` installs, the span of the gRPC server, the interceptors.
Identifiers are named for where they come from.

### Bootstrap

`pc` is where each process is in `Bootstrap`: `Start` is what it looks up and may
refuse, `Create`, `WriteConfig`, `WriteNewline` and `Close` are the system calls,
`MakeServer` is `xds.NewGRPCServer` reading the file. The file is a sequence of
tokens: what a config says does not matter but how long it is, since processes
write at offsets of their own. `healthy` is the metadata server and the disk.
A write that fails writes a part. A process that fails ends (its caller gives up)
and may be started again, as after `Crash`. A process whose URL is another or
whose network is not given reads the file only.

### ClientDial

`DialOptions` is the list that each function passes to gRPC, which takes the last
of a kind. The options of a program are credentials, waiting, or
`WithAutoTransportCredentials` with its flags. The channel (external) connects to
an endpoint that comes and goes and speaks TLS or plain text. xDS credentials fall
back to plain text unless the mesh asks for TLS (`FallsBack`), which `client.go:97-98`
does not tell.

### SizeLogger

`HandleRPC`, cut where two goroutines can see each other's work: `Wait` reads the
count, `Add` writes it, `Compare` and `Log` follow. `received` and `overlapped` are
history. Of the three sums of bytes one is modelled, and of the two times too.

### Health

`BeginCheck` is the look at the shutter, `RunCheck` the call of the program's
function; handlers of `/healthz`, `Check`, `List` and `Watch` use the result later.
`handler` chooses the package, which differ in the first status of a stream and in
who looks at the shutter (`LooksAtShutter`): all handlers of the standard server, which
pass `healthCheck` on, but in `connectrpc` only `/healthz`, since `NewHealthGRPCHandler`
is given the program's check itself. `asks` is what a probe asks over.

### Resolver

One goroutine per `Build`; `cancelContext` is the `Build` whose context `Close`
would cancel. `Overlap` says whether a `Build` may come before the `Close` of
the one before: FALSE is a single client connection that goes idle and back,
TRUE is several. `SameAddresses` sorts like the code does, said as the existence of
a renumbering. A malformed target panics and ends the process (`Alive`).

### ConnPool

`Inc` and `Pick` are the two halves of `Conn()`. `Width` is the width of the
counter (32 in the code), `MaxCalls` bounds TLC's runs. `own` is history: what each
`Close` closed before anybody else, whatever it then reports.

### What is assumed of libraries

These are marked external in the map, and are modelled from their use:

- `http.Server.Shutdown` closes the listener, waits for `Serve` to return, then
  polls: it closes idle connections (a new one counts as idle after five
  seconds) until none is left. `Close` waits for `Serve` too and closes all
  connections it tracks. Both forget hijacked connections. `Serve` returns
  `ErrServerClosed` as soon as either began, and never nil.
- `grpc.Server` with connections of its own (`TrafficDirector`): `Stop` closes
  connections and cancels RPCs, whose handlers are assumed to return; `GracefulStop`
  lets them end. `Serve` returns nil after either is done, an error if called later.
- `grpc.Server` behind `ServeHTTP` (`StandardServer`): `Stop` closes the RPCs it finds
  and refuses new ones when none is left; `GracefulStop` panics ("Drain() is not
  implemented") if it finds one.
- `shutter`: the first `Shutdown` keeps its error and runs the callbacks
  registered so far in the caller's goroutine, the others return at once.
- Errors of a TLS configuration come out of `ServeTLS` like a failed `Accept`.

## 3. The runs

| Run | Module, constants | Shows |
|---|---|---|
| `server` | `StandardServer`: one forcing and one timed caller, one connection of each kind, all options | the safety and liveness of `StandardServer`, and its refinement |
| `traffic_director` | `MCTrafficDirector`: one forcing and two timed callers, two connections; two processes that share the file, one crash | the properties of `TrafficDirectorServer` and its refinement; those of the bootstrap file |
| `requests` | `MCRequests`: two requests, two outcomes, eight headers; three options; every set-up of tracing | the properties of requests on all servers and options; of options; of trace identifiers |
| `health` | `MCHealth`: one probe, one stream, four results of the program's check; two callers, one HTTP/1.1 and two HTTP/2 connections, each transport | the properties of health; those of `ConnectWebServer` |
| `resolver` | `MCResolver`: two successive Builds, two addresses in both orders and one of them twice | the five properties of the resolver |
| `pool` | `MCConnPool`: three connections, a counter of two bits, nine calls, two callers, two closers; an RPC and two dial options; two receiving RPCs, a limit of two; a goroutine that logs, two replacements | the properties of the pool, of client connections, of the size logger and of the gRPC logger |

Six more runs show statements of the documentation that the code does not keep;
each stops at a counterexample:

| Run | The text says | The code |
|---|---|---|
| `server_lost_shutdown` | `server/interface.go:22-23`: `Launch` blocks until a call of `Shutdown()` | a `Shutdown` that comes before `httpServer` is set stops the gRPC server only; `Launch` serves for ever |
| `server_waits_for_active` | `server/interface.go:28-30`: the server will wait for all active connections to be closed | connections of HTTP/2 on plain text are hijacked and forgotten; `Shutdown` reports success while their RPCs run (`standard/server.go:343`) |
| `server_force_after_timeout` | `server/interface.go:32-33`: the server will force shutdown | the expired deadline is logged; connections stay open (`standard/server.go:343`) |
| `server_secure` | `standard/server.go:76`: `WithSecure` starts a TLS endpoint | without a health check over HTTP it serves plain text (`standard/server.go:188`) |
| `resolver_shared_context` | `standard/resolver.go:167`: Close will close the context | it closes that of the last `Build`, maybe of another connection |
| `grpc_verbosity` | `logging.go:36`: the verbosity is set to 0 | the inferred value is not used (`logging.go:129`) |

### Bounds, and why they are enough

- `server`: properties are about one call, one connection, or a call against
  another; the two callers take different paths and a shared library state in
  every order. The safety properties are proved for any number (section 5).
- `ConnectServer`: the second caller is one that finds a shutdown under way; a third
  would do the same. Two HTTP/2 connections let one be hijacked and the other
  not yet.
- `traffic_director`: two goroutines in `GracefulStop` and a `Stop`, which is
  each pair of calls; two connections, so that one may be idle and one busy.
- `requests`: two, so that a panic of the one meets the other; one outcome that
  is fine and one that is not. Requests share only the process. Of the headers
  there is one for each way through `CompressionHandler`.
- `health`: streams do not share state, so one is enough; a probe is there for
  the other handlers. Of the results there is one for each status and each body
  that is not plain.
- `resolver`: a second `Build` after a `Close` is what state carried over needs.
- `pool`: three does not divide four, so the wrap is uneven; nine calls wrap
  twice.
- Bootstrap: two processes are what it takes to write over each other; one crash and
  any number of failures, since `healthy` changes at any time. Three lengths of a
  config, for the three kinds of deployment.
- Factory: three options, so that any option may come before, between and after two
  others, and one may be given twice.
- Tracing: everything about one request is enumerated; there is no bound.
- ClientDial: RPCs share the channel only, so one is enough; two options, so that one
  overrides another.
- SizeLogger: with a limit of two, two RPCs can lose an increment, pass the limit, and
  overlap in the line. The count stays at `MaxCount` = 3 once it has passed the limit
  and the clock stops at 2; the largest duration is 4, so that the sum of the first
  two waits wraps.
- GrpcLogger: goroutines meet at the logger only; two replacements, so that one falls
  into a call and one behind it.

Deadlock is not checked where the system may really stop: all
calls made and connections closed, all answers sent, or a panic; that is so in
every run.

## 4. Fairness

- Goroutines of the server run: `Launch` between its blocking calls, each call of
  `Shutdown`, the shutter, the goroutines of `GracefulStop`. Weak fairness, the
  Go scheduler being preemptive. Timers fire, so a timed select does not wait
  for ever.
- `Serve` returns once the server is shut down, as the library promises; that
  `Accept` fails is never required.
- Nothing is required of clients and the program: that they end a request, close
  a connection, call `Launch` or `Shutdown`. Where a call of `Shutdown` can wait for a
  client the premise is in the property: without a timeout on the HTTP path, that no
  client keeps a request open for ever (`ViaHTTPReturns`); on the gRPC path, where even
  `Stop` waits for an RPC that came too late, that they leave off (`ViaGRPCReturns`).
- A process that crashed does nothing more: every fairness of `StandardServer` is of
  steps of a process that lives.
- `Resolver`: strong fairness of the branch of the select whose context is done,
  since Go chooses at random among the ready branches.
- `Bootstrap`: a process takes its next step, and what supervises it starts it again.
  That the disk or the metadata server recovers is not assumed: `RestartRepairs` has
  it as its premise.
- `ClientDial`: the channel connects when it can and tries again (weak), RPCs that
  fail fast learn of a failure that comes again and again (strong). That an endpoint
  comes is a premise of `RPCsEnd`.
- `SizeLogger`: `HandleRPC` ends once called; that messages come is a premise.
- `Health`: the loop of each stream goes round and health checks return.

## 5. What is proved

For every value of the constants, from the named assumptions of the modules
only (disjoint sets of callers and of connections; a pool that is not empty; codes,
headers and results of checks that are some; positive limits; addresses that are
lists of numbers, none of them empty; a process that is not called "none").
`ModulusAssumption` of `ConnPool` follows from `WidthAssumption`; it is there because
the provers know nothing of powers, and TLC evaluates it.

| Module | Theorem | Establishes |
|---|---|---|
| `StandardServerProofs` | `Typing` | `TypeOK` |
| | `GracefulMeansDrainedHolds`, `LaunchReportsHolds`, `ClosedOnlyByShutdownHolds` | the invariants of the run `server` |
| | `NothingAcceptedAtTheEndHolds` | the action property |
| | `Refinement` | `StandardServer` implements `ServerLifecycle` |
| `TrafficDirectorProofs` | `ServerInvHolds` | `ServerInv`: a `Shutdown` that returned stopped the server |
| | `Refinement` | `TrafficDirector` implements `ServerLifecycle` |
| | `BootstrapInvHolds`, `QuietFileIsReadableHolds` | the safety of the bootstrap file, for any number of processes and crashes |
| `ConnectServerProofs` | `ServerInvHolds` | `ServerInv`: a terminated server is closed, a shutdown is no failure |
| `RequestsProofs` | `PanicsAreIsolatedHolds`, `EndsAreLoggedHolds`, `InternalErrorsAreGenericHolds`, `RequestsInvHolds` | the four properties of requests |
| | `FactoryInvHolds` | `FactoryInv`, for any number of options in any order |
| | `TracingInvHolds` | `TracingInv` |
| `HealthProofs` | `Typing`, `NoReadyOnceTerminatingHolds` | `TypeOK`, `NoReadyOnceTerminating` |
| `ResolverProofs` | `CloseIsItsOwnHolds` | `CloseIsItsOwn`, if `~Overlap` |
| | `Typing` | `TypeOK` |
| | `SameAddressesIsSameBag` | `sameAddresses` compares how often each address occurs, for any two lists |
| | `QuietWhileRotatingHolds` | `QuietWhileRotating`, also while Builds overlap |
| `ConnPoolProofs` | `CloseClosesAllHolds`, `OneCloseSucceedsHolds` | the two properties of `Close` |
| | `PoolInvHolds` | `PoolInv`: the balance, for any number of connections, any width of the counter and any number of wraps |
| `ClientProofs` | `DialInvHolds` | `DialInv`, for any number of dial options |
| | `SizeLinesHold` | the safety in `SizeLines`, for any limit, clock and number of RPCs |
| | `GrpcLoggerInvHolds` | `GrpcLoggerInv`, for any number of goroutines and replacements |

The inductive invariant of `StandardServer` is `IInv`. `GracefulMeansDrained` is
not inductive: nothing in it keeps a connection from being accepted after the
drain. `DrainedForGood` adds that nobody serves any more; that this stays true
needs that the http.Server's mark is set exactly when a caller got that far
(`ShutdownWasCalled`), and that `Serve` refuses a marked server. `HijackedIsPlain` is
what remains open then: connections of HTTP/2, of a server without TLS.
`ShutterFollowsLaunch` says that only `Launch` moves the shutter, which
`LaunchReports` is a consequence of; `ListenerClosed`, that a marked server that
still serves has no open listener, which is why nothing is accepted. `SetBeforeUse`
is for the refinement: a server that is being shut down has come past the places
where `Launch` can fail for reasons of its own. The refinement is one
lemma for the steps of each actor, most of them steps that only release
connections (`ReleaseRefines`).

In `TrafficDirector` a `Shutdown` returns after its own stop or after its goroutine's
word that the drain is over; `EndsAreForGood` says that either has seen the server
done, which it stays, and `StopsAreSeen` that a done server has no connection. In
`ConnectServer`, `ClosedByCallback` ties the http.Server's mark to the callback and
the shutter; `ClosedForGood` adds that nobody serves any more, so that
`TerminatedMeansClosed` is kept.

In `RequestsProofs` the chains are first reduced to their layers (`ChainIs`: concatenation is
opaque to the provers). `Placed` says that a request on its way is at a layer, and
that nothing has happened on the way in; then each property has its own half of the
invariant about requests that are still on their way out: `PanicIsReply`, `Lined`
(the lines as a function of who replied and how far the reply has come) and `Hidden`
(a message that must not be shown still has its `ErrorsInterceptor` to pass).

The factory's invariant, in the same module, ties the fields of the options to the
names given so far: the last name of a transport is the one that the fields speak
(`OptionsTell`, one lemma for what each option does to them, `ApplyIs`).
`Registrations` says what a registration can leave behind in each stage: before
`Launch` the program answers for exactly the services that it registered. Of tracing the module first proves
at which position of `Steps` each propagator and interceptor is (`StepsAre`, `StepAt`);
`After(n)` then says what the context, the logger and the access line hold once n steps
are done, and each action takes `After(n)` to `After(n + 1)`.

In `TrafficDirectorProofs`, `FileIInv` is the invariant of the bootstrap file. Neither
property is inductive: that the file is readable when nobody writes depends on what
those who still write will do. `OneLength` says of writers of configs of one length
that the file is as long as one of their writes left it, ends in a newline if it is
that long, and either has one config in full or still has somebody about to write one
from the start; a writer that fails spoils it. A file that was made while others had it
open may have a hole until then. `OwnerIsAlone` is the same for a process that made
the file with nobody else there: token by token, the file is what this process has
written. `WriteAtIs` and `TextIs` say what a write at an offset and a config are.

`NoReadyOnceTerminating` is of the form that something holds for ever once a
condition was met: `AskedLate` is kept by every step from there on.

In `ResolverProofs` the strengthening for `CloseIsItsOwn` is that there is at most one
open connection and `cancelContext` is its own. `QuietWhileRotating` rests on
`SameAddressesIsSameBag`: from equal counts of each address, one bijection for each is
put together to the renumbering that sorting amounts to, and back.

In `ConnPoolProofs` a closer at position n has closed everything before n, and one
without errors closed those itself, which two cannot do. The balance is about tickets,
not picks: `Sent(n)` is what connection n was given plus who holds a ticket for it.
`BalancedAt(turns)` counts the turns of the counter: each gives every connection one
ticket, but for the connections behind the one that a wrap breaks off at and for the
ticket 0 that the first turn leaves out. Picks only move a ticket from its holder to
the connection (`PickSends`).

In `ClientProofs`, `LastCounts` says that the program's last option of a kind is what
gRPC takes, or else the default; `RpcFits` that a connection and its RPCs are what the
options say. `Alone` says that until RPCs overlap at most one is in `HandleRPC` and has
read the count there is, `SumsAreWhole` that the fields then are the sums over the
window. `CallsKnowTheirLogger` numbers the loggers by when they were set.

Induction over data is out of reach where it takes a theorem of the library with an
operator as a parameter. Where a proof needs one (the last option of a kind), it takes
the smallest counterexample instead (`Smallest`).

Only model-checked: liveness, which the prover cannot do (`ENABLED` and fairness):
`ShutdownReturns`, `SeenShutdownTerminates`, `ShutterTerminates`,
`RegisteredShutdownEndsLaunch`, `ShutdownEndsLaunch`, `NoStopperIsLeft`,
`RestartRepairs`, `Converges`, `ClosedIsReleased`, `RPCsEnd`, `TerminationIsSeen`,
`WatchConverges` and `LinesKeepComing`, the third part of `SizeLines`.

## 6. Other divergences met

Where code and text differ and the models follow the code, without a run:

- `/healthz` answers `{"is_ready":...}` and `{"error":{}}`, not `{"ok": true}`
  and the text of the error (`options.go:216-217`, `server.go:296-319`).
- A failing check is SERVICE_UNKNOWN on a stream and an error of `Check`, not one
  of the two statuses of `options.go:225-228`; a stream of the package `server`
  starts there, so it is not told (`health.go:66`).
- `Shutdown(0)` on the HTTP path, logged as forcing, waits for requests to end
  (`server.go:332-343`).
- A timed `Shutdown` that comes early and finds an RPC running crashes the process in
  `GracefulStop` (`server.go:271`), though a shutdown "is performed gracefully"
  (`interface.go:28`): the action `GracefulStop` of `StandardServer`.
- The handler of `connectrpc` over gRPC never learns of termination, and that of `New`
  is static; only `/healthz` looks at the shutter (`connectrpc/health.go:16-18`,
  `connectrpc/server.go:111`, `connectrpc/server.go:204-210`).
- An `xds://` address is not "full TLS" by default (`client.go:97-98`): the credentials
  fall back to plain text (`client.go:116`).
- `OnTerminated` gets `ErrServerClosed` for a normal shutdown, which
  `examples/plain-text-server/main.go:29-31` takes for a failure.
- `ConnectWebServer.Shutdown` has no grace period, though
  `examples/connect-server/main.go:60` asks for one.
- `ResolveNow` is no noop (`resolver.go:159-165`).
- `ConnectWebAllowJSON` does not allow JSON (`connectrpc/server.go:259-269`).
- PermissionDenied is louder at low verbosity (`server.go:490`, `server.go:531`).
- `Reset` of the gRPC logger panics after `SetGRPCLogger`, instead of setting the
  logger that discards (`logging.go:234`, `logging.go:253`); nothing calls it.
- `NewClientConn` of another address without options has no default credentials and
  fails (`client.go:97-98`).
- `WithRegisterService` is ignored by a traffic director server
  (`server/options.go:240-241`).
- `HealthCheckOverGRPC` does not ask the program's check in a traffic director or
  connect server, which are SERVING for ever (`server/options.go:219-222`).
- A chain of interceptors in `WithGRPCServerOptions` panics instead of overriding
  (`server/options.go:308-309`).
- A registration after `Launch` is no no-op (`server/interface.go:9-10`): a standard
  server answers it, a traffic director server ends the process.
- `OverrideTraceID` is set and never read (`server/options.go:337-338`), and unary
  calls are overridden like streams (`server/standard/tracing.go:36`).
- Both plain-text and secure example call `os.Exit` from `OnTerminated`, before the
  30 s of grace that they give are over (`examples/plain-text-server/main.go:48`).

## 7. Plan

Done: the three servers, requests, health, resolver, pool; options, tracing,
bootstrap, client dialing and both loggers; a proof of every safety property that a
run checks. Left, in this order:

1. An abstract specification of the pool (each ticket is for the next connection) and
   of the bootstrap file (a file that is whole, absent or in the making), and proofs
   that `ConnPool` and `Bootstrap` implement them.
2. `parseTarget` of the resolver by what it accepts.
3. A composition of `ClientDial` with `Resolver` and of `Bootstrap` with the serving
   modes of an xDS server.

## 8. Not modelled

- Example programs: demonstrations around the library, with fixed sleeps and a
  service of their own. Generated code of their protobuf messages.
- HTTP error logger: a filter by regular expressions. That it cannot be created
  is an outcome of `LaunchErrorLogger`.
- `errors.go`, the constant key pair of `insecure`, the registration of the Kubernetes
  resolver: no state that a property could be about.
- The serving modes of an xds server, which its control plane imposes; failures
  to create telemetry interceptors in `connectrpc.New`.
- Contents and formats of log lines and of the bootstrap file, metrics, keep-alive
  parameters, message sizes, CORS and routes.
