# mskit in TLA+

A verification project for `libra9z/mskit`, a Go toolkit for micro services: HTTP
services with graceful restart, rpcx clients and servers, registration with consul
and nacos, tracing, request binding and rendering. It holds TLA+ modules translated
from the source, TLC configurations that check them on small instances, and TLAPS
proofs of the results that matter most. Paths are relative to the repository; line
numbers refer to the commit the modules were written from. `PROJECT.json` maps every
definition to the lines it models.

## 1. The system

| part | state it keeps | operations | what is hard about it |
|---|---|---|---|
| **grace**, one service: `grace/mservices.go`, `listener.go`, `conn.go` | `srv.state`, `srv.wg`, `graceListener.stopped`, the channel `el.stop`, `graceConn.closed` and its mutex | `Serve`, `Accept`, `Close` of listener and connection, `shutdown`, `serverTimeout` | five kinds of goroutine on unlocked fields; a WaitGroup whose `Done` is called by two parties |
| **grace**, restart: `grace/grace.go`, `mservices.go` | `runningServers`, `runningServersOrder`, `socketPtrOffsetMap`, `runningServersForked`; the inherited descriptors | `NewServer`, `ListenAndServe`, `ListenAndServeMutualTLS`, `getListener`, `handleSignals`, `fork` | several processes, sockets identified by position, signals that are dropped |
| **rest engine**: `rest/engine.go`, `restapi.go`, `encode_decode.go` | one `RestApi` per route, with the field `mc` | `ServeHTTP`, `DecodeRequest`, `EncodeResponse`, `DefaultErrorEncoder` | all requests of a route share the `RestApi`; five early returns |
| **trace**: `trace/*.go` | a span per request, in the Mcontext (zipkin) or in one variable per route (OpenTelemetry) | `serverBefore`, `serverAfter`, `serverFinalizer` | ended by hooks that may not run |
| **Mcontext, responseWriter**: `rest/mcontext.go`, `response_writer.go` | status and size, the kept body, errors, accepted formats; below it the counting writer of an engine with finalizers | `Bind*`, `Render`, `Negotiate`, `Abort*`, header and status bookkeeping | three writers with a view of one response each; a body that can be read once |
| **rpcx client**: `rpcx/client.go`, `xclient_pool.go`, `rpcxclient.go` | the map `ClientPool`, a lock, an atomic index per pool | `GetClientPool`, `NewClientPool`, `Get`, `Close` | the map is read without the lock; failures are cached |
| **rpcx server**: `rpcx/rpcxserver.go` | the package variable `defautlServer`, `Methods`, registered services | `DefaultRpcServer`, registration, `Serve`, `JSONRpc.Services` | several callbacks replace one variable; a map written at registration and read by requests |
| **sd**: `sd/consul.go`, `nacos.go`, `registrar.go` | registrations at the agent, the shared map `datas`, process-wide signals | `RegisterFromMemory`, `RegisterFile`, `Register`, `Deregister` | several goroutines in one registration; the end of the process |
| **ratelimit**: `ratelimit/limiter.go` | the map `visitors`, a mutex | `getVisitor`, `cleanupVisitors`, the hook of `Limit` | an entry may go while its visitor waits |
| **binding**: `binding/*.go` | none | mapping of forms to structs, default values, validation | recursion over types, empty and missing values, widths |
| **render**: `render/*.go` | none | the renders behind `Mcontext.Render` | errors before and in the middle of the bytes |
| **error**, **endpoint** | none | errors with types; `Chain` | little |
| **metrics**, **log**, **const**, **internal**, `msrest.go` | none of their own | counters, logging, constants, one global service | nothing to model |

How the parts interact. `main` calls `NewServer` once per address, adds routes and
calls `ListenAndServe` (or `Serve(params...)`, which also registers the service with
consul or nacos). `NewHttpHandler` builds one `Engine` around one `RestApi` per
route; net/http calls `ServeHTTP` in one goroutine per request. Tracers and the rate
limiter are hooks of that engine. A service method gets an `Mcontext`, with which it
binds the request and may answer itself; what it returns goes to `EncodeResponse`.
It may call another service through `RpcxCall`, which goes through the pool map. The
registration starts a callback per service, which runs a `MicroService` or an rpcx
server at the address it finds in a map. `SIGHUP` and `SIGTERM` reach every
`handleSignals` goroutine of the process; a child signals its parent; `shutdown`
closes the listener, and `Serve` returns to `main` when the connections are gone.

What makes each part correct:

- *service*: the WaitGroup counts the open connections; `Serve` returns when they
  have ended, and always in the end; the timeout releases it; nothing is accepted
  after shutdown; no call panics on the way.
- *restart*: every server of the child gets its own socket; no address is ever
  without a listener; one child per process; the child comes to serve.
- *engine*: a client gets its own response, once; finalizers come last and are told
  the status that was sent; every `serverAfter` ends one span.
- *client pools*: one pool per service, whatever the interleaving; clients are used
  in turn; no caller waits for ever.
- *rate limit*: the rate holds although entries are removed; removed entries are
  those of visitors that are gone.
- *registration*: each service serves at its own address and is registered with it;
  what was registered is deregistered when the process ends in order; an interrupt
  ends the process.
- *rpcx server*: a method that was registered is found.
- *context*: the status and the size that the method, the finalizers and the client
  have of a response are the same; bad input is answered with 400 whatever comes
  after; binding twice gives the same; the format sent is one the client accepts.
- *binding*: every field of the target gets the value the request has for it.

## 2. Modules

| module | models | extended by |
|---|---|---|
| `GraceDrain` | what a service promises, with none of its goroutines | |
| `GraceService` | one service with its goroutines; implements `GraceDrain` | `MCGraceService`, `GraceServiceProofs` |
| `GraceServiceProofs` | theorems about `GraceService`: counting, draining, the refinement, what has been stopped stays stopped | |
| `GraceSockets` | what a restart promises of the sockets, with none of the servers and signals | |
| `GraceRestart` | several servers in a chain of processes; implements `GraceSockets` | `MCGraceRestart`, `GraceRestartProofs` |
| `GraceRestartProofs` | theorems about `GraceRestart`, the refinement among them | |
| `HttpExchange` | what the engine promises of each request, with nothing that requests share | |
| `RestEngine` | concurrent requests through shared `RestApi`s and a tracer; implements `HttpExchange` | `MCRestEngine`, `RestEngineProofs` |
| `RestEngineProofs` | theorems about `RestEngine`, the refinement among them | |
| `ServicePools` | what package rpcx promises of its pools, with none of the map, the lock and the counter | |
| `ClientPool` | rpcx callers and the map of pools; implements `ServicePools` | `MCClientPool`, `ClientPoolProofs` |
| `ClientPoolProofs` | theorems about `ClientPool`, the refinement among them | |
| `RateLimit` | visitors, limiters and the sweep | `MCRateLimit`, `RateLimitProofs` |
| `RateLimitProofs` | theorems about `RateLimit` | |
| `ResponseWriter` | the three writers under a response, as operators on one record | `Mcontext`, `ResponseWriterProofs` |
| `ResponseWriterProofs` | theorem about `ResponseWriter` | `McontextProofs` |
| `FormMapping` | the mapping of values to the fields of a target, and what it should give | `RequestBinding` |
| `Mcontext` | one request from `DecodeRequest` to `EncodeResponse`, with any calls in between | `RequestBinding`, `McontextProofs` |
| `RequestBinding` | `Mcontext` with the mapping of `FormMapping` | `MCMcontext` |
| `McontextProofs` | theorems about `Mcontext`, with any mapping of values | |
| `ServiceRegistry` | what package sd promises of the services a process registers, with none of the goroutines and the shared map | |
| `SdRegister` | registration of the services of a process with consul or nacos; implements `ServiceRegistry` | `Registration` |
| `RpcServer` | the rpcx servers of a process and the JSON-RPC bridge | `INSTANCE` in `Registration` |
| `Registration` | `SdRegister` whose rpcx callbacks are the callers of `RpcServer` | `MCRegistration`, `RegistrationProofs` |
| `RegistrationProofs` | theorems about `Registration`, `SdRegister` and `RpcServer`, the refinement among them | |

The `MC` modules only name model values and give the constants their sets.
Definitions called "Faulty variant of X" have X's parameters and a plausible bug in
X; the specifications never use them. They serve to show that a property notices the
bug.

### The abstract specifications

`GraceDrain`, `GraceSockets`, `HttpExchange`, `ServicePools` and `ServiceRegistry` say
what a part is for in terms its user sees. They stand for no code, so that no line is mapped to
them. The detailed module defines the abstract variables by its own (`phaseBar`,
`holdersBar`, `stageBar`, `ownBar`, ...), instantiates the abstract one with them and
states `Implements...`, which a run checks and a theorem proves.

- `GraceSockets` has one variable: for each address the processes that keep it from
  being refused, because they listen or will inherit the socket in the child that
  they start. A process listens on an address nobody has, hands all of its sockets
  to the next process, and releases any of them when a younger one has them.
- `HttpExchange` has a stage per request, its response, the status sent and the
  status its finalizers are given. Nothing in it is shared: that a response holds
  items of its own request, in order, is its shape and not a property.
- `ServicePools` has the pools of each service, their status, and for each caller
  whether it has asked, was given a pool, or panicked. A call in `ClientPool` takes
  up to seven steps through lookup, lock, second lookup, discovery and two writes;
  in `ServicePools` a pool is made in one step and given in another.
- `ServiceRegistry` has for each service whether it is listed, or is no more, and who
  was asked to end. It is about what a process does by itself: it lists a service
  once, takes it back only when asked, and returns from `main` with a service listed
  only when asked to end. It lets a call to the registry fail, and a process that
  was asked to end, or was killed, leave its services listed, as the code does.

### GraceService

A step is the code between two accesses to something shared. `serve` is the program
counter of `MicroService.Serve`: `init`, then `accept` and `add` (the kernel's
accept, then `wg.Add(1)`, `listener.go:40-45`), `closing` (net/http closes the
listener when Accept fails), `wait` and `waiting` (`srv.wg.Wait()`), `terminate`,
`done`. `sig` is `handleSignals` with `shutdown`, whose test and write of
`srv.state` are two steps; `hammer` is `serverTimeout`; `stopper` is the goroutine
of `newGraceListener`; `lclose` has one entry for each of the two callers of
`graceListener.Close`; `cclose[c][k]` is goroutine `k` in `graceConn.Close` of
connection `c`. Two goroutines can close one connection: net/http's and the
handler's after `Hijack`.

The WaitGroup is modelled by what it does: `Done` decrements one word atomically,
panics below zero, and at zero with a waiter needs a second step to release it,
which panics if the word has changed (`DoneOutcome`, `ReleaseValid`). A panic in
`graceConn.Close` is recovered there and leaves the mutex locked; in `serverTimeout`
it ends the loop; in `Serve` it ends the process.

The channel `el.stop` has no buffer, so a send is a rendezvous: `StopAsked` is the
stopper's receive, `StopAnswered` its answer, and `StopCrossed` the case of two
closers whose send and receive meet each other.

### GraceRestart

Process 1 is started by hand, process p+1 is the child of process p. Per process the
module keeps `runningServersOrder` (`order`), the `-socketorder` argument, the
inherited descriptors in their order (`extra`), and per server the stage of
`ListenAndServe`, the listener and the stage of `handleSignals`. A signal reaches
the handlers that are receiving and is lost for the others, because `sigChan` has no
buffer (`Deliver`). `fork` takes the files of all registered servers by
`socketPtrOffsetMap` (`Files`, `OrderArgs`), panics on a missing listener, may fail
in `cmd.Start`, and is done once (`runningServersForked`). The child's servers
signal the parent before they serve; what `os.Getppid()` returns once the parent is
gone is not theirs to signal (`SignalNobody`). `getListener` may fail in the first
process, too, when `net.Listen` does. How one server drains is
`GraceService`; here it is the step from `draining` to `done`.

How the program is written and operated is the variable `env`, chosen once from the
constant `Envs`: `registerAllFirst` (`main` calls every `NewServer` before the first
`ListenAndServe`), `whenListening` (SIGHUP comes to a process that listens),
`settledFirst` (a child is restarted once its parent is gone and its own servers
run), `killsParent` (`ListenAndServeMutualTLS`, where the child kills its parent
instead of asking it) and `procs`, the length of the chain.

### RestEngine

`pc` follows `ServeHTTP`: decode, the tracer's before hook, user hooks, endpoint,
after hooks, encode, finalizers, with the error encoder at each early return.
`mc[api]` is `RestApi.mc`, the request decoded last on that route; each read of it
is a step. `out[r]` is what was written to the connection of `r`, each item with the
request it was written for. Hooks and service methods are choices of outcomes. An
answer is "plain" (a value for `EncodeResponse`), "context" (written through the
Mcontext's writer) or "render" (`Render`). A hook is given the Mcontext and `w`, and
may abort with a status, write bytes or send a status and bytes past the Mcontext
(`HookWrites`); the error encoder is `DefaultErrorEncoder`, which sends no status, or
one that sends a status of its own, as `RestApi.ErrorEncoder` does.
`interceptingWriter` keeps the last status it was given, sent or not (`WriteStatus`).
`ended[r]` holds the requests whose `serverAfter` ended the span that `r` started.

The variable `kind`, chosen once from `Kinds`, says what the requests of a behaviour
have in common: the ways to answer, what hooks write, the error encoder, the tracer,
and whether a route has one request at a time. What the `Mcontext` of one request does is the module `Mcontext`.

### ClientPool

One step per access of the map `ClientPool` or of the lock. A Go map may, or may
not, notice that it is accessed while another goroutine writes it, and then ends the
process: writes have a begin and an end, and an unlocked lookup in between may crash
(`LookupCrash`, `CloseCrash`). `NewClientPool` writes the map itself and
`GetClientPool` writes its result again: `write` and `rewrite`. A failed discovery
stores nil. `Get` adds to a counter of `IndexValues` values (2^64 in the code) and
takes the remainder.

### RateLimit

`visitors` maps an address to a limiter and the time it was last seen. A request
takes `getVisitor`, then `Take` (its limiter's next permission, reserved at once),
then waits until that time. `Take` is external: go.uber.org/ratelimit gives
permissions `Interval` apart and lets up to `Slack` of them be saved. Time is a
counter; looking up, reserving and sweeping take none. `longest` and `passed` are
records of the past for the properties.

### ResponseWriter

The record `w` holds what the `responseWriter` knows (`size`, `status`), what the
`interceptingWriter` counted if the engine has finalizers (`code`, `written`), and
what net/http has sent (`sent`, `body`). Each operation of `response_writer.go` is
an operator from record to record, so that a caller composes several in one step, as
`Render` does. `WriteHeader` notes a status and does not send it; `WriteHeaderNow`
sends the noted one, once. `WSpec` takes the operations in any order, and the
theorem is about it; `Mcontext` uses the same operators. net/http is external: the
first status wins, bytes without a status send 200, a status without a body takes no
bytes, a number below 100 panics.

### FormMapping

The target of a binding is a tree of fields (structs, pointers, slices, arrays,
leaves), its value a tree of the same form. `Mapping` is the walk of the code:
pointers get a new target that is dropped if nothing was set, a struct is first
tried under its own key, files come before values, the first error ends the walk.
Texts are few; a conversion is what `strconv` makes of them, with the widths
(`"300"` is neither an `int8` nor a `uint8`) and with the empty text. `Agrees` says,
leaf by leaf and without the walk, what the result should be.

### Mcontext

`pc` goes through `DecodeRequest`, the service method, and `EncodeResponse` or an
error encoder. In between the method makes any calls of `mcontext.go`: must-bind and
should-bind with every binding, `ShouldBindBodyWith`, `GetRawData`, the renders,
`Abort*` and `Error`, `Status`, `File`, `Negotiate`, `SetAccepted`, and the flags
that choose the writer. `rd` is what has been read of the request: whether the body
is still there, what `ParseForm` found. Each call is one step, as one goroutine
makes them. A body has a format and is sound or not, and what is decoded from it is
valid or not; the query and the Content-Type can be parsed or not (`parses`). The
first `ParseForm` of a request that it cannot parse returns the error, the later ones
find `Form` set and return none (`Malformed`). A body written is one unit of bytes.

What a mapping of values makes of a target is the constants `MapForm`, `MapPtr` and
`Validates`: nothing else in `Mcontext` depends on it. `RequestBinding` brings in
`FormMapping`, the configurations give its `MapFormByTag`, `MappingByPtr` and
`Valid` to these constants, and `BoundAsGiven` is stated there.

### SdRegister, RpcServer, Registration

`SdRegister` follows `registerService` of `consul.go` and its twin in `nacos.go`.
`pc[e]` is the goroutine of entry `e`: it reads the shared map `datas`, writes its
host and its port there, starts the goroutine of the callback (`cb[e]`), which
writes the host again and calls the callback with the map, connects to the registry,
calls `signal.Notify`, waits and deregisters. Each access is a step; `MapRace` ends
the process when two goroutines are at an access of the map and one writes. `main`
waits too when there are several entries, and its return ends the process whatever
the others do. `conf` is how the program registers and is chosen once: registry,
form of the configuration, number of services and callbacks, `docker_enable`,
missing ports, a group, a registry that may fail, and `mistyped`: the values that a
readable configuration has with another JSON type than the code asserts. Those of
the whole file and of a list of entries end the process in `main`, when the
goroutines of the entries before may run (`Started`, `MainPanics`); those of an entry
end it in `registerService` (`ReadDatas`, `ConsulConnect`). `Terminate` is SIGTERM,
which the registration does not handle; a service of package grace does, and once it
has called `signal.Notify` no signal ends the process any more (`Handling`). The differences of the two registries are actions of
their own (`ConsulConnect`, `NacosConnect`, ...).

`RpcServer` is the package variable `defautlServer` and the functions on it.
`Registration` instantiates it with the entries of an "rpcx" configuration as its
callbacks: a callback that runs makes the default server, registers its method and
the JSON-RPC service and serves, while other callbacks do the same and clients ask.
A panic or a race in it ends the process of `SdRegister`.

## 3. Runs

| run | question | result |
|---|---|---|
| `GraceTimeout` | two connections with two closers each, which may hang; a timeout and failures of Accept at any moment | holds: `WgCountsConnections`, `ServeReturnsDrained`, `PanicOnlyWhenHammered`, `NoAcceptAfterShutdown`, `ImplementsDrain`, `StateNeverGoesBack`, `HammerReleasesWait` |
| `GraceNoTimeout` | no timeout, every connection ends | holds: `ShutdownCompletes`, `NoCloserStranded` |
| `GraceTimeoutStuck` | does the timeout always force the shutdown, as `mservices.go:340` says? | **no**, see below |
| `Restart` | two addresses, up to three generations, in three environments | holds: `SocketMatchesAddress`, `NeverRefused`, `ImplementsSockets`, `OneForkPerProcess`, `ForkPanicsOnlyAtStart`, `ChildServes` |
| `RestartUnserved` | does every server with a listener come to serve, as `mservices.go:98` says? | **no** |
| `Engine` | two requests on one route: one at a time with every way to answer, or at once with plain answers; both tracers, both kinds of error encoder, hooks that write | holds: `OwnResponse`, `PlainIsAnswered`, `FinalizersSeeStatus`, `SpansEnded`, `ImplementsExchange` |
| `EngineCrossed` | shared routes and every way to answer: is the response the request's own? | **no** |
| `ClientPools` | three callers of two services, failures, Close | holds: `OnePoolPerService`, `PanicOnlyAfterFailureOrClose`, `Balanced`, `ImplementsPools`, `CallsEnd` |
| `RateLimits` | two visitors, one with three requests at once | holds: `WaitersKeepLimiter`, `RateHonoured`, `StaleGone` |
| `Registration` | one or two services in every form of configuration, well typed and not, with both registries; two signals at any moment | holds: `OwnAddress`, `CrashOnlyWhenShared`, `DeregisteredAtExit`, `MethodFound`, `InterruptEnds`, `ImplementsRegistry` |
| `Context` | thirteen requests, each with any three calls on its Mcontext | holds: `WriterInv`, `BadInputIs400`, `BindsRepeat`, `BoundAsGiven`, `NegotiatedIsAccepted`, `RenderNeverPanics` |
| `BindBody` | does `Bind` decode the body, as `mcontext.go:440` says? | **no** |

Deadlock is checked in `GraceNoTimeout`, `Context` and `BindBody`; the other systems
may stop: with hung connections, after a panic, when no signal comes, when all
requests are served, at the bound of the clock.

Some properties have a premise that names the circumstances in which they hold
(`Settled`, one service only, one rpcx server only, one status given, one request at a
time). Their runs have environments or
configurations that meet it and some that do not; what happens in the latter is
listed below.

### The four disagreements

- **`GraceTimeoutStuck`**: `serverTimeout` calls `Done` until the counter goes below
  zero, and recovers from that panic. If Serve has not called `Wait` yet when it
  begins, nobody holds the counter at zero for it, and Serve then waits on a counter
  that nothing moves again.
- **`RestartUnserved`**: each server of the child sends SIGTERM to the parent. The
  first ones may make it exit; the next server's signal then fails, and
  `ListenAndServe` returns that error with its listener open. Connections queue up
  there.
- **`EngineCrossed`**: `EncodeResponse` writes through `c.mc`, which may by then be
  the Mcontext of another request of the route.
- **`BindBody`**: `DecodeRequest` reads the body of every request that is not
  multipart to its end (`restapi.go:177`). `Bind` gives the empty rest to the
  decoder and answers a sound JSON request with 400; `mcontext.go:440-441` says that
  it decodes the payload.

### Seen in the code, without a run

Restart:

- Registering late: SIGHUP before `main` has called `NewServer` for every address
  gives the child a `-socketorder` without the missing address, and sockets may
  change places (`mservices.go:257,371`). `SocketMatchesAddress` assumes
  `registerAllFirst`; without it, and with SIGHUP at any moment, it fails.
- `Serve(params...)` may change `Server.Addr` after `NewServer` has noted the old
  one (`mservices.go:64`); `ListenAndServe` panics if no logger was set
  (`mservices.go:132`); a SIGTERM before `StateRunning` is ignored
  (`mservices.go:324`).
- When Accept fails of itself during shutdown, both callers of `graceListener.Close`
  may pass its test and one may wait for ever (`StopCrossed`); this is why
  `GraceNoTimeout` has `AcceptMayFail` FALSE. If it fails between shutdown's check
  and its write, Serve may end first, and `srv.state` goes from `StateTerminate`
  back to `StateShuttingDown` (`mservices.go:324-328`); `StateNeverGoesBack` names
  this case (`Overtaken`) and allows no other.

Engine and tracers:

- A request that returns early never ends its zipkin span: `serverBefore` puts it
  into `Mcontext.Ctx`, the finalizer looks into the request's context
  (`trace_zipkin.go:153`), although the comment at 163 announces it.
- With several requests at a time on an OpenTelemetry route, `serverAfter` ends the
  span of the one that started last (`trace_opentelemetry.go:119`).
- `DefaultErrorEncoder` is documented with status 500 (`engine.go:187-189`); the
  lines that write a status are commented out, so 200 is sent. `HttpExchange` leaves
  the status of an error to the encoder: it is not a specification of that comment.
- The finalizers get the last status that `interceptingWriter` was given
  (`engine.go:239`). When an encoder like `RestApi.ErrorEncoder` (`restapi.go:252`),
  or a hook with the raw `w` (`engine.go:116`), gives a status after a header was
  sent, the client has the first one and the finalizers are told the last, although
  `engine.go:147-150` speaks of the response's. `FinalizersSeeStatus` is about
  responses that were given one status (`OneStatus`).
- `Abort` (`mcontext.go:401`) sets an index nobody reads: a hook that aborts and
  returns nil does not keep the endpoint from running.

Context and writers:

- `WriteHeader` only notes a status (`response_writer.go:60`). `Status` alone, a
  redirect of a request that is not GET, and `File` with 301 or 304 write no body;
  without one the noted status is never sent and the client gets 200.
- An error encoder sets its status after a must-bind has sent 400: the client has
  400, a finalizer is told the later one (`FinalizerTruthful` compares the two only
  while no status was given past the context).
- Of a request whose query or Content-Type net/http cannot parse, the first binding
  of the form fails and the next one succeeds with what could be parsed
  (`form.go:22-24, 39-41`). `BindsRepeat` allows this difference once, and no other.
- `Bind` promises Content-Type text/plain besides the 400 (`mcontext.go:442`);
  `AbortWithError` does not set it (`mcontext.go:428`). `BadInputIs400` is about the
  status.
- `ProtoBuf` panics for a target that is no `proto.Message`, and does not validate
  (`protobuf.go:29-35`).
- `Flush` and `Hijack` panic when the engine has finalizers, because the
  `interceptingWriter` is neither a Flusher nor a Hijacker (`engine.go:231`).
- With `useContextWriter` and a request that is neither JSON nor XML,
  `EncodeResponse` writes nothing (`restapi.go:228`).
- `NegotiateFormat` panics if an accepted format is longer than the offer it starts
  with (`mcontext.go:843`); `Render` panics after `AbortWithStatus(204)`
  (`mcontext.go:680`); a nil map as the target of a form panics
  (`form_mapping.go:400`).

Registration, rpcx and rate limit:

- A readable configuration with a value of another JSON type than the one asserted
  ends the process with a panic (`consul.go:246,255,268,289,419,428,483`,
  `nacos.go:209,218,231,252,412,419`): `docker_enable` as a text, tags that are no list, an entry
  that is no object. For an entry of a list the services before it may already
  serve. `CrashOnlyWhenShared` lists these crashes (`Mistyped`).
- Several services write host and port into one map (`consul.go:436`), so that one
  may serve or register another's address, or the process may end in a concurrent
  map access.
- SIGTERM ends the process with its registration in place (`consul.go:413`); after
  SIGINT `main` may return before the other services have deregistered.
- nacos: an instance with a group is deregistered without it (`nacos.go:514`);
  `success` FALSE without an error panics in `err.Error()` (`nacos.go:506`).
- Each `DefaultRpcServer` replaces the server of the one before
  (`rpcxserver.go:400`), and methods registered earlier are no longer found;
  `Methods` is read and written without a lock; an unknown method is answered with
  neither an error nor a result.
- `Client.Close` leaves the closed pool in the map, and one failed discovery is
  remembered for the life of the process.
- A second `Limit` with another rate shares the entries of the first
  (`limiter.go:39`): a visitor keeps the rate of the route it came to first.

## 4. Bounds

- `GraceService`: two connections with two closers is the least in which a
  connection's double close meets the close of another one and the release of the
  waiter. The proofs remove the bound. About 445,000 states.
- `GraceRestart`: two addresses are needed to swap sockets; with three processes
  `-socketorder` is both read and passed on. `MaxProcs` bounds the chain; a child
  and a grandchild run the same code as any later one. `HandOver` has three
  processes, `AnyTime` and `Repeated`, where signals come at worse moments, two.
- `RestEngine`: requests of different routes share nothing, two requests of one route
  cross. `Hooks` = 2 lets one hook answer and the next one answer again or return an
  error, before and after the endpoint. About 506,000 states. The proofs have any
  number of requests, routes and hooks.
- `ClientPool`: two callers of one service race for its pool; the third uses the map
  for another. Three clients with a counter of four values make the counter go
  around (`IndexValues` is 2^64 in the code) unevenly. `MaxCalls` ends the run after the counter
  went around once; no call begins then, those under way go on. `MaxPools` is one
  more than the services, so that a second pool could be seen.
- `RateLimit`: the units keep the code's order (sweep 1 min < keep 3 min) and the
  interval is made long, so that a third request in a row waits for longer than
  `Keep` and does lose its limiter: the premises of `WaitersKeepLimiter` and
  `RateHonoured` are true in some states and false in others. Without the premise
  `RateHonoured` fails. `MaxTime` is past a removal and a new entry; `MaxLimiters`
  bounds the entries made.
- `Registration`: two entries share the map, the signals and the default server;
  more would do the same in pairs. `Confs` has each form of configuration with and
  without the options that change the control, for both registries. Two signals: the
  second comes to a process that is ending. The state is finite otherwise. About 270,000 states.
- `Mcontext`: three calls are a bind, something in between and another bind or a
  render; every pair of calls that share state (body, header, errors) occurs with a
  third around it. The requests have each format, sound and unsound, valid and not, parsed
  by net/http and not, and every kind of target. The codes are one that is no status, 200, one without a body and one
  that redirects; one unit of bytes is enough since sizes are only added. About 3,200,000 states. `BindBody` needs one call.

## 5. Fairness

- `GraceService!GoroutineFairness`: weak fairness of the goroutine of each kind: the
  Go scheduler runs what can run. No fairness for clients, signals, or the end of a
  request. `ConnsEnd` (used in `GraceNoTimeout` only) says that connections end:
  net/http closes them by its read and write timeouts.
- `GraceRestart!FairSpec`: weak fairness of the servers' and handlers' goroutines.
  None for signals from outside.
- `ClientPool!FairSpec`: weak fairness of each call that has begun. `sync.Mutex`
  hands the lock over to one who has waited for a millisecond; calls are bounded
  here, so weak fairness suffices.
- `Registration!FairSpec`: weak fairness of `main` and of each entry's goroutine,
  and so of the registry's answers (they may be failures). None for services, their
  clients and signals: a callback that never returns is not assumed to.
- The other runs check safety only.

## 6. Proofs

| theorem | states | assumes | module |
|---|---|---|---|
| `TypeCorrect`, `Invariant` | `Spec => []TypeOK`, `Spec => []IInv` | | `GraceServiceProofs` |
| `CountCorrect` | `Spec => []WgCountsConnections` | | |
| `DrainCorrect` | `Spec => []ServeReturnsDrained` | | |
| `PanicCorrect` | `Spec => []PanicOnlyWhenHammered` | | |
| `DrainRefinement` | `Spec => ImplementsDrain` | | |
| `StopInvariant`, `StopCorrect` | `Spec => []StopInv`, `Spec => NoAcceptAfterShutdown` | | |
| `StateCorrect` | `Spec => StateNeverGoesBack` | | |
| `RunningInvariant` | `Spec => []RunningInv` | `~AcceptMayFail` | |
| `StrandedCorrect` | `Spec => []NoCloserStranded` | `~AcceptMayFail` | |
| `TypeTheorem` | `Spec => []TypeOK` | | `GraceRestartProofs` |
| `OneForkTheorem` | `Spec => []OneForkPerProcess` | | |
| `ForkPanicsTheorem` | `Spec => []ForkPanicsOnlyAtStart` | | |
| `SocketMatchesTheorem` | `Spec => []SocketMatchesAddress` | | |
| `NeverRefusedTheorem` | `Spec => []NeverRefused` | | |
| `StopsAfterHandOverTheorem` | `Spec => StopsAfterHandOver` | | |
| `SharingRefinement` | `Spec => ImplementsSockets` | | |
| `TypeTheorem`, `ShareTheorem` | `Spec => []TypeOK`, `Spec => []ShareInv` | | `RestEngineProofs` |
| `FinalizersSeeStatusTheorem` | `Spec => []FinalizersSeeStatus` | | |
| `OwnResponseTheorem` | `Spec => []OwnResponse` | `WritesApart` | |
| `NothingAfterFinalizersTheorem` | `Spec => NothingAfterFinalizers` | `WritesApart` | |
| `AnsweredOnceTheorem` | `Spec => []AnsweredOnce` | `ReadsApart` | |
| `PlainIsAnsweredTheorem` | `Spec => []PlainIsAnswered` | `ReadsApart` | |
| `ExchangeRefinement` | `Spec => ImplementsExchange` | `ReadsApart` | |
| `SpansEndedTheorem` | `Spec => []SpansEnded` | | |
| `TypeTheorem`, `PoolInvariant` | `Spec => []TypeOK`, `Spec => []PoolInv` | | `ClientPoolProofs` |
| `MapWritersCorrect`, `OnePoolCorrect` | `Spec => []MapWritersHoldLock`, `Spec => []OnePoolPerService` | | |
| `PanicTheorem` | `Spec => []PanicOnlyAfterFailureOrClose` | | |
| `BalancedTheorem` | `Spec => []Balanced` | | |
| `PoolsRefinement` | `Spec => ImplementsPools` | | |
| `LimitInvariant` | `Spec => []LimitInv` | | `RateLimitProofs` |
| `WaitersCorrect`, `StaleCorrect` | `Spec => []WaitersKeepLimiter`, `Spec => []StaleGone` | | |
| `RateTheorem` | `Spec => []RateHonoured` | | |
| `TypeTheorem` | `Spec => []TypeOK` | | `RegistrationProofs` |
| `OwnAddressTheorem` | `Spec => []OwnAddress` | | |
| `DeregisteredTheorem` | `Spec => []DeregisteredAtExit` | | |
| `MethodFoundTheorem` | `Spec => []MethodFound` | | |
| `CrashTheorem` | `Spec => []CrashOnlyWhenShared` | | |
| `ListingRefinement` | `Spec => ImplementsRegistry` | | |
| `WritersAgree` | `WSpec => []WriterInv` | | `ResponseWriterProofs` |
| `WritersTheorem` | `Spec => []WriterInv` | | `McontextProofs` |
| `BadInputTheorem` | `Spec => []BadInputIs400` | | |
| `RenderTheorem` | `Spec => RenderNeverPanics` | | |
| `NegotiatedTheorem` | `Spec => []NegotiatedIsAccepted` | | |
| `BindsRepeatTheorem` | `Spec => []BindsRepeat` | | |

Besides what the table names, a theorem assumes only what its module assumes of its
constants. The properties in it are checked by a run, but for the types,
`MapWritersHoldLock`, the inductive invariants, and `StopsAfterHandOver`,
`NothingAfterFinalizers` and `AnsweredOnce`, which say of one step or state what
`ImplementsSockets` and `ImplementsExchange` say of all and were in the runs before
these. `StrandedCorrect`
is about a property that a run checks with `AcceptMayFail` FALSE. Each inductive invariant was tried on the instance of its component's run
before it was proved. The types of the writers and of the Mcontext are parts of
`Sound` and `ContextInv`.

### The service

The theorems hold for every finite set of connections, every set of closers and both
values of the two switches. The only assumption is `ConstantsAssumption`: finitely
many connections, `NoOne` is not a closer, the switches are Booleans.

`WgCountsConnections` is not inductive: that a decrement to zero takes effect only
for the last connection depends on who holds the mutexes and on who waits. `IInv`
adds

- `MutexInv`: the goroutine between Lock and Unlock is the mutex's owner, and the
  connection is not yet marked closed. So `Done` is called once per connection.
- `WaiterInv`: only Serve waits.
- `OnceInv`: shutdown passes its check once, so `serverTimeout` is started once and
  shutdown closes the listener once.
- `CountInv`: until the timeout expires the counter is the number of held
  connections, it is zero once the wait is over, no call has panicked, and only the
  Close of the last connection is about to release the waiter.

`NextCases` puts every step into one of four groups: control (which touches neither
a connection nor the WaitGroup), the waiting of Serve and the calls of Done by
`serverTimeout`, Accept with its Add, and the steps of a connection's Close.
`ControlFrame`, `HeldFrame` and `CloseFrame` say what the steps leave alone;
`AddHolds` and `DoneReleases` are the two facts about cardinalities. Each part of
`IInv` then has its step lemma. For the refinement, `phaseBar`, `HeldConns`,
`pastBar` and `Hammered` are the abstract variables; `InitRefines` and `StepRefines`
use `IInv` for the one hard case: Serve leaves `Wait` only when no connection is
held.

`NoAcceptAfterShutdown` rests on `StopInv`. The two callers of `graceListener.Close`
may take each other's message, so shutdown's call may return with the socket still
open. `StopInv` shows that this happens only when the other caller is Serve, which
has then stopped accepting. `StateNeverGoesBack` follows from `OnceInv` and from what each action writes: the
state is written by Serve at its start and at its end and by shutdown, whose write
comes after a check of its own. `RunningInv` says that Serve runs until that write
unless Accept fails of itself, and that is the one case the property excepts
(`Overtaken`). `NoCloserStranded` needs `~AcceptMayFail`: `CloseInv` says that shutdown's call of Close is
then the only one that uses the channel, Serve's finds the listener stopped, and the
stopper's place tells where shutdown's call is. If Accept may fail of itself, both
callers may pass the test and one stays behind (`StopCrossed`).

### The restart

The theorems hold for every number of addresses and of processes and for every set of
environments; `RestartAssumption` says that there are finitely many addresses, that
`NoSocket` is none of them, and what an environment is. Four invariants are built on
each other, each with a step lemma that uses those before it:

- `OnceInv`: a handler looks at `runningServersForked` and sets it in one step, so
  that a process starts one child; what was not started has no servers. Gives
  `OneForkPerProcess`.
- `OrderInv`: a server is registered once, so the order of a process is no longer
  than the addresses, and one that has every address has every position. A server
  that `fork` looks up is then found (`IndexFinds`, `OffsetInFiles`). Gives
  `ForkPanicsOnlyAtStart`.
- `SocketInv`: where `main` registers every server first, the address at a position
  of `-socketorder` and the descriptor at that position belong together, in every
  process, and each address is there once. This is why `SocketMatchesAddress` alone
  is not inductive: a child may register in another order than its parent, and only
  the two lists together tell which descriptor it takes. `HandedOver` shows that
  `fork` makes such lists from a process that has them, `InheritsOwn` that
  `getListener` reads them.
- `HandInv`: where SIGHUP comes to servers that listen, every process has, or has
  inherited, all its sockets; and a process that was told to stop, or has ended, has
  a child that told it, and each address is held by some younger process. The holder
  need not be the child, which may have been replaced itself: `Younger` finds the
  next one when the holder is told to stop. Gives `NeverRefused` and
  `StopsAfterHandOver`.

Neither of the last two needs `settledFirst`: restarts may follow each other at once,
a SIGHUP may reach parent and child together, and a fork may fail.

`SharingRefinement` follows the holders of an address. `ImplementsSockets` is the
whole life of the sockets, where `NeverRefused` is one state of it and
`StopsAfterHandOver` one step. Its premise `Settled` is a condition on `env`, which
never changes; without it the property says nothing. `ChainInv` says that processes
are started in order, one by one, so that a process that starts another is the
youngest. `HoldsAt` (from `HandInv`) tells who holds an address by where its server
is: a process whose server has not come to `getListener` keeps the inherited socket,
one whose server has stopped keeps none. Every step is then one of three kinds: the
first process takes an address (`ListenShares`), a process starts its child with all
of its files (`StartShares`), or nobody gains a socket and whoever loses one is
older than some holder (`NoneGained`, `LostToYounger`).

### The engine

`EngineAssumption` is about types only: any requests, routes and hooks. The RestApi
of a route is shared, so the theorems first say how much one request sees of the
others: `ContextInv` (a decoded request finds some Mcontext of its route) and
`AloneInv` (where a route has one request at a time, it is its own) make
`ShareInv`. `StepMoves` and `StepWrites` then reduce every step to where its request
goes and what it writes to whose response; the invariants below need no other fact
about the actions.

- `StatusInv` holds on every route, mixed or not, with every encoder and hook: as
  long as the writes of a response give one status at most (`OneStatus`), the code of
  `interceptingWriter` is the status that was sent. It adds that a Mcontext through
  which something was written has written its header and gives no other status. A
  response to which something is added had one status before if it has one then.
- `OwnInv` needs `WritesApart`: a route has one request at a time, or no method that
  answers with `useContextWriter`. `EngineCrossed` is the run without it.
- `AnswerInv` and `PlainInv` need `ReadsApart`, since `EncodeResponse` reads the
  flags through the shared Mcontext: a route has one request at a time or only plain
  answers. `AnswerInv` says what can have been written at each place in `ServeHTTP`;
  `AnsweredOnce` says so only at its end.
- `SpanInv` holds on every route: where a request is tells whether its `serverAfter`
  has ended a span, and the variable of a route holds the span of a request that was
  started there (`SpanFound`), its own if the route has one request at a time.

`ExchangeRefinement` puts these together. `CalledInv` adds that the places after the
endpoint are reached through it. `Stages` tells the stage of an exchange by the
place in `ServeHTTP`, `WritesByAction` what each action adds to the response of its
own request, and `ExchangeMoves` that no other exchange moves. What is left is one
short case for each action, most of which are a step of `HttpExchange` and some of
which are none: the tracer, a hook that returns nil, the reads of `c.mc`. It says
what the five invariants say in isolation, and the order: a call is never seen
after the answer, an answer never after an error, and once an item has closed the response
no step of any request touches it. `EngineCrossed` is why it needs `ReadsApart`.

Each kind in the `Engine` run meets `WritesApart` and `ReadsApart`.

### The client pools

Assumed are `PoolAssumption` and `PoolValues`: the special values are none of the
others. That at most one pool is made cannot be seen from the pools alone. `PoolInv`
adds that a pool that was made is in the map or about to be stored by the owner of
the lock (`MadeIsKept`), and that the owner makes one only where none is and stores
again only what is there, or nil where nothing is (`StoresOnce`). Two pools of one
service would then both be in the map, or both be about to be stored by one caller.
`OneInLock` (two callers are not both between lock and return) is used in every
step.

`PanicOnlyAfterFailureOrClose` follows from `NilIsFailure`: a nil in the map, or in
the hands of a caller, is what a failed discovery left. For `Balanced`, `RoundInv`
compares two clients by what the counter has done: in each round client 1 is picked
first and client 0 last, and a counter that goes around may cut a round short.
The proof is about remainders (`NextRemainder`), for any number of values of the
counter and any number of clients.

`PoolsRefinement` says what the pools are for. A pool belongs to its service from its
making, which is under the lock, though the map holds it only after a write that
another caller may see half-way; `OwnPool` says that what is in the map, in the
hands of a caller, or about to be stored, is the service's own pool or the nil of a
failure. `CallMoves` tells what a caller's step does to its call; there is then one
lemma for each step that is more (`DiscoverPromised`, `GetPromised`,
`LookupPromised`, `CrashPromised`, `ClosePromised`), and the others are no step of
`ServicePools`. A concurrent access of the map, which may end the process, is
`Crashes`: the promise allows it only while a call is storing what it made.

### The rate limit

Assumed are `RateAssumption` (finitely many requests, positive `Sweep` and
`Interval`) and `VisitorAssumption`. `SweepInv` says that a sweep is never overdue
and that at the last one no entry was older than `Keep`; `StaleGone` is arithmetic
from there. `WaitInv` says that an entry was last seen when its waiting requests
came, or later; a request whose turn is within `Keep` is gone before the entry is
old enough.

`RateHonoured` counts the requests that got through, which several limiters may have
let through one after the other. `SpacedInv` counts permissions instead: those given
out so far fit before the last one of the current limiter, or, when the entry is
gone, before now; and those due by any later time fit before that time. The step that
matters is the sweep: it removes an entry whose last permission has passed, which
follows from `LongestInv` as long as nobody waited for so long that `Keep` was over
first.

### Registration and rpcx

The assumptions are `SdAssumption` (entries are positive numbers, 1 is one of them;
the values for an unset and for any host are none; the types of a configuration) and `RpcAssumption`. The proofs are about
every set of configurations, any number of entries and of signals.

- `EntryInv`: which goroutines there are, and that those of one entry, the
  registration's and its callback's, take turns at the shared map: the callback
  starts after the last write of the entry. `MapRace` needs two entries then.
- `AddressInv` follows host and port through the map for configurations where it is
  not shared by several entries, and gives `OwnAddress`.
- `RegistryInv`: the one instance a single service registers is what is in the
  registry from its registration until it is taken back.
- `CallbackInv` and `RpcInv`: as long as one callback only has made a server, the
  variable of the package is its server, the methods are its own, and no request is
  answered before they are registered. `RpcInv` is about every moment before the
  second server too, and `MethodFound` speaks of a process with one.
- `CrashOnlyWhenShared` uses all of these: each crash of the process has one of the
  listed reasons.

`ListingRefinement` has no premise on the configuration: it holds of services that
share the map, too, where addresses may be mixed. What is listed, or over, is told
from the registry and from the places of the entries (`ListingOf`). `ListInv` relates
the two: whatever is in the registry was put there by its entry, once, and only an
entry that was told is about to deregister. Its last part is what the return of
`main` needs: a `main` that returned although nobody was told has nothing in the
registry and no entry on its way to it. That holds for a single service because its
entry returns before `main` does, without having registered, and for several because
`main` waits for an interrupt; a refused configuration starts none. `EntryWays` reduces the steps of an entry to six ways,
`MainKeeps` and `OthersKeep` say what the other steps leave alone.

### The writers and the Mcontext

Assumed is `WriterAssumption`: codes are integers without 100 to 199, sizes are
naturals. `WSpec` takes the operations of the three writers in any order, so the
theorem covers every method, hook and encoder there can be. `WriterInv` is not
inductive: it does not say that a status without a body is never sent after a body,
nor that a hijacked connection has no counting writer that would miss what happens
on it. `Sound` adds that, and that nothing was sent past a context that has not
written. Its step lemmas follow the layers: net/http, then `interceptingWriter`,
then `responseWriter`.

`McontextProofs` is about the calls of a service method, in any number: `MaxCalls`
is any number, and so are the requests, the codes, the formats and their spellings
(`ContextAssumption`: offers and accepted formats are sequences of formats, which
include YAML and XML). It uses `Sound` again.

- `Follows` (the writers stay sound, a status that was sent stays) holds of every
  operation, and is transitive, so that it holds of what a call composes of them.
  `Grows` is the same for the Mcontext: not un-aborted, no error lost. From the two,
  `ContextInv` contains `BadInputIs400`: a later call cannot take the 400 back.
- `RenderFollows` says which status a render sends of a fresh response and when it
  panics, and gives `RenderNeverPanics`.
- `NegotiateIs`: `NegotiateFormat` compares the offers and the accepted formats
  symbol by symbol; unless it panics it finds an offer that satisfies the first
  accepted format that any satisfies. The comparison stops at the least symbol that
  decides, whose existence `MinIsLeast` takes from the well-founded order of the
  natural numbers.
- `SeenInv` says of every binding that was done that it would have the same outcome
  now: reading goes on (`Later`), and what `ParseMultipartForm` or `ParseForm` have
  found stays. That alone is not inductive, since a mapping may read a part of the
  request for the first time: `Parsed` says that nothing is left to be found. The one
  exception is a form that net/http cannot parse: the binding that came first has
  failed, and as what it found is kept, it was the only one (`NextCall`). The
  theorem holds for any mapping of values, `FormMapping` or another.

### Only model-checked

- `BoundAsGiven` of `RequestBinding`: `FormMapping` recurs over targets, by RECURSIVE
  operators, and what a recursion computes for every input needs an induction over
  data that the installed provers cannot do. It is checked over the targets and
  sources of `MCMcontext`.
- The liveness properties `ShutdownCompletes`, `HammerReleasesWait`, `ChildServes`,
  `CallsEnd` and `InterruptEnds`: liveness under fairness, and ENABLED, are out of
  the prover's reach.
- The four disagreements of section 3, which are counterexamples.

## 7. Not modelled

- The service's signal hooks are user code; the logger is assumed to be set, and a
  `MicroService` made by `msrest.New` is not in the lists `NewServer` keeps and
  takes no part in a restart. `Serve(params...)` beyond the choice of address.
- `Client.Endpoint` of rpcx beyond `Get`: it is a chain of user hooks around a
  library call. The plugins of the rpcx server and its listener belong to rpcx.
- Sampling, tags and propagation of traces; the contents of requests and responses.
- Of `Mcontext`: the typed getters (one operator, `GetAs`), cookies, headers other
  than Content-Type, the fields that only carry data, the version of the API. Of
  `error`: `ByType` and the texts. Statuses 100 to 199, which net/http sends besides
  the final one.
- Of `binding`: rules of the validator other than `required`, time zones, options of
  the JSON decoder, the decoders themselves.
- `render/html.go`, which no method of `Mcontext` uses; `sd` constants and the
  facade that chooses consul or nacos; `endpoint`, `metrics`, `log`, `const`,
  `internal/*`, `msrest.go`: library calls, constants and forwarding, without
  behaviour of their own.
- What the registry does with a registration: health checks, TTL, clusters.

## 8. Plan

Done, in this order: `GraceDrain`, `GraceService` and its proofs; `GraceRestart`;
`RestEngine`; `ClientPool` and `RateLimit` with theirs; `SdRegister`, `RpcServer`
and their composition; `ResponseWriter` with its proof, `FormMapping` and
`Mcontext`; then the proofs of `GraceRestart`, `RestEngine`, `Registration` and
`Mcontext`, and what was open of the others; then `GraceSockets`, `HttpExchange`,
`ServicePools` and `ServiceRegistry` with their refinements. Every invariant and every
safety property over steps that a passing run checks is a theorem, but `BoundAsGiven`.

Open:

1. `FormMapping` for targets of a fixed depth, where the walk needs no induction.
2. A composition of `SdRegister` with `GraceRestart`, where parent and child have
   registrations under the same id and the parent's late `Deregister` may remove the
   child's.
