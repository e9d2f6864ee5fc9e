----------------------------- MODULE SdRegister -----------------------------
(***************************************************************************)
(* Registration of the services of one process with consul (sd/consul.go)  *)
(* or nacos (sd/nacos.go), through RegisterFromMemory (or a file, which is *)
(* read into memory first) or Register.                                    *)
(*                                                                         *)
(* The two files have the same structure: main starts one goroutine per    *)
(* entry of the configuration (or runs the only one itself), each entry    *)
(* writes host and port into the map cps ("datas"), starts the callback    *)
(* that serves, registers, waits for a signal and deregisters.  The map is *)
(* one for all entries, without a lock.                                    *)
(***************************************************************************)
EXTENDS Integers

CONSTANTS
  Entries,      \* the entries of the configuration, 1 .. their number
  Unset,        \* a key that the map does not have
  AnyHost,      \* the empty host, for docker_enable
  MaxSignals,   \* bound on the signals sent to the process
  Confs         \* the configurations, see ConfType

\* sd: which registry.  form: how the program registers ("map" is one service,
\* "slice" several, "direct" the method Register, "other" an unknown schema).
\* readable: the configuration can be read and parsed.  n: entries, callbacks:
\* the functions passed.  noPort: entries without a port.  checks: the entry's
\* list of health checks.  group: group_name is set.  reliable: the calls to
\* the registry succeed and the services do not fail.  grace: the callbacks
\* serve with package grace.  mistyped: what the configuration has with another
\* JSON type than the one the code asserts: a value of the whole file
\* (docker_enable, TLSConfig), an entry of the list (or, for the first, the list
\* of rpcx), the tags of an entry, and for consul another option of it.
ConfType ==
  [sd : {"consul", "nacos"}, form : {"map", "slice", "rpcx", "direct", "other"},
   readable : BOOLEAN, n : Entries, callbacks : Entries \cup {0}, docker : BOOLEAN,
   noPort : SUBSET Entries, checks : {"absent", "empty", "own"}, group : BOOLEAN,
   reliable : BOOLEAN, grace : BOOLEAN,
   mistyped : [file : BOOLEAN, service : SUBSET Entries, tags : SUBSET Entries,
               options : SUBSET Entries]]

ASSUME SdAssumption ==
  /\ Entries \subseteq Nat \ {0} /\ 1 \in Entries
  /\ {Unset, AnyHost} \cap Entries = {} /\ Unset # AnyHost
  /\ MaxSignals \in Nat
  /\ Confs \subseteq ConfType

VARIABLES
  conf,      \* the configuration, chosen once
  proc,      \* "up", "exited" (main returned), "killed" or "crashed"
  main,      \* where main is
  pc,        \* where registerService is, per entry
  cb,        \* where the goroutine of the callback is, per entry
  datas,     \* the keys host and port of the shared map
  got,       \* host and port that the callback was given
  registry,  \* what is registered
  notified,  \* who has called signal.Notify
  pending,   \* who has a signal in its channel quit
  told,      \* who had called Notify when an interrupt came
  signals    \* the signals sent so far

sdVars == <<conf, proc, main, pc, cb, datas, got, registry,
            notified, pending, told, signals>>

Main == 0
Waiters == {Main} \cup {e \in Entries : e <= conf.n}
Ran == {e \in Entries : e <= conf.n}
NoAddr == [host |-> Unset, port |-> Unset]

\* The address an entry should serve at.  Only the shared map has the host taken
\* away for docker_enable.
Own(e) ==
  [host |-> IF conf.docker /\ conf.form = "map" THEN AnyHost ELSE e,
   port |-> IF e \in conf.noPort THEN Unset ELSE e]

Up == proc = "up"
Dies(how) == proc' = how

SdInit ==
  /\ conf \in Confs
  /\ proc = "up"
  /\ main = "start"
  /\ pc = [e \in Entries |-> "none"]
  /\ cb = [e \in Entries |-> "none"]
  /\ datas = NoAddr
  /\ got = [e \in Entries |-> NoAddr]
  /\ registry = {}
  /\ notified = {} /\ pending = {} /\ told = {}
  /\ signals = 0

signalVars == <<notified, pending, told, signals>>
callVars == <<cb, datas, got>>

-----------------------------------------------------------------------------
(* RegisterFromMemory *)

\* RegisterWithConf and RegisterFile read the file first; a buffer that is nil
\* or does not parse, and a number of callbacks that does not fit, end the call
\* with a line in the log, and a section that is missing without one.
Refused ==
  \/ ~conf.readable
  \/ /\ ~conf.mistyped.file
     /\ \/ conf.form = "slice" /\ conf.n # conf.callbacks
        \/ conf.form = "map" /\ conf.callbacks < 1

\* The entries before the first one that is no JSON object or, for rpcx, has no
\* callback: at that one main panics, in an assertion or at callbacks[i].
Started ==
  {e \in Ran : \A d \in Ran : d <= e => d \notin conf.mistyped.service /\ d <= conf.callbacks}

\* A mistyped value of the whole file panics before anything is started, and an
\* unknown schema does.
Launch ==
  /\ Up /\ main = "start" /\ conf.form # "direct"
  /\ IF Refused
     THEN main' = "returned" /\ UNCHANGED <<proc, pc, cb>>
     ELSE IF conf.mistyped.file \/ conf.form = "other"
     THEN Dies("crashed") /\ UNCHANGED <<main, pc, cb>>
     ELSE CASE conf.form = "slice" ->
                 /\ main' = IF Started = Ran THEN "notify" ELSE "panics"
                 /\ pc' = [e \in Entries |-> IF e \in Started THEN "read" ELSE "none"]
                 /\ UNCHANGED <<proc, cb>>
            [] conf.form = "map" ->
                 /\ main' = "entry"
                 /\ pc' = [pc EXCEPT ![1] = "read"]
                 /\ UNCHANGED <<proc, cb>>
            [] conf.form = "rpcx" ->
                 /\ main' = IF Started = Ran THEN "returned" ELSE "panics"
                 /\ cb' = [e \in Entries |-> IF e \in Started THEN "call" ELSE "none"]
                 /\ UNCHANGED <<proc, pc>>
  /\ UNCHANGED <<conf, datas, got, registry, signalVars>>

\* Goroutines that were started may have run until main panics.
MainPanics ==
  /\ Up /\ main = "panics"
  /\ Dies("crashed")
  /\ UNCHANGED <<conf, main, pc, callVars, registry, signalVars>>

\* consul keeps the first of the configured servers, nacos all of them.
ConsulRegisterFromMemory == conf.sd = "consul" /\ Launch
NacosRegisterFromMemory == conf.sd = "nacos" /\ Launch

\* Faulty variant of MainNotify: RegisterFromMemory does not wait for <-quit.
MainNotifyReturns ==
  /\ Up /\ main = "notify"
  /\ main' = "returned"
  /\ notified' = notified \cup {Main}
  /\ UNCHANGED <<conf, proc, pc, callVars, registry, pending, told, signals>>

\* The end of RegisterFromMemory for several services: signal.Notify, <-quit.
MainNotify ==
  /\ Up /\ main = "notify"
  /\ main' = "receive"
  /\ notified' = notified \cup {Main}
  /\ UNCHANGED <<conf, proc, pc, callVars, registry, pending, told, signals>>

MainQuit ==
  /\ Up /\ main = "receive" /\ Main \in pending
  /\ main' = IF conf.form = "direct" THEN "registered" ELSE "returned"
  /\ pending' = pending \ {Main}
  /\ UNCHANGED <<conf, proc, pc, callVars, registry, notified, told, signals>>

\* main of the program returns: the process ends, whatever still runs.
Exit ==
  /\ Up /\ main = "returned" /\ conf.form # "rpcx"
  /\ Dies("exited")
  /\ UNCHANGED <<conf, main, pc, callVars, registry, signalVars>>

-----------------------------------------------------------------------------
(* registerService and nacosRegisterService *)

EntryAt(e, l) == Up /\ e \in Ran /\ pc[e] = l
EntryGoto(e, l) == pc' = [pc EXCEPT ![e] = l]

\* The function returns; for a single service so does RegisterFromMemory.
EntryReturns(e) ==
  /\ EntryGoto(e, "done")
  /\ main' = IF main = "entry" THEN "returned" ELSE main

\* datas["docker_enable"] and the tags of the entry, asserted to be a list
ReadDatas(e) ==
  /\ EntryAt(e, "read")
  /\ IF e \in conf.mistyped.tags
     THEN Dies("crashed") /\ UNCHANGED pc
     ELSE EntryGoto(e, "host") /\ UNCHANGED proc
  /\ UNCHANGED <<conf, main, callVars, registry, signalVars>>

\* Faulty variant of WriteHost: the callback is started before the port is set.
WriteHostStarts(e) ==
  /\ EntryAt(e, "host")
  /\ datas' = [datas EXCEPT !.host = e]
  /\ cb' = [cb EXCEPT ![e] = "host"]
  /\ EntryGoto(e, "port")
  /\ UNCHANGED <<conf, proc, main, got, registry, signalVars>>

\* datas["host"] = host
WriteHost(e) ==
  /\ EntryAt(e, "host")
  /\ datas' = [datas EXCEPT !.host = e]
  /\ EntryGoto(e, "port")
  /\ UNCHANGED <<conf, proc, main, cb, got, registry, signalVars>>

\* datas["port"] = port; without one the function returns, otherwise it starts
\* the goroutine of the callback.
WritePort(e) ==
  /\ EntryAt(e, "port")
  /\ IF e \in conf.noPort
     THEN EntryReturns(e) /\ UNCHANGED <<cb, datas>>
     ELSE /\ datas' = [datas EXCEPT !.port = e]
          /\ cb' = [cb EXCEPT ![e] = "host"]
          /\ EntryGoto(e, "connect")
          /\ UNCHANGED main
  /\ UNCHANGED <<conf, proc, got, registry, signalVars>>

\* Faulty variant of CallbackHost: docker_enable is not looked at.
CallbackHostKept(e) ==
  /\ Up /\ cb[e] = "host"
  /\ cb' = [cb EXCEPT ![e] = "call"]
  /\ UNCHANGED <<conf, proc, main, pc, datas, got, registry, signalVars>>

\* The goroutine of the callback sets the host again, to "" with docker_enable.
CallbackHost(e) ==
  /\ Up /\ cb[e] = "host"
  /\ datas' = [datas EXCEPT !.host = IF conf.docker THEN AnyHost ELSE e]
  /\ cb' = [cb EXCEPT ![e] = "call"]
  /\ UNCHANGED <<conf, proc, main, pc, got, registry, signalVars>>

\* host and port of what is registered; an address that Register cannot split
\* is logged, and "" and 0 are used.
AddrOf(e) ==
  IF e \in conf.noPort THEN [host |-> AnyHost, port |-> 0] ELSE [host |-> e, port |-> e]

\* What is registered: the entry's id, or name-host:port, with its own checks
\* or, if it lists none and for Register, one for its health page; with
\* docker_enable, too, the address is the entry's.
ServiceOf(e) ==
  [id |-> e, addr |-> AddrOf(e), group |-> FALSE,
   check |-> IF conf.checks = "own" /\ conf.form # "direct" THEN "own" ELSE "default"]

\* What is registered with nacos: an instance without checks, which the client
\* keeps alive, in a group if one is configured.
InstanceOf(e, group) ==
  [id |-> e, addr |-> AddrOf(e), check |-> "beat", group |-> group]

\* The assertions on the entry's checks, meta and other options, while the
\* callback runs; getConsulClient, which ends the process on an error, and
\* Register of libra9z/sd, which logs one.
ConsulConnect(e) ==
  /\ conf.sd = "consul" /\ EntryAt(e, "connect")
  /\ IF e \in conf.mistyped.options
     THEN Dies("crashed") /\ UNCHANGED <<pc, registry>>
     ELSE /\ EntryGoto(e, "notify")
          /\ \/ /\ registry' = {s \in registry : s.id # e} \cup {ServiceOf(e)}
                /\ UNCHANGED proc
             \/ /\ ~conf.reliable
                /\ Dies("killed") \/ UNCHANGED proc
                /\ UNCHANGED registry
  /\ UNCHANGED <<conf, main, callVars, signalVars>>

\* CreateNamingClient and RegisterInstance: on an error the function returns,
\* with the callback running; an answer of false without an error panics.
NacosConnect(e) ==
  /\ conf.sd = "nacos" /\ EntryAt(e, "connect")
  /\ \/ /\ registry' = registry \cup {InstanceOf(e, conf.group)}
        /\ EntryGoto(e, "notify")
        /\ UNCHANGED <<main, proc>>
     \/ /\ ~conf.reliable
        /\ \/ EntryReturns(e) /\ UNCHANGED proc
           \/ Dies("crashed") /\ UNCHANGED <<pc, main>>
        /\ UNCHANGED registry
  /\ UNCHANGED <<conf, callVars, signalVars>>

Notify(e) ==
  /\ EntryAt(e, "notify")
  /\ EntryGoto(e, "receive")
  /\ notified' = notified \cup {e}
  /\ UNCHANGED <<conf, proc, main, callVars, registry, pending, told, signals>>

Quit(e) ==
  /\ EntryAt(e, "receive") /\ e \in pending
  /\ EntryGoto(e, "deregister")
  /\ pending' = pending \ {e}
  /\ UNCHANGED <<conf, proc, main, callVars, registry, notified, told, signals>>

\* Faulty variant of ConsulDeregister: the single service returns from <-quit.
ConsulDeregisterSkipped(e) ==
  /\ conf.sd = "consul" /\ EntryAt(e, "deregister")
  /\ EntryReturns(e)
  /\ UNCHANGED <<conf, proc, callVars, registry, signalVars>>

\* Deregister of libra9z/sd logs an error.
ConsulDeregister(e) ==
  /\ conf.sd = "consul" /\ EntryAt(e, "deregister")
  /\ EntryReturns(e)
  /\ \/ registry' = {s \in registry : s.id # e}
     \/ ~conf.reliable /\ UNCHANGED registry
  /\ UNCHANGED <<conf, proc, callVars, signalVars>>

\* DeregisterInstance is called without the group.
NacosDeregister(e) ==
  /\ conf.sd = "nacos" /\ EntryAt(e, "deregister")
  /\ EntryReturns(e)
  /\ \/ registry' = registry \ {InstanceOf(e, FALSE)}
     \/ ~conf.reliable /\ UNCHANGED registry
  /\ UNCHANGED <<conf, proc, callVars, signalVars>>

-----------------------------------------------------------------------------
(* Register and Deregister, for one service *)

\* consul: the callback is started, the service registered, Register returns.
ConsulRegister ==
  /\ Up /\ main = "start" /\ conf.form = "direct" /\ conf.sd = "consul"
  /\ cb' = [cb EXCEPT ![1] = "call"]
  /\ main' = "registered"
  /\ \/ registry' = {ServiceOf(1)} /\ UNCHANGED proc
     \/ /\ ~conf.reliable
        /\ Dies("killed") \/ UNCHANGED proc
        /\ UNCHANGED registry
  /\ UNCHANGED <<conf, pc, datas, got, signalVars>>

\* nacos: the same, but Register waits for a signal.  The error of
\* CreateNamingClient is not looked at, and without a client the call panics.
NacosRegister ==
  /\ Up /\ main = "start" /\ conf.form = "direct" /\ conf.sd = "nacos"
  /\ cb' = [cb EXCEPT ![1] = "call"]
  /\ \/ /\ registry' = {InstanceOf(1, FALSE)}
        /\ main' = "notify"
        /\ UNCHANGED proc
     \/ /\ ~conf.reliable
        /\ main' = "registered"
        /\ Dies("crashed") \/ UNCHANGED proc
        /\ UNCHANGED registry
  /\ UNCHANGED <<conf, pc, datas, got, signalVars>>

\* main of the program calls Deregister.
DeregisterWith(instance) ==
  /\ Up /\ main = "registered"
  /\ main' = "returned"
  /\ \/ registry' = registry \ {instance}
     \/ ~conf.reliable /\ UNCHANGED registry
  /\ UNCHANGED <<conf, proc, pc, callVars, signalVars>>

ConsulDeregisters == conf.sd = "consul" /\ DeregisterWith(ServiceOf(1))
NacosDeregisters == conf.sd = "nacos" /\ DeregisterWith(InstanceOf(1, FALSE))

-----------------------------------------------------------------------------
(* The callbacks, the shared map and the signals *)

\* The map the callback gets: for rpcx and Register one of its own.
ParamsOf(e) == IF conf.form \in {"map", "slice"} THEN datas ELSE Own(e)

\* The callback reads its parameters and serves; Register without a callback
\* calls nil.
CallbackCall(e) ==
  /\ Up /\ cb[e] = "call"
  /\ IF conf.form = "direct" /\ conf.callbacks = 0
     THEN Dies("crashed") /\ UNCHANGED <<cb, got>>
     ELSE /\ got' = [got EXCEPT ![e] = ParamsOf(e)]
          /\ cb' = [cb EXCEPT ![e] = "running"]
          /\ UNCHANGED proc
  /\ UNCHANGED <<conf, main, pc, datas, registry, signalVars>>

\* The service ends, by an error, which is logged, or by a signal.
CallbackReturns(e) ==
  /\ Up
  /\ cb[e] = "draining" \/ (cb[e] = "running" /\ ~conf.reliable)
  /\ cb' = [cb EXCEPT ![e] = "returned"]
  /\ UNCHANGED <<conf, proc, main, pc, datas, got, registry, signalVars>>

\* The goroutines that are at an access to the shared map, and those at a write.
Writers == {<<e, "entry">> : e \in {f \in Ran : pc[f] \in {"host", "port"}}}
             \cup {<<e, "callback">> : e \in {f \in Ran : cb[f] = "host"}}
Accessors == Writers \cup {<<e, "entry">> : e \in {f \in Ran : pc[f] = "read"}}
               \cup {<<e, "callback">> : e \in {f \in Ran : cb[f] = "call"}}

\* The Go runtime may end the process when it sees a write to a map that
\* another goroutine is reading or writing.
MapRace ==
  /\ Up /\ conf.form \in {"map", "slice"}
  /\ \E w \in Writers : Accessors # {w}
  /\ Dies("crashed")
  /\ UNCHANGED <<conf, main, pc, callVars, registry, signalVars>>

\* handleSignals of a service of package grace takes the signal, too, and its
\* Serve drains.  It is never stopped, so that a second signal ends nothing
\* either; a service that has failed may have done so before it began.
Handling == {e \in Ran : conf.grace /\ cb[e] \in {"running", "draining", "returned"}}
Handles == \E e \in Handling : cb[e] # "returned" \/ conf.reliable
Drain ==
  cb' = [e \in Entries |-> IF conf.grace /\ cb[e] = "running" THEN "draining" ELSE cb[e]]

\* Faulty variant of Interrupt: quit has no buffer, a signal between Notify and
\* the receive is lost.
InterruptUnbuffered ==
  /\ Up /\ signals < MaxSignals
  /\ signals' = signals + 1
  /\ \/ /\ notified # {} \/ Handling # {}
        /\ \E ready \in SUBSET notified : pending' = pending \cup ready
        /\ told' = told \cup notified
        /\ Drain /\ UNCHANGED proc
     \/ /\ notified = {} /\ ~Handles
        /\ Dies("killed") /\ UNCHANGED <<cb, pending, told>>
  /\ UNCHANGED <<conf, main, pc, datas, got, registry, notified>>

\* SIGINT goes into the channel of everyone who has called Notify, and ends the
\* process if nobody has.
Interrupt ==
  /\ Up /\ signals < MaxSignals
  /\ signals' = signals + 1
  /\ \/ /\ notified # {} \/ Handling # {}
        /\ pending' = pending \cup notified
        /\ told' = told \cup notified
        /\ Drain /\ UNCHANGED proc
     \/ /\ notified = {} /\ ~Handles
        /\ Dies("killed") /\ UNCHANGED <<cb, pending, told>>
  /\ UNCHANGED <<conf, main, pc, datas, got, registry, notified>>

\* SIGTERM is not among the signals of Notify, and ends the process unless a
\* service of package grace listens.
Terminate ==
  /\ Up /\ signals < MaxSignals
  /\ signals' = signals + 1
  /\ \/ Handling # {} /\ Drain /\ UNCHANGED proc
     \/ ~Handles /\ Dies("killed") /\ UNCHANGED cb
  /\ UNCHANGED <<conf, main, pc, datas, got, registry, notified, pending, told>>

-----------------------------------------------------------------------------
MainStep ==
  \/ ConsulRegisterFromMemory \/ NacosRegisterFromMemory
  \/ ConsulRegister \/ NacosRegister \/ ConsulDeregisters \/ NacosDeregisters
  \/ MainPanics \/ MainNotify \/ MainQuit \/ Exit

EntryStep(e) ==
  \/ ReadDatas(e) \/ WriteHost(e) \/ WritePort(e)
  \/ ConsulConnect(e) \/ NacosConnect(e)
  \/ Notify(e) \/ Quit(e) \/ ConsulDeregister(e) \/ NacosDeregister(e)

SdNext ==
  \/ MainStep
  \/ \E e \in Entries :
       EntryStep(e) \/ CallbackHost(e) \/ CallbackCall(e) \/ CallbackReturns(e)
  \/ MapRace \/ Interrupt \/ Terminate

SdSpec == SdInit /\ [][SdNext]_sdVars

-----------------------------------------------------------------------------
(* Properties *)

\* The values the variables may take.
SdTypeOK ==
  /\ conf \in Confs
  /\ proc \in {"up", "exited", "killed", "crashed"}
  /\ main \in {"start", "panics", "entry", "notify", "receive", "registered", "returned"}
  /\ pc \in [Entries -> {"none", "read", "host", "port", "connect", "notify",
                         "receive", "deregister", "done"}]
  /\ cb \in [Entries -> {"none", "host", "call", "running", "draining", "returned"}]
  /\ datas \in [host : Entries \cup {Unset, AnyHost}, port : Entries \cup {Unset}]
  /\ got \in [Entries -> [host : Entries \cup {Unset, AnyHost}, port : Entries \cup {Unset}]]
  /\ registry \subseteq [id : Entries, addr : [host : Entries \cup {AnyHost}, port : Entries \cup {0}],
                         check : {"own", "default", "beat"}, group : BOOLEAN]
  /\ {notified, pending, told} \subseteq SUBSET ({Main} \cup Entries)
  /\ signals \in 0..MaxSignals

\* The callback of an only service, and every callback that has a map of its
\* own, is given the host and port of its entry, although entry and callback
\* write the map in turns.
OwnAddress ==
  \A e \in Entries : conf.form # "slice" => got[e] \in {NoAddr, Own(e)}

\* A process that registered one service and ends by returning from main
\* leaves nothing behind in the registry ("Deregistered service", consul.go:638),
\* unless nacos has put it in a group.
DeregisteredAtExit ==
  (proc = "exited" /\ conf.form \in {"map", "direct"} /\ conf.reliable
     /\ ~(conf.sd = "nacos" /\ conf.form = "map" /\ conf.group))
    => registry = {}

\* A single service, or the main of several, that waits for signals when an
\* interrupt comes ends the process.
InterruptEnds ==
  (conf.form # "direct" /\ \E w \in told : w = Main \/ conf.form = "map")
    ~> (proc # "up")

-----------------------------------------------------------------------------
(* The registry that SdRegister implements *)

Listed(e) == \E s \in registry : s.id = e

\* e was registered, or will not be.
Begun(e) ==
  IF conf.form = "direct" THEN e = 1 /\ main # "start"
  ELSE pc[e] \in {"notify", "receive", "deregister", "done"}

ListingOf(e) == IF Listed(e) THEN "listed" ELSE IF Begun(e) THEN "over" ELSE "unlisted"

listingBar == [e \in Entries |-> ListingOf(e)]

\* The program that has called Deregister has asked for the end by itself.
askedBar == told \cup (IF conf.form = "direct" /\ main = "returned" THEN {Main} ELSE {})

Listing == INSTANCE ServiceRegistry WITH
  Program <- Main, listing <- listingBar, asked <- askedBar, life <- proc

\* The registration is an implementation of ServiceRegistry, in every form of
\* configuration and with both registries, whatever fails: a service is listed
\* once, taken back only after an interrupt or by the program, and the process
\* does not return while one is listed before somebody was asked to end.
ImplementsRegistry == Listing!AbsSpec

-----------------------------------------------------------------------------
(* The inductive invariant behind ImplementsRegistry *)

\* What is registered was registered by its entry, once; who has a signal was
\* told, and so was an entry that deregisters; and a main that returned untold
\* has left nothing in the registry and no entry on its way to it.
ListInv ==
  /\ \A s \in registry : Begun(s.id) /\ \A t \in registry : s.id = t.id => s = t
  /\ pending \subseteq told
  /\ \A e \in Entries : pc[e] = "deregister" => e \in told
  /\ main = "entry" => conf.form = "map"
  /\ main = "registered" => conf.form = "direct"
  /\ main = "returned" /\ conf.form \notin {"direct", "rpcx"} /\ told = {} =>
       registry = {} /\ \A e \in Entries : pc[e] \in {"none", "done"}
=============================================================================
