------------------------- MODULE RegistrationProofs -------------------------
(***************************************************************************)
(* Theorems about Registration, for any number of entries, every           *)
(* configuration, any number of signals and every set of requests.         *)
(*                                                                         *)
(* EntryInv says which goroutines there are and that those of one entry    *)
(* take turns at the shared map; AddressInv follows host and port through  *)
(* the map; RegistryInv follows the one instance through the registry;     *)
(* RpcInv is about an rpcx server as long as it is the only one.           *)
(***************************************************************************)
EXTENDS Registration, TLAPS

Places == {"none", "read", "host", "port", "connect", "notify", "receive", "deregister", "done"}
Stages == {"none", "host", "call", "running", "draining", "returned"}
Hosts == Entries \cup {Unset, AnyHost}
Addresses == [host : Hosts, port : Entries \cup {Unset}]
Instances == [id : Entries, addr : [host : Entries \cup {AnyHost}, port : Entries \cup {0}],
              check : {"own", "default", "beat"}, group : BOOLEAN]
Mains == {"start", "panics", "entry", "notify", "receive", "registered", "returned"}
Steps == {"make", "method", "service", "serve", "served", "failed"}

\* TypeOK, one conjunct per variable.
SdTypeInv ==
  /\ conf \in Confs
  /\ proc \in {"up", "exited", "killed", "crashed"}
  /\ main \in Mains
  /\ pc \in [Entries -> Places]
  /\ cb \in [Entries -> Stages]
  /\ datas \in Addresses
  /\ got \in [Entries -> Addresses]
  /\ registry \subseteq Instances
  /\ notified \subseteq {Main} \cup Entries
  /\ pending \subseteq {Main} \cup Entries
  /\ told \subseteq {Main} \cup Entries
  /\ signals \in 0..MaxSignals

RpcTypeInv ==
  /\ defautlServer \in Entries \cup {NoServer}
  /\ \A e \in Entries : step[e] # "make" => defautlServer # NoServer
  /\ step \in [Entries -> Steps]
  /\ methods \in [Entries -> SUBSET Entries]
  /\ services \subseteq Entries
  /\ serving \subseteq Entries
  /\ last # Rpc!NoAnswer => last.at \in Entries /\ last.request \in Requests

\* The goroutines there are: for a single service those of the first entry, else
\* those of the entries of the configuration, if main can read it; main panics
\* where it does not start them all.  The callback of an entry starts
\* when the entry has written the map for the last time.
EntryInv ==
  /\ proc = "exited" => main = "returned"
  /\ conf.form = "map" => main \in {"start", "entry", "returned"}
  /\ main = "panics" => conf.readable /\ conf.form \in {"slice", "rpcx"} /\ Started # Ran
  /\ main = "start" => registry = {} /\ \A e \in Entries : pc[e] = "none" /\ cb[e] = "none"
  /\ \A e \in Entries :
       /\ pc[e] # "none" => /\ conf.form \in {"map", "slice"} /\ conf.readable
                            /\ e \in Ran
                            /\ conf.form = "map" => e = 1
       /\ cb[e] # "none" => /\ e \in Ran
                            /\ conf.form = "map" => e = 1
       /\ pc[e] \in {"read", "host", "port"} => cb[e] = "none"
       /\ conf.form = "map" /\ pc[e] \notin {"none", "done"} => main = "entry"

\* What the callback is given, where it does not share the map with others.
AddressInv ==
  conf.form # "slice" =>
    \A e \in Entries :
      /\ conf.form = "map" /\ cb[e] = "host" => datas.port = e /\ e \notin conf.noPort
      /\ conf.form = "map" /\ cb[e] = "call" => datas = Own(e)
      /\ got[e] = IF cb[e] \in {"running", "draining", "returned"} THEN Own(e) ELSE NoAddr

\* The one instance of a process that registers one service.
Instance ==
  IF conf.sd = "consul" THEN ServiceOf(1) ELSE InstanceOf(1, FALSE)

RegistryInv ==
  (conf.form \in {"map", "direct"} /\ conf.reliable
     /\ ~(conf.sd = "nacos" /\ conf.form = "map" /\ conf.group)) =>
    /\ registry \subseteq {Instance}
    /\ main = "returned" => registry = {}
    /\ conf.form = "map" /\ pc[1] \notin {"notify", "receive", "deregister"} => registry = {}

\* What runs on the variables of package rpcx are the callbacks of rpcx entries.
CallbackInv ==
  \A c \in Entries :
    step[c] # "make" => conf.form = "rpcx" /\ cb[c] \in {"running", "draining", "returned"}

\* No callback but c has made a server.
Alone(c) == \A d \in Entries \ {c} : step[d] = "make"

\* As long as c is the only server, its methods are its own, and nobody serves
\* before they are registered.
RpcInv ==
  \A c \in Entries :
    Alone(c) =>
      /\ step[c] \in {"make", "method", "service", "serve"} => serving = {}
      /\ step[c] = "make" => last = Rpc!NoAnswer
      /\ step[c] # "make" => defautlServer = c
      /\ step[c] = "method" => methods[c] = {}
      /\ step[c] \notin {"make", "method"} => methods[c] = {c}
      /\ (last # Rpc!NoAnswer /\ last.answer.kind = "reply")
           => (last.answer.ran <=> last.request.method = c)

-----------------------------------------------------------------------------
(* Types *)

\* What is registered is an instance.
LEMMA InstanceTyped ==
  ASSUME NEW e \in Entries, NEW group \in BOOLEAN
  PROVE  ServiceOf(e) \in Instances /\ InstanceOf(e, group) \in Instances
BY DEF ServiceOf, InstanceOf, AddrOf, Instances

\* How RegisterFromMemory starts: it is refused, it panics, it starts goroutines
\* and panics, or it starts them all.
LEMMA LaunchCases ==
  ASSUME SdTypeInv, Launch
  PROVE  /\ Up /\ main = "start" /\ Started \subseteq Ran /\ (~Refused => conf.readable)
         /\ UNCHANGED <<conf, datas, got, registry, signalVars>>
         /\ \/ Refused /\ main' = "returned" /\ UNCHANGED <<proc, pc, cb>>
            \/ /\ ~Refused /\ (conf.mistyped.file \/ conf.form = "other")
               /\ proc' = "crashed" /\ UNCHANGED <<main, pc, cb>>
            \/ /\ ~Refused /\ conf.form = "slice"
               /\ main' = IF Started = Ran THEN "notify" ELSE "panics"
               /\ pc' = [e \in Entries |-> IF e \in Started THEN "read" ELSE "none"]
               /\ UNCHANGED <<proc, cb>>
            \/ /\ ~Refused /\ conf.form = "map" /\ main' = "entry"
               /\ pc' = [pc EXCEPT ![1] = "read"] /\ UNCHANGED <<proc, cb>>
            \/ /\ ~Refused /\ conf.form = "rpcx"
               /\ main' = IF Started = Ran THEN "returned" ELSE "panics"
               /\ cb' = [e \in Entries |-> IF e \in Started THEN "call" ELSE "none"]
               /\ UNCHANGED <<proc, pc>>
<1>1. conf.form \in {"map", "slice", "rpcx", "direct", "other"}
  BY SdAssumption DEF SdTypeInv, SdAssumption, ConfType
<1>2. Started \subseteq Ran /\ (~Refused => conf.readable)
  BY DEF Started, Refused
<1>3. CASE Refused
  BY <1>2, <1>3 DEF Launch
<1>4. CASE ~Refused /\ (conf.mistyped.file \/ conf.form = "other")
  BY <1>2, <1>4 DEF Launch, Dies
<1>5. CASE ~Refused /\ ~(conf.mistyped.file \/ conf.form = "other")
  <2>1. CASE conf.form = "slice"
    BY <1>2, <1>5, <2>1 DEF Launch
  <2>2. CASE conf.form = "map"
    BY <1>2, <1>5, <2>2 DEF Launch
  <2>3. CASE conf.form = "rpcx"
    BY <1>2, <1>5, <2>3 DEF Launch
  <2>4. QED
    BY <1>1, <1>5, <2>1, <2>2, <2>3 DEF Launch
<1>6. QED
  BY <1>3, <1>4, <1>5

\* What main does keeps the types.
LEMMA MainTyped ==
  ASSUME SdTypeInv, MainStep
  PROVE  SdTypeInv'
<1> USE DEF SdTypeInv, signalVars, callVars, Mains, Up, Dies
<1>1. CASE Launch
  <2>1. pc' \in [Entries -> Places] /\ cb' \in [Entries -> Stages]
    BY <1>1, LaunchCases DEF Places, Stages
  <2>2. main' \in Mains /\ proc' \in {"up", "exited", "killed", "crashed"}
    BY <1>1, LaunchCases
  <2>3. QED
    BY <1>1, <2>1, <2>2, LaunchCases
<1>2. CASE ConsulRegister \/ NacosRegister
  <2>1. 1 \in Entries
    BY SdAssumption DEF SdAssumption
  <2>2. registry' \subseteq Instances
    <3>1. ServiceOf(1) \in Instances /\ InstanceOf(1, FALSE) \in Instances
      BY <2>1, InstanceTyped
    <3>2. registry' \in {registry, {ServiceOf(1)}, {InstanceOf(1, FALSE)}}
      BY <1>2 DEF ConsulRegister, NacosRegister
    <3>3. QED
      BY <3>1, <3>2
  <2>3. cb' \in [Entries -> Stages]
    BY <1>2, <2>1 DEF ConsulRegister, NacosRegister, Stages
  <2>4. main' \in Mains /\ proc' \in {"up", "exited", "killed", "crashed"}
    BY <1>2 DEF ConsulRegister, NacosRegister
  <2>5. QED
    BY <1>2, <2>2, <2>3, <2>4 DEF ConsulRegister, NacosRegister
<1>3. CASE ConsulDeregisters \/ NacosDeregisters
  BY <1>3 DEF ConsulDeregisters, NacosDeregisters, DeregisterWith
<1>4. CASE MainPanics \/ MainNotify \/ MainQuit \/ Exit
  BY <1>4 DEF MainPanics, MainNotify, MainQuit, Exit
<1>5. QED
  BY <1>1, <1>2, <1>3, <1>4 DEF MainStep, ConsulRegisterFromMemory, NacosRegisterFromMemory

\* What registerService does for an entry keeps the types.
LEMMA EntryTyped ==
  ASSUME SdTypeInv, NEW e \in Entries, EntryStep(e)
  PROVE  SdTypeInv'
<1> USE DEF SdTypeInv, signalVars, callVars
<1>1. \E l \in Places : pc' = [pc EXCEPT ![e] = l] \/ pc' = pc
  BY DEF EntryStep, ReadDatas, WriteHost, WritePort, ConsulConnect, NacosConnect, Notify, Quit,
         ConsulDeregister, NacosDeregister, EntryReturns, EntryGoto, Places
<1>2. pc' \in [Entries -> Places]
  BY <1>1
<1>3. main' \in Mains
  BY DEF EntryStep, ReadDatas, WriteHost, WritePort, ConsulConnect, NacosConnect, Notify, Quit,
         ConsulDeregister, NacosDeregister, EntryReturns, Mains
<1>4. CASE ReadDatas(e) \/ WriteHost(e) \/ WritePort(e)
  <2>1. cb' = cb \/ cb' = [cb EXCEPT ![e] = "host"]
    BY <1>4 DEF ReadDatas, WriteHost, WritePort
  <2>2. cb' \in [Entries -> Stages]
    BY <2>1 DEF Stages
  <2>3. datas' \in Addresses
    BY <1>4 DEF ReadDatas, WriteHost, WritePort, Addresses, Hosts
  <2>4. proc' \in {"up", "exited", "killed", "crashed"}
    BY <1>4 DEF ReadDatas, WriteHost, WritePort, Dies
  <2>5. QED
    BY <1>2, <1>3, <1>4, <2>2, <2>3, <2>4 DEF ReadDatas, WriteHost, WritePort
<1>5. CASE ConsulConnect(e) \/ NacosConnect(e)
  <2>1. conf.group \in BOOLEAN
    BY SdAssumption DEF SdAssumption, ConfType
  <2>2. registry' \subseteq Instances
    BY <1>5, <2>1, InstanceTyped DEF ConsulConnect, NacosConnect
  <2>3. proc' \in {"up", "exited", "killed", "crashed"}
    BY <1>5 DEF ConsulConnect, NacosConnect, Dies
  <2>4. QED
    BY <1>2, <1>3, <1>5, <2>2, <2>3 DEF ConsulConnect, NacosConnect
<1>6. CASE Notify(e) \/ Quit(e)
  BY <1>2, <1>3, <1>6 DEF Notify, Quit
<1>7. CASE ConsulDeregister(e) \/ NacosDeregister(e)
  <2>1. registry' \subseteq registry
    BY <1>7 DEF ConsulDeregister, NacosDeregister
  <2>2. QED
    BY <1>2, <1>3, <1>7, <2>1 DEF ConsulDeregister, NacosDeregister
<1>8. QED
  BY <1>4, <1>5, <1>6, <1>7 DEF EntryStep

\* The callbacks, a race and the signals keep the types.
LEMMA CallbackTyped ==
  ASSUME SdTypeInv,
         \/ \E e \in Entries : CallbackHost(e) \/ CallbackCall(e) \/ CallbackReturns(e)
         \/ MapRace \/ Interrupt \/ Terminate
  PROVE  SdTypeInv'
<1> USE DEF SdTypeInv, signalVars, callVars, Dies
<1>1. ASSUME NEW e \in Entries, CallbackHost(e)
      PROVE  SdTypeInv'
  BY <1>1 DEF CallbackHost, Addresses, Hosts, Stages
<1>2. ASSUME NEW e \in Entries, CallbackCall(e)
      PROVE  SdTypeInv'
  <2>1. Own(e) \in Addresses
    BY DEF Own, Addresses, Hosts
  <2>2. got' \in [Entries -> Addresses]
    BY <1>2, <2>1 DEF CallbackCall, ParamsOf
  <2>3. cb' \in [Entries -> Stages]
    BY <1>2 DEF CallbackCall, Stages
  <2>4. QED
    BY <1>2, <2>2, <2>3 DEF CallbackCall
<1>3. ASSUME NEW e \in Entries, CallbackReturns(e)
      PROVE  SdTypeInv'
  BY <1>3 DEF CallbackReturns, Stages
<1>4. CASE MapRace
  BY <1>4 DEF MapRace
<1>5. CASE Interrupt \/ Terminate
  <2>1. cb' = cb \/ Drain
    BY <1>5 DEF Interrupt, Terminate
  <2>2. cb' \in [Entries -> Stages]
    BY <2>1 DEF Drain, Stages
  <2>3. signals' \in 0..MaxSignals
    BY <1>5, SdAssumption DEF Interrupt, Terminate, SdAssumption
  <2>4. QED
    BY <1>5, <2>2, <2>3 DEF Interrupt, Terminate
<1>6. QED
  BY <1>1, <1>2, <1>3, <1>4, <1>5

\* A step of an rpcx server, and a request, keep the types.
LEMMA RpcTyped ==
  ASSUME RpcTypeInv,
         \/ \E e \in Entries : Rpc!RpcStep(e)
         \/ \E e \in Entries, r \in Requests : Rpc!Request(e, r)
  PROVE  RpcTypeInv'
<1> USE DEF RpcTypeInv, Steps
<1>1. ASSUME NEW e \in Entries, Rpc!RpcStep(e)
      PROVE  RpcTypeInv'
  <2>1. step' \in [Entries -> Steps]
    BY <1>1 DEF Rpc!RpcStep, Rpc!DefaultRpcServer, Rpc!RpcRegisterDefaultMethod,
                Rpc!RpcRegisterDefaultService, Rpc!RpcServe, Rpc!Then
  <2>2. methods' \in [Entries -> SUBSET Entries]
    BY <1>1 DEF Rpc!RpcStep, Rpc!DefaultRpcServer, Rpc!RpcRegisterDefaultMethod,
                Rpc!RpcRegisterDefaultService, Rpc!RpcServe
  <2>3. last' = last
    BY <1>1 DEF Rpc!RpcStep, Rpc!DefaultRpcServer, Rpc!RpcRegisterDefaultMethod,
                Rpc!RpcRegisterDefaultService, Rpc!RpcServe
  <2>4. /\ defautlServer' \in Entries
        /\ services' \subseteq Entries /\ serving' \subseteq Entries
    BY <1>1 DEF Rpc!RpcStep, Rpc!DefaultRpcServer, Rpc!RpcRegisterDefaultMethod,
                Rpc!RpcRegisterDefaultService, Rpc!RpcServe, Rpc!At
  <2>5. NoServer \notin Entries
    BY RegistrationAssumption DEF Rpc!RpcAssumption
  <2>6. QED
    BY <2>1, <2>2, <2>3, <2>4, <2>5
<1>2. ASSUME NEW e \in Entries, NEW r \in Requests, Rpc!Request(e, r)
      PROVE  RpcTypeInv'
  BY <1>2 DEF Rpc!Request
<1>3. QED
  BY <1>1, <1>2

\* A step keeps the types.
LEMMA TypeStep ==
  ASSUME SdTypeInv, RpcTypeInv, [Next]_vars
  PROVE  SdTypeInv' /\ RpcTypeInv'
<1>1. CASE UNCHANGED vars
  BY <1>1 DEF vars, sdVars, rpcVars, SdTypeInv, RpcTypeInv
<1>2. CASE SdNext /\ UNCHANGED rpcVars
  <2>1. SdTypeInv'
    BY <1>2, MainTyped, EntryTyped, CallbackTyped DEF SdNext
  <2>2. QED
    BY <1>2, <2>1 DEF rpcVars, RpcTypeInv
<1>3. CASE \/ \E e \in Entries : RpcCallback(e)
           \/ RpcRequest
  <2>1. RpcTypeInv'
    BY <1>3, RpcTyped DEF RpcCallback, RpcRequest
  <2>2. UNCHANGED sdVars
    BY <1>3 DEF RpcCallback, RpcRequest
  <2>3. QED
    BY <2>1, <2>2 DEF sdVars, SdTypeInv
<1>4. CASE RpcCrash
  BY <1>4 DEF RpcCrash, Dies, callVars, signalVars, rpcVars, SdTypeInv, RpcTypeInv
<1>5. QED
  BY <1>1, <1>2, <1>3, <1>4 DEF Next

\* The types hold in the beginning and from then on.
LEMMA TypeInvTheorem == Spec => [](SdTypeInv /\ RpcTypeInv)
<1>1. Init => SdTypeInv
  BY SdAssumption DEF Init, SdInit, SdTypeInv, Mains, Places, Stages, NoAddr, Addresses, Hosts,
                      SdAssumption
<1>2. Init => RpcTypeInv
  BY DEF Init, Rpc!RpcInit, RpcTypeInv, Steps
<1>3. QED
  BY <1>1, <1>2, TypeStep, PTL DEF Spec

\* The types of the variables of Registration, SdRegister and RpcServer.
THEOREM TypeTheorem == Spec => []TypeOK
<1>1. SdTypeInv => SdTypeOK
  BY DEF SdTypeInv, SdTypeOK, Mains, Places, Stages, Addresses, Hosts, Instances
<1>2. RpcTypeInv => Rpc!RpcTypeOK
  BY DEF RpcTypeInv, Rpc!RpcTypeOK, Steps
<1>3. QED
  BY <1>1, <1>2, TypeInvTheorem, PTL DEF TypeOK

-----------------------------------------------------------------------------
(* The goroutines there are *)

\* The first entry is one of the configuration.
LEMMA FirstRan ==
  ASSUME SdTypeInv
  PROVE  1 \in Entries /\ 1 \in Ran /\ Ran \subseteq Entries
<1>1. conf.n \in Entries
  BY SdAssumption DEF SdTypeInv, SdAssumption, ConfType
<1>2. 1 \in Entries /\ conf.n \in Nat \ {0}
  BY <1>1, SdAssumption DEF SdAssumption
<1>3. QED
  BY <1>2 DEF Ran

\* What main starts.
LEMMA MainEntries ==
  ASSUME SdTypeInv, EntryInv, MainStep
  PROVE  EntryInv'
<1> USE DEF EntryInv, signalVars, callVars, Up, Dies
<1>1. 1 \in Entries /\ 1 \in Ran /\ Ran \subseteq Entries
  BY FirstRan
<1>2. conf' = conf
  BY DEF MainStep, ConsulRegisterFromMemory, NacosRegisterFromMemory, Launch, ConsulRegister,
         NacosRegister, ConsulDeregisters, NacosDeregisters, DeregisterWith, MainPanics, MainNotify,
         MainQuit, Exit
<1>3. Ran' = Ran /\ Started' = Started
  BY <1>2 DEF Ran, Started
<1>4. CASE Launch
  <2>1. main = "start" /\ proc = "up" /\ \A e \in Entries : pc[e] = "none" /\ cb[e] = "none"
    BY <1>4 DEF Launch
  <2>2. /\ main' \notin {"start", "returned"} => conf.readable
        /\ main' = "panics" => Started # Ran
    BY <1>4, LaunchCases
  <2>3. CASE UNCHANGED <<pc, cb>> /\ main' \in {main, "returned"} /\ proc' # "exited"
    BY <1>2, <1>3, <1>4, <2>1, <2>3, LaunchCases
  <2>4. CASE conf.form = "slice" /\ main' \in {"notify", "panics"} /\ UNCHANGED <<proc, cb>>
    <3>1. pc' = [e \in Entries |-> IF e \in Started THEN "read" ELSE "none"]
      BY <1>4, <2>1, <2>4, LaunchCases
    <3>2. \A e \in Entries : pc'[e] # "none" => e \in Ran
      BY <3>1 DEF Started
    <3>3. QED
      BY <1>2, <1>3, <2>1, <2>2, <2>4, <3>1, <3>2
  <2>5. CASE conf.form = "map" /\ main' = "entry"
    <3>1. pc' = [pc EXCEPT ![1] = "read"] /\ cb' = cb /\ proc' = proc
      BY <1>4, <2>1, <2>5, LaunchCases
    <3>2. QED
      BY <1>1, <1>2, <1>3, <2>1, <2>2, <2>5, <3>1 DEF SdTypeInv
  <2>6. CASE conf.form = "rpcx" /\ main' \in {"returned", "panics"} /\ UNCHANGED <<proc, pc>>
    <3>1. \A e \in Entries : cb'[e] # "none" => e \in Ran
      BY <1>4, <2>1, <2>6, LaunchCases
    <3>2. QED
      BY <1>2, <1>3, <2>1, <2>2, <2>6, <3>1
  <2>7. \/ UNCHANGED <<pc, cb>> /\ main' \in {main, "returned"} /\ proc' # "exited"
        \/ conf.form = "slice" /\ main' \in {"notify", "panics"} /\ UNCHANGED <<proc, cb>>
        \/ conf.form = "map" /\ main' = "entry"
        \/ conf.form = "rpcx" /\ main' \in {"returned", "panics"} /\ UNCHANGED <<proc, pc>>
    BY <1>4, <2>1, LaunchCases
  <2>8. QED
    BY <2>3, <2>4, <2>5, <2>6, <2>7
<1>5. CASE ConsulRegister \/ NacosRegister
  <2>1. /\ conf.form = "direct" /\ main' \notin {"start", "panics"} /\ proc' # "exited"
        /\ pc' = pc /\ cb' = [cb EXCEPT ![1] = "call"]
        /\ \A e \in Entries : pc[e] = "none" /\ cb[e] = "none"
    BY <1>5 DEF ConsulRegister, NacosRegister
  <2>2. QED
    BY <1>1, <1>2, <1>3, <2>1 DEF SdTypeInv
<1>6. CASE ConsulDeregisters \/ NacosDeregisters
  BY <1>2, <1>3, <1>6 DEF ConsulDeregisters, NacosDeregisters, DeregisterWith
<1>7. CASE MainPanics \/ MainNotify \/ MainQuit \/ Exit
  BY <1>2, <1>3, <1>7 DEF MainPanics, MainNotify, MainQuit, Exit
<1>8. QED
  BY <1>4, <1>5, <1>6, <1>7 DEF MainStep, ConsulRegisterFromMemory, NacosRegisterFromMemory

\* An entry goes its way while its callback has not started, and then leaves the
\* map alone.
LEMMA EntryEntries ==
  ASSUME SdTypeInv, EntryInv, NEW e \in Entries, EntryStep(e)
  PROVE  EntryInv'
<1> USE DEF EntryInv, EntryAt, EntryGoto, EntryReturns, signalVars, callVars, Up, Dies
<1>1. conf' = conf /\ Ran' = Ran /\ Started' = Started
  BY DEF EntryStep, ReadDatas, WriteHost, WritePort, ConsulConnect, NacosConnect, Notify, Quit,
         ConsulDeregister, NacosDeregister, Ran, Started
<1>2. e \in Ran /\ proc = "up" /\ pc[e] # "none" /\ main # "start" /\ proc' # "exited"
  BY DEF EntryStep, ReadDatas, WriteHost, WritePort, ConsulConnect, NacosConnect, Notify, Quit,
         ConsulDeregister, NacosDeregister
<1>3. conf.form = "map" => e = 1 /\ main = "entry"
  BY <1>2 DEF EntryStep, ReadDatas, WriteHost, WritePort, ConsulConnect, NacosConnect, Notify,
         Quit, ConsulDeregister, NacosDeregister
<1>4. \/ pc' = pc /\ main' = main /\ cb' = cb
      \/ /\ \E l \in {"host", "port", "connect", "notify", "receive", "deregister"} :
              pc' = [pc EXCEPT ![e] = l] /\ (l \in {"host", "port"} => pc[e] \in {"read", "host"})
         /\ main' = main
         /\ cb' = cb \/ (pc'[e] = "connect" /\ cb' = [cb EXCEPT ![e] = "host"])
      \/ /\ pc' = [pc EXCEPT ![e] = "done"] /\ cb' = cb
         /\ main' = IF main = "entry" THEN "returned" ELSE main
  <2>1. CASE ReadDatas(e) \/ WriteHost(e) \/ Notify(e) \/ Quit(e)
    BY <2>1 DEF ReadDatas, WriteHost, Notify, Quit
  <2>2. CASE WritePort(e)
    BY <2>2 DEF WritePort, SdTypeInv
  <2>3. CASE ConsulConnect(e) \/ NacosConnect(e)
    BY <2>3 DEF ConsulConnect, NacosConnect
  <2>4. CASE ConsulDeregister(e) \/ NacosDeregister(e)
    BY <2>4 DEF ConsulDeregister, NacosDeregister
  <2>5. QED
    BY <2>1, <2>2, <2>3, <2>4 DEF EntryStep
<1>5. /\ pc \in [Entries -> Places] /\ cb \in [Entries -> Stages]
  BY DEF SdTypeInv
<1>6. CASE pc' = pc /\ main' = main /\ cb' = cb
  BY <1>1, <1>2, <1>6
<1>7. CASE /\ \E l \in {"host", "port", "connect", "notify", "receive", "deregister"} :
                pc' = [pc EXCEPT ![e] = l] /\ (l \in {"host", "port"} => pc[e] \in {"read", "host"})
           /\ main' = main
           /\ cb' = cb \/ (pc'[e] = "connect" /\ cb' = [cb EXCEPT ![e] = "host"])
  BY <1>1, <1>2, <1>3, <1>5, <1>7
<1>8. CASE /\ pc' = [pc EXCEPT ![e] = "done"] /\ cb' = cb
           /\ main' = IF main = "entry" THEN "returned" ELSE main
  BY <1>1, <1>2, <1>3, <1>5, <1>8
<1>9. QED
  BY <1>4, <1>6, <1>7, <1>8

\* Callbacks, races and signals start nothing.
LEMMA CallbackEntries ==
  ASSUME SdTypeInv, EntryInv,
         \/ \E e \in Entries : CallbackHost(e) \/ CallbackCall(e) \/ CallbackReturns(e)
         \/ MapRace \/ Interrupt \/ Terminate
  PROVE  EntryInv'
<1> USE DEF EntryInv, signalVars, callVars, Up, Dies
<1>1. /\ conf' = conf /\ Ran' = Ran /\ Started' = Started /\ pc' = pc /\ main' = main /\ registry' = registry
      /\ proc' # "exited"
  BY DEF CallbackHost, CallbackCall, CallbackReturns, MapRace, Interrupt, Terminate, Ran, Started
<1>2. \A e \in Entries : cb'[e] # "none" <=> cb[e] # "none"
  <2>1. CASE \E e \in Entries : CallbackHost(e) \/ CallbackCall(e) \/ CallbackReturns(e)
    <3>1. PICK e \in Entries : CallbackHost(e) \/ CallbackCall(e) \/ CallbackReturns(e)
      BY <2>1
    <3>2. /\ cb[e] # "none"
          /\ \/ cb' = cb
             \/ \E l \in {"call", "running", "returned"} : cb' = [cb EXCEPT ![e] = l]
      BY <3>1 DEF CallbackHost, CallbackCall, CallbackReturns
    <3>3. QED
      BY <3>2 DEF SdTypeInv
  <2>2. CASE MapRace \/ Interrupt \/ Terminate
    BY <2>2 DEF MapRace, Interrupt, Terminate, Drain
  <2>3. QED
    BY <2>1, <2>2
<1>3. QED
  BY <1>1, <1>2

\* The goroutines of the entries take turns at the shared map, always.
LEMMA EntryTheorem == Spec => [](SdTypeInv /\ RpcTypeInv /\ EntryInv)
<1>1. Init => EntryInv
  BY DEF Init, SdInit, EntryInv
<1>2. SdTypeInv /\ EntryInv /\ [Next]_vars => EntryInv'
  <2> SUFFICES ASSUME SdTypeInv, EntryInv, [Next]_vars PROVE EntryInv'
    OBVIOUS
  <2>1. CASE SdNext
    BY <2>1, MainEntries, EntryEntries, CallbackEntries DEF SdNext
  <2>2. CASE UNCHANGED sdVars
    BY <2>2 DEF sdVars, EntryInv, Ran, Started
  <2>3. CASE RpcCrash
    BY <2>3 DEF RpcCrash, Dies, callVars, signalVars, EntryInv, Ran, Started
  <2>4. QED
    BY <2>1, <2>2, <2>3 DEF Next, RpcCallback, RpcRequest, vars
<1>3. QED
  BY <1>1, <1>2, TypeInvTheorem, PTL DEF Spec

-----------------------------------------------------------------------------
(* What a callback is given *)

\* The configuration stays, and a step of main leaves the map and the parameters
\* alone; it starts callbacks only where they do not share the map.
LEMMA MainAddress ==
  ASSUME SdTypeInv, EntryInv, AddressInv, MainStep
  PROVE  AddressInv'
<1> USE DEF signalVars, callVars
<1>1. conf' = conf /\ datas' = datas /\ got' = got
  BY DEF MainStep, ConsulRegisterFromMemory, NacosRegisterFromMemory, Launch, ConsulRegister,
         NacosRegister, ConsulDeregisters, NacosDeregisters, DeregisterWith, MainPanics, MainNotify,
         MainQuit, Exit
<1>2. \/ cb' = cb
      \/ /\ conf.form # "map"
         /\ \A e \in Entries : cb[e] = "none" /\ cb'[e] \in {"none", "call"}
  <2>1. CASE Launch
    <3>1. main = "start" /\ \A e \in Entries : cb[e] = "none"
      BY <2>1 DEF Launch, EntryInv
    <3>2. QED
      BY <2>1, <3>1, LaunchCases
  <2>2. CASE ConsulRegister \/ NacosRegister
    <3>1. /\ conf.form = "direct" /\ cb' = [cb EXCEPT ![1] = "call"]
          /\ \A e \in Entries : cb[e] = "none"
      BY <2>2 DEF ConsulRegister, NacosRegister, EntryInv
    <3>2. QED
      BY <3>1 DEF SdTypeInv
  <2>3. CASE \/ ConsulDeregisters \/ NacosDeregisters
             \/ MainPanics \/ MainNotify \/ MainQuit \/ Exit
    BY <2>3 DEF ConsulDeregisters, NacosDeregisters, DeregisterWith, MainPanics,
       MainNotify, MainQuit, Exit
  <2>4. QED
    BY <2>1, <2>2, <2>3 DEF MainStep, ConsulRegisterFromMemory, NacosRegisterFromMemory
<1>3. \A e \in Entries : Own(e)' = Own(e)
  BY <1>1 DEF Own
<1>4. QED
  BY <1>1, <1>2, <1>3 DEF AddressInv

\* A step of an entry writes the map before its callback has started.
LEMMA EntryAddress ==
  ASSUME SdTypeInv, EntryInv, AddressInv, NEW e \in Entries, EntryStep(e)
  PROVE  AddressInv'
<1> USE DEF signalVars, callVars, EntryAt, EntryGoto, EntryReturns
<1>1. conf' = conf /\ got' = got
  BY DEF EntryStep, ReadDatas, WriteHost, WritePort, ConsulConnect, NacosConnect, Notify, Quit,
         ConsulDeregister, NacosDeregister
<1>2. \A f \in Entries : Own(f)' = Own(f)
  BY <1>1 DEF Own
<1>3. conf.form # "slice" => conf.form = "map" /\ \A f \in Entries : cb[f] # "none" => f = e
  <2>1. pc[e] # "none"
    BY DEF EntryStep, ReadDatas, WriteHost, WritePort, ConsulConnect, NacosConnect, Notify, Quit,
           ConsulDeregister, NacosDeregister
  <2>2. QED
    BY <2>1 DEF EntryInv
<1>4. CASE WriteHost(e)
  <2>1. cb' = cb /\ cb[e] = "none"
    BY <1>4 DEF WriteHost, EntryInv
  <2>2. QED
    BY <1>1, <1>2, <1>3, <2>1 DEF AddressInv
<1>5. CASE WritePort(e)
  <2>1. cb[e] = "none"
    BY <1>5 DEF WritePort, EntryInv
  <2>2. CASE e \in conf.noPort
    BY <1>1, <1>2, <1>5, <2>2 DEF WritePort, AddressInv
  <2>3. CASE e \notin conf.noPort
    <3>1. cb' = [cb EXCEPT ![e] = "host"] /\ datas'.port = e
      BY <1>5, <2>3 DEF WritePort, SdTypeInv, Addresses
    <3>2. cb \in [Entries -> Stages]
      BY DEF SdTypeInv
    <3>3. QED
      BY <1>1, <1>2, <1>3, <2>1, <2>3, <3>1, <3>2 DEF AddressInv
  <2>4. QED
    BY <2>2, <2>3
<1>6. CASE ~WriteHost(e) /\ ~WritePort(e)
  <2>1. datas' = datas /\ cb' = cb
    BY <1>6 DEF EntryStep, ReadDatas, ConsulConnect, NacosConnect, Notify, Quit,
                ConsulDeregister, NacosDeregister
  <2>2. QED
    BY <1>1, <1>2, <2>1 DEF AddressInv
<1>7. QED
  BY <1>4, <1>5, <1>6

\* A callback that does not share the map finds its own address there.
LEMMA CallbackAddress ==
  ASSUME SdTypeInv, EntryInv, AddressInv,
         \/ \E e \in Entries : CallbackHost(e) \/ CallbackCall(e) \/ CallbackReturns(e)
         \/ MapRace \/ Interrupt \/ Terminate
  PROVE  AddressInv'
<1> USE DEF signalVars, callVars
<1>1. conf' = conf
  BY DEF CallbackHost, CallbackCall, CallbackReturns, MapRace, Interrupt, Terminate
<1>2. \A f \in Entries : Own(f)' = Own(f)
  BY <1>1 DEF Own
<1> SUFFICES ASSUME conf.form # "slice"
             PROVE  AddressInv'
  BY <1>1 DEF AddressInv
<1>3. /\ cb \in [Entries -> Stages]
      /\ got \in [Entries -> Addresses]
      /\ datas \in Addresses
  BY DEF SdTypeInv
<1>4. ASSUME NEW e \in Entries, CallbackHost(e)
      PROVE  AddressInv'
  <2>1. /\ cb[e] = "host" /\ cb' = [cb EXCEPT ![e] = "call"] /\ got' = got
        /\ datas' = [datas EXCEPT !.host = IF conf.docker THEN AnyHost ELSE e]
    BY <1>4 DEF CallbackHost
  <2>2. conf.form = "map" => datas' = Own(e)
    BY <1>3, <2>1 DEF AddressInv, Addresses, Own
  <2>3. conf.form = "map" => \A f \in Entries : cb[f] # "none" => f = e
    BY <2>1 DEF EntryInv
  <2>4. QED
    BY <1>1, <1>2, <1>3, <2>1, <2>2, <2>3 DEF AddressInv
<1>5. ASSUME NEW e \in Entries, CallbackCall(e)
      PROVE  AddressInv'
  <2>1. CASE conf.form = "direct" /\ conf.callbacks = 0
    BY <1>1, <1>2, <1>5, <2>1 DEF CallbackCall, AddressInv
  <2>2. CASE ~(conf.form = "direct" /\ conf.callbacks = 0)
    <3>1. /\ cb[e] = "call" /\ cb' = [cb EXCEPT ![e] = "running"] /\ datas' = datas
          /\ got' = [got EXCEPT ![e] = ParamsOf(e)]
      BY <1>5, <2>2 DEF CallbackCall
    <3>2. ParamsOf(e) = Own(e)
      BY <3>1 DEF ParamsOf, AddressInv
    <3>3. QED
      BY <1>1, <1>2, <1>3, <3>1, <3>2 DEF AddressInv
  <2>3. QED
    BY <2>1, <2>2
<1>6. ASSUME NEW e \in Entries, CallbackReturns(e)
      PROVE  AddressInv'
  <2>1. /\ cb[e] \in {"running", "draining"} /\ cb' = [cb EXCEPT ![e] = "returned"]
        /\ datas' = datas /\ got' = got
    BY <1>6 DEF CallbackReturns
  <2>2. QED
    BY <1>1, <1>2, <1>3, <2>1 DEF AddressInv
<1>7. CASE MapRace \/ Interrupt \/ Terminate
  <2>1. datas' = datas /\ got' = got /\ (cb' = cb \/ Drain)
    BY <1>7 DEF MapRace, Interrupt, Terminate
  <2>2. \A e \in Entries : cb'[e] = cb[e] \/ (cb[e] = "running" /\ cb'[e] = "draining")
    BY <2>1 DEF Drain
  <2>3. QED
    BY <1>1, <1>2, <2>1, <2>2 DEF AddressInv
<1>8. QED
  BY <1>4, <1>5, <1>6, <1>7

\* The parameters follow their entries, always.
LEMMA AddressTheorem == Spec => []AddressInv
<1>1. Init => AddressInv
  BY DEF Init, SdInit, AddressInv
<1>2. SdTypeInv /\ EntryInv /\ AddressInv /\ [Next]_vars => AddressInv'
  <2> SUFFICES ASSUME SdTypeInv, EntryInv, AddressInv, [Next]_vars PROVE AddressInv'
    OBVIOUS
  <2>1. CASE SdNext
    BY <2>1, MainAddress, EntryAddress, CallbackAddress DEF SdNext
  <2>2. CASE UNCHANGED sdVars
    BY <2>2 DEF sdVars, AddressInv, Own
  <2>3. CASE RpcCrash
    BY <2>3 DEF RpcCrash, Dies, callVars, signalVars, AddressInv, Own
  <2>4. QED
    BY <2>1, <2>2, <2>3 DEF Next, RpcCallback, RpcRequest, vars
<1>3. QED
  BY <1>1, <1>2, EntryTheorem, PTL DEF Spec

\* OwnAddress: entry and callback write host and port into one map in turns, and
\* still the callback of an only service is given its own address, as is every
\* callback that has a map of its own.
THEOREM OwnAddressTheorem == Spec => []OwnAddress
<1>1. AddressInv => OwnAddress
  BY DEF AddressInv, OwnAddress
<1>2. QED
  BY <1>1, AddressTheorem, PTL

-----------------------------------------------------------------------------
(* What is left in the registry *)

\* The configurations DeregisteredAtExit speaks of.
OneReliable ==
  /\ conf.form \in {"map", "direct"} /\ conf.reliable
  /\ ~(conf.sd = "nacos" /\ conf.form = "map" /\ conf.group)

\* A step of main registers the one service, or takes it back.
LEMMA MainRegistry ==
  ASSUME SdTypeInv, EntryInv, RegistryInv, MainStep
  PROVE  RegistryInv'
<1> USE DEF signalVars, callVars
<1>1. conf' = conf /\ Instance' = Instance
  BY DEF MainStep, ConsulRegisterFromMemory, NacosRegisterFromMemory, Launch, ConsulRegister,
         NacosRegister, ConsulDeregisters, NacosDeregisters, DeregisterWith, MainPanics, MainNotify,
         MainQuit, Exit, Instance, ServiceOf, InstanceOf, AddrOf
<1> SUFFICES ASSUME OneReliable
             PROVE  /\ registry' \subseteq {Instance}
                    /\ main' = "returned" => registry' = {}
                    /\ conf.form = "map" /\ pc'[1] \notin {"notify", "receive", "deregister"}
                         => registry' = {}
  BY <1>1 DEF RegistryInv, OneReliable
<1>2. /\ registry \subseteq {Instance}
      /\ main = "returned" => registry = {}
      /\ conf.form = "map" /\ pc[1] \notin {"notify", "receive", "deregister"} => registry = {}
  BY DEF RegistryInv, OneReliable
<1>3. CASE Launch
  <2>1. registry' = {}
    BY <1>3, LaunchCases DEF EntryInv
  <2>2. QED
    BY <2>1
<1>4. CASE ConsulRegister \/ NacosRegister
  <2>1. conf.form = "direct" /\ main' # "returned" /\ registry' = {Instance}
    BY <1>4 DEF ConsulRegister, NacosRegister, OneReliable, Instance
  <2>2. QED
    BY <2>1
<1>5. CASE ConsulDeregisters \/ NacosDeregisters
  <2>1. DeregisterWith(Instance)
    BY <1>5 DEF ConsulDeregisters, NacosDeregisters, Instance
  <2>2. registry' = registry \ {Instance}
    BY <2>1 DEF DeregisterWith, OneReliable
  <2>3. QED
    BY <1>2, <2>2
<1>6. CASE MainNotify \/ MainQuit
  <2>1. main \in {"notify", "receive"} /\ registry' = registry
    BY <1>6 DEF MainNotify, MainQuit
  <2>2. conf.form = "direct"
    BY <2>1 DEF EntryInv, OneReliable
  <2>3. main' # "returned"
    BY <1>6, <2>2 DEF MainNotify, MainQuit
  <2>4. QED
    BY <1>2, <2>1, <2>2, <2>3
<1>7. CASE MainPanics \/ Exit
  BY <1>2, <1>7 DEF MainPanics, Exit
<1>8. QED
  BY <1>3, <1>4, <1>5, <1>6, <1>7 DEF MainStep, ConsulRegisterFromMemory, NacosRegisterFromMemory

\* So does a step of the one entry.
LEMMA EntryRegistry ==
  ASSUME SdTypeInv, EntryInv, RegistryInv, NEW e \in Entries, EntryStep(e)
  PROVE  RegistryInv'
<1> USE DEF signalVars, callVars, EntryAt, EntryGoto, EntryReturns
<1>1. conf' = conf /\ Instance' = Instance
  BY DEF EntryStep, ReadDatas, WriteHost, WritePort, ConsulConnect, NacosConnect, Notify, Quit,
         ConsulDeregister, NacosDeregister, Instance, ServiceOf, InstanceOf, AddrOf
<1> SUFFICES ASSUME OneReliable
             PROVE  /\ registry' \subseteq {Instance}
                    /\ main' = "returned" => registry' = {}
                    /\ conf.form = "map" /\ pc'[1] \notin {"notify", "receive", "deregister"}
                         => registry' = {}
  BY <1>1 DEF RegistryInv, OneReliable
<1>2. /\ registry \subseteq {Instance}
      /\ main = "returned" => registry = {}
      /\ conf.form = "map" /\ pc[1] \notin {"notify", "receive", "deregister"} => registry = {}
  BY DEF RegistryInv, OneReliable
<1>3. pc[e] # "none" /\ pc[e] # "done"
  BY DEF EntryStep, ReadDatas, WriteHost, WritePort, ConsulConnect, NacosConnect, Notify, Quit,
         ConsulDeregister, NacosDeregister
<1>4. conf.form = "map" /\ e = 1 /\ main = "entry"
  BY <1>3 DEF EntryInv, OneReliable
<1>5. pc \in [Entries -> Places] /\ conf.group \in BOOLEAN
  BY SdAssumption DEF SdTypeInv, SdAssumption, ConfType
<1>6. Instance.id = 1
  BY DEF Instance, ServiceOf, InstanceOf
<1>7. CASE ReadDatas(e) \/ WriteHost(e) \/ WritePort(e)
  <2>1. registry' = registry /\ pc[e] \in {"read", "host", "port"}
    BY <1>7 DEF ReadDatas, WriteHost, WritePort
  <2>2. QED
    BY <1>2, <1>4, <2>1
<1>8. CASE ConsulConnect(e) \/ NacosConnect(e)
  <2>1. pc[e] = "connect"
    BY <1>8 DEF ConsulConnect, NacosConnect
  <2>2. registry = {}
    BY <1>2, <1>4, <2>1
  <2>3. /\ main' = main
        /\ \/ registry' = {Instance} /\ pc' = [pc EXCEPT ![e] = "notify"]
           \/ registry' = {}
    <3>1. CASE ConsulConnect(e)
      BY <1>4, <2>2, <3>1 DEF ConsulConnect, OneReliable, Instance
    <3>2. CASE NacosConnect(e)
      <4>1. conf.sd = "nacos" /\ conf.group = FALSE
        BY <1>4, <1>5, <3>2 DEF NacosConnect, OneReliable
      <4>2. QED
        BY <1>4, <2>2, <3>2, <4>1 DEF NacosConnect, OneReliable, Instance
    <3>3. QED
      BY <1>8, <3>1, <3>2
  <2>4. QED
    BY <1>4, <1>5, <2>3
<1>9. CASE Notify(e) \/ Quit(e)
  <2>1. registry' = registry /\ main' = main
    BY <1>9 DEF Notify, Quit
  <2>2. pc'[1] \in {"receive", "deregister"}
    BY <1>4, <1>5, <1>9 DEF Notify, Quit
  <2>3. QED
    BY <1>2, <1>4, <2>1, <2>2
<1>10. CASE ConsulDeregister(e) \/ NacosDeregister(e)
  <2>1. CASE ConsulDeregister(e)
    <3>1. registry' = {s \in registry : s.id # 1}
      BY <1>4, <2>1 DEF ConsulDeregister, OneReliable
    <3>2. QED
      BY <1>2, <1>6, <3>1
  <2>2. CASE NacosDeregister(e)
    <3>1. registry' = registry \ {Instance}
      BY <1>4, <2>2 DEF NacosDeregister, OneReliable, Instance
    <3>2. QED
      BY <1>2, <3>1
  <2>3. QED
    BY <1>10, <2>1, <2>2
<1>11. QED
  BY <1>7, <1>8, <1>9, <1>10 DEF EntryStep

\* The one instance through the registry, always.
LEMMA RegistryTheorem == Spec => []RegistryInv
<1>1. Init => RegistryInv
  BY DEF Init, SdInit, RegistryInv
<1>2. SdTypeInv /\ EntryInv /\ RegistryInv /\ [Next]_vars => RegistryInv'
  <2> SUFFICES ASSUME SdTypeInv, EntryInv, RegistryInv, [Next]_vars PROVE RegistryInv'
    OBVIOUS
  <2>1. CASE MainStep
    BY <2>1, MainRegistry
  <2>2. CASE \E e \in Entries : EntryStep(e)
    BY <2>2, EntryRegistry
  <2>3. CASE UNCHANGED <<conf, main, pc, registry>>
    BY <2>3 DEF RegistryInv, Instance, ServiceOf, InstanceOf, AddrOf
  <2>4. SdNext \/ UNCHANGED sdVars \/ RpcCrash
    BY DEF Next, RpcCallback, RpcRequest, vars
  <2>5. SdNext => MainStep \/ (\E e \in Entries : EntryStep(e)) \/ UNCHANGED <<conf, main, pc, registry>>
    BY DEF SdNext, CallbackHost, CallbackCall, CallbackReturns, MapRace, Interrupt, Terminate,
           signalVars, callVars
  <2>6. UNCHANGED sdVars \/ RpcCrash => UNCHANGED <<conf, main, pc, registry>>
    BY DEF sdVars, RpcCrash
  <2>7. QED
    BY <2>1, <2>2, <2>3, <2>4, <2>5, <2>6
<1>3. QED
  BY <1>1, <1>2, EntryTheorem, PTL DEF Spec

\* DeregisteredAtExit: a process that registered one service, with a registry
\* that answers, and that ends by returning from main, leaves nothing behind.
THEOREM DeregisteredTheorem == Spec => []DeregisteredAtExit
<1>1. EntryInv /\ RegistryInv => DeregisteredAtExit
  BY DEF EntryInv, RegistryInv, DeregisteredAtExit
<1>2. QED
  BY <1>1, EntryTheorem, RegistryTheorem, PTL

-----------------------------------------------------------------------------
(* rpcx servers *)

\* What runs on the variables of package rpcx, and what a lone server keeps.
LEMMA CallbackInvStep ==
  ASSUME SdTypeInv, RpcTypeInv, EntryInv, CallbackInv, [Next]_vars
  PROVE  CallbackInv'
<1>1. /\ cb \in [Entries -> Stages]
      /\ step \in [Entries -> Steps]
  BY DEF SdTypeInv, RpcTypeInv
<1>2. conf' = conf
  BY DEF Next, SdNext, MainStep, EntryStep, ConsulRegisterFromMemory, NacosRegisterFromMemory,
         Launch, ConsulRegister, NacosRegister, ConsulDeregisters, NacosDeregisters, DeregisterWith,
         MainPanics, MainNotify, MainQuit, Exit, ReadDatas, WriteHost, WritePort, ConsulConnect, NacosConnect,
         Notify, Quit, ConsulDeregister, NacosDeregister, CallbackHost, CallbackCall,
         CallbackReturns, MapRace, Interrupt, Terminate, RpcCallback, RpcRequest, RpcCrash, vars,
         sdVars
<1>3. CASE \E e \in Entries : RpcCallback(e)
  <2>1. PICK e \in Entries : RpcCallback(e)
    BY <1>3
  <2>2. conf.form = "rpcx" /\ cb[e] = "running" /\ cb' = cb
    BY <2>1 DEF RpcCallback, Serves, sdVars
  <2>3. \E l : step' = [step EXCEPT ![e] = l]
    BY <2>1 DEF RpcCallback, Rpc!RpcStep, Rpc!DefaultRpcServer, Rpc!RpcRegisterDefaultMethod,
                Rpc!RpcRegisterDefaultService, Rpc!RpcServe, Rpc!Then
  <2>4. QED
    BY <1>1, <1>2, <2>2, <2>3 DEF CallbackInv
<1>4. CASE SdNext /\ UNCHANGED rpcVars
  <2>1. step' = step
    BY <1>4 DEF rpcVars
  <2>2. ASSUME NEW c \in Entries, cb[c] \in {"running", "draining", "returned"}
        PROVE  cb'[c] \in {"running", "draining", "returned"}
    <3>1. CASE MainStep
      <4>1. main # "start"
        BY <2>2 DEF EntryInv
      <4>2. cb' = cb
        BY <3>1, <4>1 DEF MainStep, ConsulRegisterFromMemory, NacosRegisterFromMemory,
           Launch, ConsulRegister, NacosRegister, ConsulDeregisters, NacosDeregisters,
           DeregisterWith, MainPanics, MainNotify, MainQuit, Exit, callVars
      <4>3. QED
        BY <2>2, <4>2
    <3>2. CASE \E e \in Entries : EntryStep(e)
      <4>1. PICK e \in Entries : EntryStep(e)
        BY <3>2
      <4>2. CASE WritePort(e)
        <5>1. cb[e] = "none" /\ (cb' = cb \/ cb' = [cb EXCEPT ![e] = "host"])
          BY <4>2 DEF WritePort, EntryAt, EntryInv
        <5>2. QED
          BY <1>1, <2>2, <5>1
      <4>3. CASE ~WritePort(e)
        BY <2>2, <4>1, <4>3 DEF EntryStep, ReadDatas, WriteHost, ConsulConnect, NacosConnect,
           Notify, Quit, ConsulDeregister, NacosDeregister, callVars
      <4>4. QED
        BY <4>2, <4>3
    <3>3. CASE \E e \in Entries : CallbackHost(e) \/ CallbackCall(e) \/ CallbackReturns(e)
      <4>1. PICK e \in Entries : CallbackHost(e) \/ CallbackCall(e) \/ CallbackReturns(e)
        BY <3>3
      <4>2. \/ cb' = cb
            \/ cb[e] \in {"host", "call"} /\ \E l : cb' = [cb EXCEPT ![e] = l]
            \/ cb' = [cb EXCEPT ![e] = "returned"]
        BY <4>1 DEF CallbackHost, CallbackCall, CallbackReturns
      <4>3. QED
        BY <1>1, <2>2, <4>2
    <3>4. CASE MapRace \/ Interrupt \/ Terminate
      BY <2>2, <3>4 DEF MapRace, Interrupt, Terminate, Drain, callVars
    <3>5. QED
      BY <1>4, <3>1, <3>2, <3>3, <3>4 DEF SdNext
  <2>3. QED
    BY <1>2, <2>1, <2>2 DEF CallbackInv
<1>5. CASE RpcRequest \/ RpcCrash \/ UNCHANGED vars
  <2>1. step' = step /\ cb' = cb
    BY <1>5 DEF RpcRequest, Rpc!Request, RpcCrash, vars, sdVars, rpcVars, callVars
  <2>2. QED
    BY <1>2, <2>1 DEF CallbackInv
<1>6. QED
  BY <1>3, <1>4, <1>5 DEF Next

\* A step of a callback, as long as c is the only one that has made a server.
LEMMA RpcStepKeeps ==
  ASSUME RpcTypeInv, RpcInv, NEW e \in Entries, Rpc!RpcStep(e)
  PROVE  RpcInv'
<1>1. /\ step \in [Entries -> Steps]
      /\ methods \in [Entries -> SUBSET Entries]
  BY DEF RpcTypeInv
<1>2. step[e] \in {"make", "method", "service", "serve"}
  BY DEF Rpc!RpcStep, Rpc!DefaultRpcServer, Rpc!RpcRegisterDefaultMethod,
         Rpc!RpcRegisterDefaultService, Rpc!RpcServe, Rpc!At
<1>3. step'[e] # "make" /\ \A d \in Entries \ {e} : step'[d] = step[d]
  BY <1>1 DEF Rpc!RpcStep, Rpc!DefaultRpcServer, Rpc!RpcRegisterDefaultMethod,
         Rpc!RpcRegisterDefaultService, Rpc!RpcServe, Rpc!Then
<1>4. last' = last
  BY DEF Rpc!RpcStep, Rpc!DefaultRpcServer, Rpc!RpcRegisterDefaultMethod,
         Rpc!RpcRegisterDefaultService, Rpc!RpcServe
<1>5. SUFFICES ASSUME NEW c \in Entries, Alone(c)'
               PROVE  /\ step'[c] \in {"make", "method", "service", "serve"} => serving' = {}
                      /\ step'[c] = "make" => last' = Rpc!NoAnswer
                      /\ step'[c] # "make" => defautlServer' = c
                      /\ step'[c] = "method" => methods'[c] = {}
                      /\ step'[c] \notin {"make", "method"} => methods'[c] = {c}
                      /\ (last' # Rpc!NoAnswer /\ last'.answer.kind = "reply")
                           => (last'.answer.ran <=> last'.request.method = c)
  BY DEF RpcInv, Rpc!NoAnswer
<1>6. c = e /\ Alone(e)
  BY <1>3, <1>5 DEF Alone
<1>7. /\ serving = {}
      /\ step[e] = "make" => last = Rpc!NoAnswer
      /\ step[e] # "make" => defautlServer = e
      /\ step[e] = "method" => methods[e] = {}
      /\ step[e] \notin {"make", "method"} => methods[e] = {e}
      /\ (last # Rpc!NoAnswer /\ last.answer.kind = "reply")
           => (last.answer.ran <=> last.request.method = e)
  BY <1>2, <1>6 DEF RpcInv
<1>8. CASE Rpc!DefaultRpcServer(e)
  <2>1. /\ step[e] = "make" /\ step'[e] = "method" /\ serving' = {}
        /\ defautlServer' = e /\ methods'[e] = {}
    BY <1>1, <1>7, <1>8 DEF Rpc!DefaultRpcServer, Rpc!At, Rpc!Then
  <2>2. QED
    BY <1>4, <1>6, <1>7, <2>1
<1>9. CASE Rpc!RpcRegisterDefaultMethod(e)
  <2>1. /\ step[e] = "method" /\ step'[e] = "service" /\ serving' = {}
        /\ defautlServer' = e /\ methods'[e] = {e}
    BY <1>1, <1>7, <1>9 DEF Rpc!RpcRegisterDefaultMethod, Rpc!At, Rpc!Then
  <2>2. QED
    BY <1>4, <1>6, <1>7, <2>1
<1>10. CASE Rpc!RpcRegisterDefaultService(e)
  <2>1. /\ step[e] = "service" /\ step'[e] = "serve" /\ serving' = {}
        /\ defautlServer' = e /\ methods'[e] = {e}
    BY <1>1, <1>7, <1>10 DEF Rpc!RpcRegisterDefaultService, Rpc!At, Rpc!Then
  <2>2. QED
    BY <1>4, <1>6, <1>7, <2>1
<1>11. CASE Rpc!RpcServe(e)
  <2>1. /\ step[e] = "serve" /\ step'[e] \in {"served", "failed"}
        /\ defautlServer' = e /\ methods'[e] = {e}
    BY <1>1, <1>7, <1>11 DEF Rpc!RpcServe, Rpc!At, Rpc!Then
  <2>2. QED
    BY <1>4, <1>6, <1>7, <2>1
<1>12. QED
  BY <1>8, <1>9, <1>10, <1>11 DEF Rpc!RpcStep

\* A request to the only server runs the method it asks for, if it has it.
LEMMA RequestKeeps ==
  ASSUME RpcTypeInv, RpcInv, NEW e \in Entries, NEW r \in Requests, Rpc!Request(e, r)
  PROVE  RpcInv'
<1>1. /\ UNCHANGED <<defautlServer, step, methods, services, serving>>
      /\ last' = [at |-> e, request |-> r, answer |-> Rpc!Services(r)]
      /\ serving # {}
  BY DEF Rpc!Request
<1>2. last'.request = r /\ last'.answer = Rpc!Services(r)
  BY <1>1
<1>3. ASSUME NEW c \in Entries, Alone(c)
      PROVE  /\ step[c] # "make"
             /\ Rpc!Services(r).kind = "reply" => (Rpc!Services(r).ran <=> r.method = c)
  <2>1. step[c] \in {"served", "failed"} /\ defautlServer = c /\ methods[c] = {c}
    BY <1>1, <1>3 DEF RpcInv, RpcTypeInv, Steps
  <2>2. NoServer \notin Entries
    BY RegistrationAssumption DEF Rpc!RpcAssumption
  <2>3. Rpc!Found(r.method) <=> r.method = c
    BY <2>1, <2>2 DEF Rpc!Found
  <2>4. Rpc!Services(r).kind = "reply" => Rpc!Services(r).ran = Rpc!Found(r.method)
    BY DEF Rpc!Services, Rpc!Reply
  <2>5. QED
    BY <2>1, <2>3, <2>4
<1>4. \A c \in Entries : Alone(c)' <=> Alone(c)
  BY <1>1 DEF Alone
<1>5. QED
  BY <1>1, <1>2, <1>3, <1>4 DEF RpcInv

\* The servers of package rpcx, always.
LEMMA RpcTheorem == Spec => [](CallbackInv /\ RpcInv)
<1>1. Init => CallbackInv /\ RpcInv
  BY DEF Init, Rpc!RpcInit, CallbackInv, RpcInv
<1>2. RpcTypeInv /\ RpcInv /\ [Next]_vars => RpcInv'
  <2> SUFFICES ASSUME RpcTypeInv, RpcInv, [Next]_vars PROVE RpcInv'
    OBVIOUS
  <2>1. CASE \E e \in Entries : RpcCallback(e)
    BY <2>1, RpcStepKeeps DEF RpcCallback
  <2>2. CASE RpcRequest
    BY <2>2, RequestKeeps DEF RpcRequest
  <2>3. CASE UNCHANGED rpcVars
    BY <2>3 DEF rpcVars, RpcInv, Alone, Rpc!NoAnswer
  <2>4. QED
    BY <2>1, <2>2, <2>3 DEF Next, RpcCrash, vars
<1>3. QED
  BY <1>1, <1>2, CallbackInvStep, EntryTheorem, PTL DEF Spec

\* MethodFound: a process with one rpcx server answers a request by running the
\* method if it is the one it registered, and only then, at any moment.
THEOREM MethodFoundTheorem == Spec => []MethodFound
<1>1. RpcInv => MethodFound
  <2> SUFFICES ASSUME RpcInv, NEW c \in Entries, {d \in Entries : step[d] # "make"} = {c},
                      last # Rpc!NoAnswer, last.answer.kind = "reply"
               PROVE  last.answer.ran <=> last.request.method = c
    BY DEF MethodFound, Rpc!MethodFound
  <2>1. Alone(c)
    BY DEF Alone
  <2>2. QED
    BY <2>1 DEF RpcInv
<1>2. QED
  BY <1>1, RpcTheorem, PTL

-----------------------------------------------------------------------------
(* Crashes *)

\* The reasons for a crash that CrashOnlyWhenShared lists.
Reasons ==
  \/ conf.form \in {"slice", "rpcx"} /\ conf.n > 1
  \/ conf.form = "other"
  \/ Mistyped
  \/ ~conf.reliable /\ conf.sd = "nacos"
  \/ conf.callbacks < conf.n
  \/ conf.form = "rpcx" /\ conf.docker /\ conf.noPort # {}

\* One entry and its callback are never at the shared map together.
LEMMA NoRaceOfOne ==
  ASSUME SdTypeInv, EntryInv, MapRace
  PROVE  Reasons
<1> SUFFICES ASSUME conf.form # "slice" \/ ~(conf.n > 1)
             PROVE  FALSE
  BY DEF MapRace, Reasons
<1>1. conf.n \in Nat \ {0}
  BY SdAssumption DEF SdTypeInv, SdAssumption, ConfType
<1>2. conf.form \in {"map", "slice"}
  BY DEF MapRace
<1>3. \A e \in Ran : pc[e] # "none" \/ cb[e] # "none" => e = 1
  <2>1. CASE conf.form = "map"
    BY <2>1 DEF EntryInv, Ran
  <2>2. CASE ~(conf.n > 1)
    BY <1>1, <2>2, SdAssumption DEF Ran, SdAssumption
  <2>3. QED
    BY <1>2, <2>1, <2>2
<1>4. 1 \in Entries /\ 1 \in Ran
  BY FirstRan
<1>5. pc[1] \in {"read", "host", "port"} => cb[1] = "none"
  BY <1>4 DEF EntryInv
<1>6. PICK w \in Writers : Accessors # {w}
  BY DEF MapRace
<1>7. CASE pc[1] \in {"read", "host", "port"}
  <2>1. Accessors \subseteq {<<1, "entry">>}
    BY <1>3, <1>5, <1>7 DEF Accessors, Writers
  <2>2. QED
    BY <1>6, <2>1 DEF Accessors
<1>8. CASE pc[1] \notin {"read", "host", "port"}
  <2>1. Accessors \subseteq {<<1, "callback">>}
    BY <1>3, <1>8 DEF Accessors, Writers
  <2>2. QED
    BY <1>6, <2>1 DEF Accessors
<1>9. QED
  BY <1>7, <1>8

\* A callback that serves at an address without a port has an entry without one,
\* and an only server has registered its method when somebody reads the methods.
LEMMA RpcCrashReasons ==
  ASSUME SdTypeInv, RpcTypeInv, EntryInv, AddressInv, CallbackInv, RpcInv, RpcCrash
  PROVE  Reasons
<1>1. PICK e \in Entries : /\ Serves(e)
                           /\ \/ Rpc!ServePanics(e, conf.docker, got[e].port # Unset)
                              \/ Rpc!MethodsRace
  BY DEF RpcCrash
<1>2. conf.form = "rpcx" /\ cb[e] = "running"
  BY <1>1 DEF Serves
<1>3. CASE Rpc!ServePanics(e, conf.docker, got[e].port # Unset)
  <2>1. got[e] = Own(e)
    BY <1>2 DEF AddressInv
  <2>2. conf.docker /\ got[e].port = Unset
    BY <1>3 DEF Rpc!ServePanics
  <2>3. e # Unset
    BY SdAssumption DEF SdAssumption
  <2>4. e \in conf.noPort
    BY <2>1, <2>2, <2>3 DEF Own
  <2>5. QED
    BY <1>2, <2>2, <2>4 DEF Reasons
<1>4. CASE Rpc!MethodsRace
  <2>1. PICK c \in Entries : step[c] = "method" /\ serving # {}
    BY <1>4 DEF Rpc!MethodsRace, Rpc!At
  <2>2. SUFFICES ASSUME ~(conf.n > 1)
                 PROVE  FALSE
    BY <1>2 DEF Reasons
  <2>3. conf.n \in Nat \ {0} /\ Entries \subseteq Nat \ {0}
    BY SdAssumption DEF SdTypeInv, SdAssumption, ConfType
  <2>4. \A d \in Entries : step[d] # "make" => d = 1
    BY <2>2, <2>3 DEF CallbackInv, EntryInv, Ran
  <2>5. Alone(c)
    BY <2>1, <2>4 DEF Alone
  <2>6. QED
    BY <2>1, <2>5 DEF RpcInv
<1>5. QED
  BY <1>1, <1>3, <1>4

\* A step that crashes the process has one of the reasons.
LEMMA CrashStep ==
  ASSUME SdTypeInv, RpcTypeInv, EntryInv, AddressInv, CallbackInv, RpcInv,
         CrashOnlyWhenShared, [Next]_vars
  PROVE  CrashOnlyWhenShared'
<1>1. conf' = conf
  BY DEF Next, SdNext, MainStep, EntryStep, ConsulRegisterFromMemory, NacosRegisterFromMemory,
         Launch, ConsulRegister, NacosRegister, ConsulDeregisters, NacosDeregisters, DeregisterWith,
         MainPanics, MainNotify, MainQuit, Exit, ReadDatas, WriteHost, WritePort, ConsulConnect, NacosConnect,
         Notify, Quit, ConsulDeregister, NacosDeregister, CallbackHost, CallbackCall,
         CallbackReturns, MapRace, Interrupt, Terminate, RpcCallback, RpcRequest, RpcCrash, vars,
         sdVars
<1>2. SUFFICES ASSUME proc # "crashed", proc' = "crashed"
               PROVE  Reasons
  <2>1. Mistyped' = Mistyped
    BY <1>1 DEF Mistyped, Ran
  <2>2. QED
    BY <1>1, <2>1 DEF CrashOnlyWhenShared, Reasons
<1>3. CASE MapRace
  BY <1>3, NoRaceOfOne
<1>4. CASE RpcCrash
  BY <1>4, RpcCrashReasons
<1>5. CASE MainStep
  <2>1. CASE Launch
    <3>1. conf.readable /\ conf.form # "direct" /\ (conf.mistyped.file \/ conf.form = "other")
      BY <1>2, <2>1, LaunchCases DEF Launch, Refused
    <3>2. QED
      BY <3>1 DEF Reasons, Mistyped
  <2>2. CASE ConsulRegister \/ NacosRegister
    BY <1>2, <2>2 DEF ConsulRegister, NacosRegister, Dies, Reasons
  <2>3. CASE ConsulDeregisters \/ NacosDeregisters \/ MainNotify \/ MainQuit \/ Exit
    BY <1>2, <2>3 DEF ConsulDeregisters, NacosDeregisters, DeregisterWith, MainNotify, MainQuit,
       Exit, Dies
  <2>4. CASE MainPanics
    <3>1. conf.readable /\ conf.form \in {"slice", "rpcx"} /\ Started # Ran
      BY <2>4 DEF MainPanics, EntryInv
    <3>2. PICK d \in Ran : d \in conf.mistyped.service \/ ~(d <= conf.callbacks)
      BY <3>1 DEF Started
    <3>3. CASE d \in conf.mistyped.service
      BY <3>1, <3>2, <3>3 DEF Mistyped, Reasons
    <3>4. CASE ~(d <= conf.callbacks)
      <4>1. /\ conf.n \in Nat /\ conf.callbacks \in Nat /\ d \in Nat
        <5>1. conf \in ConfType /\ d \in Entries /\ Entries \subseteq Nat
          BY SdAssumption DEF SdTypeInv, SdAssumption, Ran
        <5>2. conf.n \in Entries /\ (conf.callbacks \in Entries \/ conf.callbacks = 0)
          BY <5>1 DEF ConfType
        <5>3. 0 \in Nat /\ d \in Nat /\ \A x \in Entries : x \in Nat
          BY <5>1
        <5>4. conf.n \in Nat
          BY <5>2, <5>3
        <5>5. conf.callbacks \in Nat
          BY <5>2, <5>3
        <5>6. QED
          BY <5>3, <5>4, <5>5
      <4>2. conf.callbacks < conf.n
        BY <3>2, <3>4, <4>1 DEF Ran
      <4>3. QED
        BY <4>2 DEF Reasons
    <3>5. QED
      BY <3>2, <3>3, <3>4
  <2>5. QED
    BY <1>5, <2>1, <2>2, <2>3, <2>4 DEF MainStep, ConsulRegisterFromMemory, NacosRegisterFromMemory
<1>6. CASE \E e \in Entries : EntryStep(e)
  <2>1. PICK e \in Entries : EntryStep(e)
    BY <1>6
  <2>2. /\ conf.readable /\ conf.form \in {"map", "slice"} /\ e \in Ran
    <3>1. pc[e] # "none"
      BY <2>1 DEF EntryStep, ReadDatas, WriteHost, WritePort, ConsulConnect, NacosConnect, Notify,
         Quit, ConsulDeregister, NacosDeregister, EntryAt
    <3>2. QED
      BY <3>1 DEF EntryInv
  <2>3. CASE ReadDatas(e)
    <3>1. e \in conf.mistyped.tags
      BY <1>2, <2>3 DEF ReadDatas
    <3>2. QED
      BY <2>2, <3>1 DEF Mistyped, Reasons
  <2>4. CASE ConsulConnect(e)
    <3>1. e \in conf.mistyped.options /\ conf.sd = "consul"
      BY <1>2, <2>4 DEF ConsulConnect, Dies
    <3>2. QED
      BY <2>2, <3>1 DEF Mistyped, Reasons
  <2>5. CASE NacosConnect(e)
    BY <1>2, <2>5 DEF NacosConnect, Reasons
  <2>6. QED
    BY <1>2, <2>1, <2>3, <2>4, <2>5 DEF EntryStep, WriteHost, WritePort, Notify, Quit,
       ConsulDeregister, NacosDeregister
<1>7. CASE \E e \in Entries : CallbackHost(e) \/ CallbackCall(e) \/ CallbackReturns(e)
  <2>1. PICK e \in Entries : CallbackCall(e)
    BY <1>2, <1>7 DEF CallbackHost, CallbackReturns
  <2>2. conf.callbacks = 0
    BY <1>2, <2>1 DEF CallbackCall
  <2>3. conf.n \in Nat \ {0}
    BY SdAssumption DEF SdTypeInv, SdAssumption, ConfType
  <2>4. QED
    BY <2>2, <2>3 DEF Reasons
<1>8. CASE Interrupt \/ Terminate
  BY <1>2, <1>8 DEF Interrupt, Terminate, Dies
<1>9. CASE (\E e \in Entries : RpcCallback(e)) \/ RpcRequest \/ UNCHANGED vars
  BY <1>2, <1>9 DEF RpcCallback, RpcRequest, vars, sdVars
<1>10. QED
  BY <1>3, <1>4, <1>5, <1>6, <1>7, <1>8, <1>9 DEF Next, SdNext

\* CrashOnlyWhenShared: a process crashes in registration for the listed reasons
\* only; one entry and its callback never race for the map.
THEOREM CrashTheorem == Spec => []CrashOnlyWhenShared
<1>1. Init => CrashOnlyWhenShared
  BY DEF Init, SdInit, CrashOnlyWhenShared
<1>2. QED
  BY <1>1, CrashStep, EntryTheorem, AddressTheorem, RpcTheorem, PTL DEF Spec

-----------------------------------------------------------------------------
(* The registration implements ServiceRegistry *)

\* What the steps of main do to the places, the registry and who was told.
LEMMA MainKeeps ==
  ASSUME SdTypeInv, EntryInv, MainStep
  PROVE  /\ conf' = conf /\ told' = told /\ pending' \subseteq pending /\ proc = "up"
         /\ main' # "start" \/ (main = "start" /\ UNCHANGED <<pc, registry>>)
         /\ ~Launch => pc' = pc
         /\ Launch => /\ conf.form # "direct" /\ registry' = registry
                      /\ \A e \in Entries : pc'[e] \in {"none", "read"}
                      /\ proc' \in {"up", "crashed"}
                      /\ main' = "returned" /\ conf.form # "rpcx" => pc' = pc
<1> USE DEF signalVars, callVars, Up, Dies
<1>1. CASE Launch
  <2>1. main = "start" /\ \A e \in Entries : pc[e] = "none"
    BY <1>1 DEF Launch, EntryInv
  <2>2. pc \in [Entries -> Places]
    BY DEF SdTypeInv
  <2>3. \/ pc' = pc
        \/ /\ pc' = [e \in Entries |-> IF e \in Started THEN "read" ELSE "none"]
           /\ main' \in {"notify", "panics"}
        \/ pc' = [pc EXCEPT ![1] = "read"] /\ main' = "entry"
    BY <1>1, LaunchCases
  <2>4. \A e \in Entries : pc'[e] \in {"none", "read"}
    BY <2>1, <2>2, <2>3
  <2>5. main' = "returned" => pc' = pc
    BY <2>3
  <2>6. /\ conf' = conf /\ registry' = registry /\ told' = told /\ pending' = pending
        /\ proc = "up" /\ proc' \in {"up", "crashed"} /\ conf.form # "direct"
        /\ main' # "start" \/ UNCHANGED <<pc, registry>>
    BY <1>1, LaunchCases DEF Launch
  <2>7. QED
    BY <1>1, <2>1, <2>4, <2>5, <2>6
<1>2. CASE ConsulRegister \/ NacosRegister
  <2>1. /\ proc = "up" /\ UNCHANGED <<conf, pc, told, pending>>
        /\ main = "start" /\ main' # "start" /\ conf.form = "direct"
    BY <1>2 DEF ConsulRegister, NacosRegister
  <2>2. ~Launch
    BY <2>1 DEF Launch
  <2>3. QED
    BY <2>1, <2>2
<1>3. CASE \/ ConsulDeregisters \/ NacosDeregisters
          \/ MainPanics \/ MainNotify \/ MainQuit \/ Exit
  <2>1. /\ proc = "up" /\ UNCHANGED <<conf, pc, told>> /\ pending' \subseteq pending
        /\ main # "start" /\ main' # "start"
    <3>1. CASE ConsulDeregisters \/ NacosDeregisters
      BY <3>1 DEF ConsulDeregisters, NacosDeregisters, DeregisterWith
    <3>2. CASE MainNotify \/ MainQuit
      BY <3>2 DEF MainNotify, MainQuit
    <3>3. CASE MainPanics \/ Exit
      BY <3>3 DEF MainPanics, Exit
    <3>4. QED
      BY <1>3, <3>1, <3>2, <3>3
  <2>2. ~Launch
    BY <2>1 DEF Launch
  <2>3. QED
    BY <2>1, <2>2
<1>4. QED
  BY <1>1, <1>2, <1>3 DEF MainStep, ConsulRegisterFromMemory, NacosRegisterFromMemory

\* A step of main keeps ListInv.
LEMMA MainListed ==
  ASSUME SdTypeInv, EntryInv, ListInv, MainStep
  PROVE  ListInv'
<1> USE DEF signalVars, callVars
<1>1. /\ conf' = conf /\ told' = told /\ pending' \subseteq pending
      /\ ~Launch => pc' = pc
      /\ Launch => /\ conf.form # "direct" /\ registry' = registry
                   /\ \A e \in Entries : pc'[e] \in {"none", "read"}
                   /\ main' = "returned" /\ conf.form # "rpcx" => pc' = pc
  BY MainKeeps
<1>2. \A s \in registry : s.id \in Entries
  BY DEF SdTypeInv, Instances
<1>3. pending' \subseteq told'
  BY <1>1 DEF ListInv
<1>4. \A e \in Entries : pc'[e] = "deregister" => e \in told'
  BY <1>1 DEF ListInv
<1>5. /\ \A s \in registry' : Begun(s.id)'
      /\ \A s, t \in registry' : s.id = t.id => s = t
  <2>1. CASE Launch
    <3>1. registry' = {}
      BY <1>1, <2>1 DEF Launch, EntryInv
    <3>2. QED
      BY <3>1
  <2>2. CASE ConsulRegister \/ NacosRegister
    <3>1. /\ conf.form = "direct" /\ main = "start" /\ main' # "start"
          /\ \/ registry' = registry
             \/ \E s : registry' = {s} /\ s.id = 1
      <4>1. ServiceOf(1).id = 1 /\ InstanceOf(1, FALSE).id = 1
        BY DEF ServiceOf, InstanceOf
      <4>2. /\ conf.form = "direct" /\ main = "start" /\ main' # "start"
            /\ registry' \in {registry, {ServiceOf(1)}, {InstanceOf(1, FALSE)}}
        BY <2>2 DEF ConsulRegister, NacosRegister
      <4>3. CASE registry' = {ServiceOf(1)}
        BY <4>1, <4>2, <4>3, Zenon
      <4>4. CASE registry' = {InstanceOf(1, FALSE)}
        BY <4>1, <4>2, <4>4, Zenon
      <4>5. QED
        BY <4>2, <4>3, <4>4
    <3>2. registry = {}
      BY <3>1 DEF EntryInv
    <3>3. \A e : e = 1 => Begun(e)'
      BY <1>1, <3>1 DEF Begun
    <3>4. QED
      BY <3>1, <3>2, <3>3
  <2>3. CASE \/ ConsulDeregisters \/ NacosDeregisters
             \/ MainPanics \/ MainNotify \/ MainQuit \/ Exit
    <3>1. main # "start" /\ main' # "start" /\ pc' = pc /\ registry' \subseteq registry
      BY <2>3 DEF ConsulDeregisters, NacosDeregisters, DeregisterWith, MainPanics,
       MainNotify, MainQuit, Exit
    <3>2. \A e \in Entries : Begun(e)' <=> Begun(e)
      BY <1>1, <3>1 DEF Begun
    <3>3. QED
      BY <1>2, <3>1, <3>2 DEF ListInv
  <2>4. QED
    BY <2>1, <2>2, <2>3 DEF MainStep, ConsulRegisterFromMemory, NacosRegisterFromMemory
<1>6. ASSUME main' = "returned", conf.form \notin {"direct", "rpcx"}, told = {}
      PROVE  registry' = {} /\ \A e \in Entries : pc'[e] \in {"none", "done"}
  <2>1. CASE Launch
    BY <1>1, <1>6, <2>1, LaunchCases DEF EntryInv
  <2>2. CASE MainQuit
    BY <1>6, <2>2 DEF MainQuit, ListInv
  <2>3. CASE Exit
    BY <1>6, <2>3 DEF Exit, ListInv
  <2>4. ~(ConsulRegister \/ NacosRegister)
    BY <1>1, <1>6 DEF ConsulRegister, NacosRegister
  <2>5. ~(ConsulDeregisters \/ NacosDeregisters)
    BY <1>1, <1>6 DEF ConsulDeregisters, NacosDeregisters, DeregisterWith, ListInv
  <2>6. ~MainNotify /\ ~MainPanics
    BY <1>6 DEF MainNotify, MainPanics
  <2>7. QED
    BY <2>1, <2>2, <2>3, <2>4, <2>5, <2>6
       DEF MainStep, ConsulRegisterFromMemory, NacosRegisterFromMemory
<1>7. (main' = "entry" => conf'.form = "map") /\ (main' = "registered" => conf'.form = "direct")
  <2>1. CASE Launch
    BY <1>1, <2>1, LaunchCases DEF ListInv
  <2>2. CASE ~Launch
    BY <1>1, <2>2 DEF ListInv, MainStep, ConsulRegisterFromMemory, NacosRegisterFromMemory,
       ConsulRegister, NacosRegister, ConsulDeregisters, NacosDeregisters, DeregisterWith,
       MainPanics, MainNotify, MainQuit, Exit
  <2>3. QED
    BY <2>1, <2>2
<1>8. QED
  BY <1>1, <1>3, <1>4, <1>5, <1>6, <1>7 DEF ListInv

\* What the step of an entry does to its place and to its service: six ways.
LEMMA EntryWays ==
  ASSUME SdTypeInv, EntryInv, ListInv, NEW e \in Entries, EntryStep(e)
  PROVE  /\ conf' = conf /\ told' = told /\ pending' \subseteq pending /\ proc = "up"
         /\ conf.form \in {"map", "slice"}
         /\ \/ /\ UNCHANGED <<registry, proc, main>>
               /\ \E l \in {"host", "port", "connect"} :
                    pc[e] \in {"read", "host", "port"} /\ pc' = [pc EXCEPT ![e] = l]
            \/ /\ UNCHANGED <<registry, proc>> /\ pc[e] \in {"port", "connect"}
               /\ pc' = [pc EXCEPT ![e] = "done"]
               /\ main' = IF main = "entry" THEN "returned" ELSE main
            \/ /\ UNCHANGED <<proc, main>> /\ pc[e] = "connect"
               /\ pc' = [pc EXCEPT ![e] = "notify"]
               /\ \E s : s.id = e /\ registry' = registry \cup {s}
            \/ /\ UNCHANGED <<registry, main>>
               /\ \/ /\ pc[e] = "connect" /\ pc' = [pc EXCEPT ![e] = "notify"]
                     /\ proc' \in {"up", "killed"}
                  \/ pc[e] \in {"read", "connect"} /\ pc' = pc /\ proc' = "crashed"
            \/ /\ UNCHANGED <<registry, proc, main>>
               /\ \/ pc[e] = "notify" /\ pc' = [pc EXCEPT ![e] = "receive"]
                  \/ pc[e] = "receive" /\ e \in pending /\ pc' = [pc EXCEPT ![e] = "deregister"]
            \/ /\ UNCHANGED proc /\ pc[e] = "deregister"
               /\ pc' = [pc EXCEPT ![e] = "done"]
               /\ main' = IF main = "entry" THEN "returned" ELSE main
               /\ registry' = registry \/ registry' = {s \in registry : s.id # e}
<1> USE DEF signalVars, callVars, EntryAt, EntryGoto, EntryReturns, Up, Dies
<1>1. /\ conf' = conf /\ told' = told /\ pending' \subseteq pending /\ proc = "up"
      /\ pc[e] # "none"
  BY DEF EntryStep, ReadDatas, WriteHost, WritePort, ConsulConnect, NacosConnect, Notify, Quit,
         ConsulDeregister, NacosDeregister
<1>2. conf.form \in {"map", "slice"}
  BY <1>1 DEF EntryInv
<1>3. CASE ReadDatas(e) \/ WriteHost(e) \/ WritePort(e)
  <2>1. CASE ReadDatas(e)
    <3>1. /\ pc[e] = "read" /\ UNCHANGED <<registry, main>>
          /\ \/ pc' = [pc EXCEPT ![e] = "host"] /\ proc' = proc
             \/ pc' = pc /\ proc' = "crashed"
      BY <2>1 DEF ReadDatas
    <3>2. QED
      BY <1>1, <1>2, <3>1
  <2>2. CASE WriteHost(e) \/ WritePort(e)
    BY <1>1, <1>2, <2>2 DEF WriteHost, WritePort
  <2>3. QED
    BY <1>3, <2>1, <2>2
<1>4. CASE ConsulConnect(e) \/ NacosConnect(e)
  <2>1. pc[e] = "connect"
    BY <1>4 DEF ConsulConnect, NacosConnect
  <2>2. \A s \in registry : s.id # e
    BY <1>2, <2>1 DEF ListInv, Begun
  <2>3. {s \in registry : s.id # e} = registry
    BY <2>2
  <2>4. ServiceOf(e).id = e /\ InstanceOf(e, conf.group).id = e
    BY DEF ServiceOf, InstanceOf
  <2>5. CASE ConsulConnect(e)
    <3>1. \/ registry' = registry \cup {ServiceOf(e)} /\ proc' = proc
          \/ registry' = registry /\ proc' \in {"up", "killed"}
          \/ registry' = registry /\ proc' = "crashed" /\ pc' = pc
      BY <1>1, <2>3, <2>5 DEF ConsulConnect
    <3>2. main' = main /\ (proc' # "crashed" => pc' = [pc EXCEPT ![e] = "notify"])
      BY <1>1, <2>5 DEF ConsulConnect
    <3>3. CASE registry' = registry \cup {ServiceOf(e)} /\ proc' = proc
      <4>1. \E s : s.id = e /\ registry' = registry \cup {s}
        BY <2>4, <3>3
      <4>2. QED
        BY <1>1, <1>2, <2>1, <3>2, <3>3, <4>1
    <3>4. CASE registry' = registry /\ proc' \in {"up", "killed"}
      BY <1>1, <1>2, <2>1, <3>2, <3>4
    <3>5. CASE registry' = registry /\ proc' = "crashed" /\ pc' = pc
      BY <1>1, <1>2, <2>1, <3>2, <3>5
    <3>6. QED
      BY <3>1, <3>3, <3>4, <3>5
  <2>6. CASE NacosConnect(e)
    <3>1. \/ /\ registry' = registry \cup {InstanceOf(e, conf.group)}
             /\ pc' = [pc EXCEPT ![e] = "notify"] /\ UNCHANGED <<main, proc>>
          \/ /\ registry' = registry
             /\ \/ /\ pc' = [pc EXCEPT ![e] = "done"] /\ proc' = proc
                   /\ main' = IF main = "entry" THEN "returned" ELSE main
                \/ proc' = "crashed" /\ UNCHANGED <<pc, main>>
      BY <2>6 DEF NacosConnect
    <3>2. CASE /\ registry' = registry \cup {InstanceOf(e, conf.group)}
               /\ pc' = [pc EXCEPT ![e] = "notify"] /\ UNCHANGED <<main, proc>>
      <4>1. \E s : s.id = e /\ registry' = registry \cup {s}
        BY <2>4, <3>2
      <4>2. QED
        BY <1>1, <1>2, <2>1, <3>2, <4>1
    <3>3. QED
      BY <1>1, <1>2, <2>1, <3>1, <3>2
  <2>7. QED
    BY <1>4, <2>5, <2>6
<1>5. CASE Notify(e) \/ Quit(e)
  BY <1>1, <1>2, <1>5 DEF Notify, Quit
<1>6. CASE ConsulDeregister(e) \/ NacosDeregister(e)
  <2>1. registry' = registry \/ registry' = {s \in registry : s.id # e}
    <3>1. CASE ConsulDeregister(e)
      BY <3>1 DEF ConsulDeregister
    <3>2. CASE NacosDeregister(e)
      <4>1. registry' = registry \/ registry' = registry \ {InstanceOf(e, FALSE)}
        BY <3>2 DEF NacosDeregister
      <4>2. InstanceOf(e, FALSE).id = e
        BY DEF InstanceOf
      <4>3. InstanceOf(e, FALSE) \in registry =>
              registry \ {InstanceOf(e, FALSE)} = {s \in registry : s.id # e}
        BY <4>2 DEF ListInv
      <4>4. QED
        BY <4>1, <4>3
    <3>3. QED
      BY <1>6, <3>1, <3>2
  <2>2. /\ proc' = proc /\ pc[e] = "deregister" /\ pc' = [pc EXCEPT ![e] = "done"]
        /\ main' = IF main = "entry" THEN "returned" ELSE main
    BY <1>6 DEF ConsulDeregister, NacosDeregister
  <2>3. QED
    BY <1>1, <1>2, <2>1, <2>2
<1>7. QED
  BY <1>3, <1>4, <1>5, <1>6 DEF EntryStep

\* The step of an entry keeps ListInv.
LEMMA EntryListed ==
  ASSUME SdTypeInv, EntryInv, ListInv, NEW e \in Entries, EntryStep(e)
  PROVE  ListInv'
<1>1. /\ conf' = conf /\ told' = told /\ pending' \subseteq pending
      /\ conf.form \in {"map", "slice"}
  BY EntryWays
<1>2. pc \in [Entries -> Places] /\ \A s \in registry : s.id \in Entries
  BY DEF SdTypeInv, Instances
<1>3. /\ \A d \in Entries \ {e} : pc'[d] = pc[d]
      /\ Begun(e) => Begun(e)'
      /\ pc'[e] = "deregister" => e \in pending
      /\ \/ registry' \subseteq registry
         \/ /\ ~Begun(e) /\ Begun(e)'
            /\ \E s : s.id = e /\ registry' = registry \cup {s}
  BY <1>1, <1>2, EntryWays DEF Begun
<1>4. \A d \in Entries : Begun(d) => Begun(d)'
  BY <1>1, <1>3 DEF Begun
<1>5. /\ \A s \in registry' : Begun(s.id)'
      /\ \A s, t \in registry' : s.id = t.id => s = t
  <2>1. CASE registry' \subseteq registry
    BY <1>2, <1>4, <2>1 DEF ListInv
  <2>2. ASSUME ~Begun(e), Begun(e)', NEW s, s.id = e, registry' = registry \cup {s}
        PROVE  /\ \A t \in registry' : Begun(t.id)'
               /\ \A t, u \in registry' : t.id = u.id => t = u
    BY <1>2, <1>4, <2>2 DEF ListInv
  <2>3. QED
    BY <1>3, <2>1, <2>2
<1>6. \A d \in Entries : pc'[d] = "deregister" => d \in told'
  BY <1>1, <1>3 DEF ListInv
<1>7. ASSUME main' = "returned", told = {}
      PROVE  registry' = {} /\ \A d \in Entries : pc'[d] \in {"none", "done"}
  <2>1. pc[e] # "deregister" /\ pc[e] \notin {"none", "done"}
    BY <1>7, EntryWays DEF ListInv
  <2>2. main # "returned"
    BY <1>1, <1>7, <2>1 DEF ListInv
  <2>3. /\ main = "entry" /\ registry' = registry /\ pc'[e] = "done"
        /\ pc[e] \in {"port", "connect"}
    BY <1>2, <1>7, <2>1, <2>2, EntryWays
  <2>4. conf.form = "map" /\ e = 1
    BY <2>1, <2>3 DEF ListInv, EntryInv
  <2>5. \A d \in Entries \ {e} : pc[d] = "none"
    BY <2>4 DEF EntryInv
  <2>6. \A s \in registry : FALSE
    BY <1>2, <2>3, <2>4, <2>5 DEF ListInv, Begun
  <2>7. QED
    BY <1>3, <2>3, <2>5, <2>6
<1>8. main' \in {"entry", "registered"} => main' = main
  BY EntryWays
<1>9. QED
  BY <1>1, <1>3, <1>5, <1>6, <1>7, <1>8 DEF ListInv

\* Callbacks, their servers, races and signals leave the places and the registry
\* alone; an interrupt tells more.
LEMMA OthersKeep ==
  ASSUME SdTypeInv, [Next]_vars, ~MainStep, \A e \in Entries : ~EntryStep(e)
  PROVE  /\ UNCHANGED <<conf, main, pc, registry>>
         /\ told \subseteq told' /\ told' \subseteq {Main} \cup Entries
         /\ pending' \subseteq pending \cup told'
         /\ UNCHANGED proc \/ (proc = "up" /\ proc' \in {"killed", "crashed"} /\ told' = told)
         /\ told' = told \/ proc = "up"
<1> USE DEF callVars, signalVars, sdVars, Up, Dies
<1>1. told \subseteq {Main} \cup Entries /\ notified \subseteq {Main} \cup Entries
  BY DEF SdTypeInv
<1>2. CASE Interrupt
  BY <1>1, <1>2 DEF Interrupt
<1>3. CASE Terminate \/ MapRace \/ RpcCrash
  <2>1. CASE Terminate
    <3>1. /\ proc = "up" /\ UNCHANGED <<conf, main, pc, registry, pending, told>>
          /\ proc' = proc \/ proc' = "killed"
      BY <2>1, ZenonT(30) DEF Terminate
    <3>2. QED
      BY <1>1, <3>1
  <2>2. CASE MapRace
    <3>1. proc = "up" /\ proc' = "crashed" /\ UNCHANGED <<conf, main, pc, registry, pending, told>>
      BY <2>2 DEF MapRace
    <3>2. QED
      BY <1>1, <3>1
  <2>3. CASE RpcCrash
    <3>1. proc' = "crashed" /\ UNCHANGED <<conf, main, pc, registry, pending, told>>
      BY <2>3 DEF RpcCrash
    <3>2. proc = "up"
      BY <2>3 DEF RpcCrash, Serves
    <3>3. QED
      BY <1>1, <3>1, <3>2
  <2>4. QED
    BY <1>3, <2>1, <2>2, <2>3
<1>4. CASE \E e \in Entries : CallbackHost(e) \/ CallbackCall(e) \/ CallbackReturns(e)
  BY <1>1, <1>4 DEF CallbackHost, CallbackCall, CallbackReturns
<1>5. CASE UNCHANGED sdVars
  BY <1>1, <1>5
<1>6. QED
  BY <1>2, <1>3, <1>4, <1>5 DEF Next, SdNext, RpcCallback, RpcRequest, vars

\* ListInv is an invariant, in every configuration.
LEMMA ListTheorem == Spec => [](SdTypeInv /\ EntryInv /\ ListInv)
<1>1. Init => ListInv
  BY DEF Init, SdInit, ListInv
<1>2. SdTypeInv /\ EntryInv /\ ListInv /\ [Next]_vars => ListInv'
  <2> SUFFICES ASSUME SdTypeInv, EntryInv, ListInv, [Next]_vars PROVE ListInv'
    OBVIOUS
  <2>1. CASE MainStep
    BY <2>1, MainListed
  <2>2. CASE \E e \in Entries : EntryStep(e)
    BY <2>2, EntryListed
  <2>3. CASE ~MainStep /\ \A e \in Entries : ~EntryStep(e)
    <3>1. /\ UNCHANGED <<conf, main, pc, registry>>
          /\ told \subseteq told' /\ pending' \subseteq pending \cup told'
      BY <2>3, OthersKeep
    <3>2. pending' \subseteq told'
      BY <3>1 DEF ListInv
    <3>3. told' = {} => told = {}
      BY <3>1
    <3>4. QED
      BY <3>1, <3>2, <3>3 DEF ListInv, Begun
  <2>4. QED
    BY <2>1, <2>2, <2>3
<1>3. QED
  BY <1>1, <1>2, EntryTheorem, PTL DEF Spec

\* The initial states are initial states of ServiceRegistry.
LEMMA ListingInit == Init => Listing!AbsInit
<1> SUFFICES ASSUME Init PROVE Listing!AbsInit
  OBVIOUS
<1>1. \A e \in Entries : ListingOf(e) = "unlisted"
  BY DEF Init, SdInit, ListingOf, Listed, Begun
<1>2. askedBar = {}
  BY DEF Init, SdInit, askedBar
<1>3. QED
  BY <1>1, <1>2 DEF Init, SdInit, Listing!AbsInit, listingBar

\* The listing follows the registry and the places of the entries.
LEMMA ListingStays ==
  ASSUME \A e \in Entries : (Listed(e)' <=> Listed(e)) /\ (Begun(e)' <=> Begun(e))
  PROVE  listingBar' = listingBar
<1>1. \A e \in Entries : ListingOf(e)' = ListingOf(e)
  BY DEF ListingOf
<1>2. QED
  BY <1>1 DEF listingBar

\* One service moves, and no other.
LEMMA ListingMoves ==
  ASSUME NEW e \in Entries, NEW from, NEW to, ListingOf(e) = from, ListingOf(e)' = to,
         \A d \in Entries \ {e} : (Listed(d)' <=> Listed(d)) /\ (Begun(d)' <=> Begun(d))
  PROVE  Listing!Moves(e, from, to)
<1>1. \A d \in Entries \ {e} : ListingOf(d)' = ListingOf(d)
  BY DEF ListingOf
<1>2. listingBar' = [listingBar EXCEPT ![e] = to]
  BY <1>1 DEF listingBar
<1>3. listingBar[e] = from
  BY DEF listingBar
<1>4. QED
  BY <1>2, <1>3 DEF Listing!Moves

\* A step of an entry moves its own service, or none.
LEMMA EntryLists ==
  ASSUME SdTypeInv, EntryInv, ListInv, NEW e \in Entries, EntryStep(e)
  PROVE  Listing!AbsNext \/ UNCHANGED Listing!absVars
<1>1. /\ conf' = conf /\ told' = told /\ conf.form \in {"map", "slice"} /\ proc = "up"
  BY EntryWays
<1>2. pc \in [Entries -> Places]
  BY DEF SdTypeInv
<1>3. askedBar' = askedBar /\ askedBar = told
  BY <1>1 DEF askedBar
<1>4. \A d \in Entries \ {e} : (Listed(d)' <=> Listed(d)) /\ (Begun(d)' <=> Begun(d))
  <2>1. \A d \in Entries \ {e} : Begun(d)' <=> Begun(d)
    BY <1>1, <1>2, EntryWays DEF Begun
  <2>2. \A d \in Entries \ {e} : Listed(d)' <=> Listed(d)
    BY EntryWays DEF Listed
  <2>3. QED
    BY <2>1, <2>2
<1>5. CASE Listed(e)' <=> Listed(e)
  <2>1. CASE Begun(e)' <=> Begun(e)
    <3>1. listingBar' = listingBar
      BY <1>4, <1>5, <2>1, ListingStays
    <3>2. proc' = proc \/ proc' \in {"killed", "crashed"}
      BY <1>1, EntryWays
    <3>3. CASE proc' = proc
      BY <1>3, <3>1, <3>3 DEF Listing!absVars
    <3>4. CASE proc' \in {"killed", "crashed"}
      <4>1. Listing!Break
        BY <1>3, <3>1, <3>4 DEF Listing!Break
      <4>2. QED
        BY <1>1, <4>1 DEF Listing!AbsNext
    <3>5. QED
      BY <3>2, <3>3, <3>4
  <2>2. CASE ~(Begun(e)' <=> Begun(e))
    <3>1. ~Begun(e) /\ Begun(e)' /\ proc' \in {"up", "killed"} /\ ~Listed(e)
      <4>1. pc[e] \in {"port", "connect"} /\ Begun(e)' /\ proc' \in {"up", "killed"}
        BY <1>1, <1>2, <2>2, EntryWays DEF Begun
      <4>2. ~Begun(e)
        BY <1>1, <4>1 DEF Begun
      <4>3. ~Listed(e)
        BY <4>2 DEF ListInv, Listed
      <4>4. QED
        BY <4>1, <4>2, <4>3
    <3>2. ListingOf(e) = "unlisted" /\ ListingOf(e)' = "over"
      BY <1>5, <3>1 DEF ListingOf
    <3>3. Listing!Moves(e, "unlisted", "over")
      BY <1>4, <3>2, ListingMoves
    <3>4. CASE proc' = "up"
      <4>1. Listing!GiveUp(e)
        BY <1>1, <1>3, <3>3, <3>4 DEF Listing!GiveUp
      <4>2. QED
        BY <1>1, <4>1 DEF Listing!AbsNext
    <3>5. CASE proc' = "killed"
      <4>1. Listing!Break
        BY <1>3, <3>3, <3>5 DEF Listing!Break
      <4>2. QED
        BY <1>1, <4>1 DEF Listing!AbsNext
    <3>6. QED
      BY <3>1, <3>4, <3>5
  <2>3. QED
    BY <2>1, <2>2
<1>6. CASE ~Listed(e) /\ Listed(e)'
  <2>1. pc[e] = "connect" /\ proc' = proc
    BY <1>6, EntryWays DEF Listed
  <2>2. ListingOf(e) = "unlisted" /\ ListingOf(e)' = "listed"
    BY <1>1, <1>6, <2>1 DEF ListingOf, Begun
  <2>3. Listing!Moves(e, "unlisted", "listed")
    BY <1>4, <2>2, ListingMoves
  <2>4. Listing!List(e)
    BY <1>3, <2>1, <2>3 DEF Listing!List
  <2>5. QED
    BY <1>1, <2>4 DEF Listing!AbsNext
<1>7. CASE Listed(e) /\ ~Listed(e)'
  <2>1. pc[e] = "deregister" /\ pc' = [pc EXCEPT ![e] = "done"] /\ proc' = proc
    BY <1>7, EntryWays DEF Listed
  <2>2. Begun(e)'
    BY <1>1, <1>2, <2>1 DEF Begun
  <2>3. ListingOf(e) = "listed" /\ ListingOf(e)' = "over"
    BY <1>7, <2>2 DEF ListingOf
  <2>4. Listing!Moves(e, "listed", "over")
    BY <1>4, <2>3, ListingMoves
  <2>5. e \in askedBar
    BY <1>3, <2>1 DEF ListInv
  <2>6. Listing!Withdraw(e)
    BY <1>3, <2>1, <2>4, <2>5 DEF Listing!Withdraw
  <2>7. QED
    BY <1>1, <2>6 DEF Listing!AbsNext
<1>8. QED
  BY <1>5, <1>6, <1>7

\* So does a step of main, for one service with Register and Deregister.
LEMMA MainLists ==
  ASSUME SdTypeInv, EntryInv, ListInv, MainStep
  PROVE  Listing!AbsNext \/ UNCHANGED Listing!absVars
<1> USE DEF signalVars, callVars
<1>1. conf' = conf /\ told' = told /\ proc = "up"
  BY MainKeeps
<1>2. 1 \in Entries
  BY FirstRan
<1>3. CASE Launch
  <2>1. /\ main = "start" /\ conf.form # "direct" /\ registry' = registry
        /\ \A e \in Entries : pc'[e] \in {"none", "read"}
        /\ proc' \in {"up", "crashed"}
    BY <1>3, MainKeeps DEF Launch
  <2>2. \A e \in Entries : pc[e] = "none"
    BY <2>1 DEF EntryInv
  <2>3. listingBar' = listingBar
    <3>1. \A e \in Entries : (Listed(e)' <=> Listed(e)) /\ (Begun(e)' <=> Begun(e))
      BY <1>1, <2>1, <2>2 DEF Listed, Begun
    <3>2. QED
      BY <3>1, ListingStays
  <2>4. askedBar' = askedBar
    BY <1>1, <2>1 DEF askedBar
  <2>5. CASE proc' = "up"
    BY <1>1, <2>3, <2>4, <2>5 DEF Listing!absVars
  <2>6. CASE proc' = "crashed"
    BY <1>1, <2>3, <2>4, <2>6 DEF Listing!Break, Listing!AbsNext
  <2>7. QED
    BY <2>1, <2>5, <2>6
<1>4. CASE ConsulRegister \/ NacosRegister
  <2>1. /\ conf.form = "direct" /\ main = "start" /\ main' \notin {"start", "returned"}
        /\ \/ proc' = proc /\ \E s : s.id = 1 /\ registry' = {s}
           \/ registry' = registry /\ proc' \in {"up", "killed", "crashed"}
    BY <1>1, <1>4 DEF ConsulRegister, NacosRegister, Dies, ServiceOf, InstanceOf
  <2>2. registry = {}
    BY <2>1 DEF EntryInv
  <2>3. askedBar' = askedBar
    BY <1>1, <2>1 DEF askedBar
  <2>4. ListingOf(1) = "unlisted" /\ ~Listed(1) /\ Begun(1)'
    BY <1>1, <2>1, <2>2 DEF ListingOf, Listed, Begun
  <2>5. \A d \in Entries \ {1} : (Listed(d)' <=> Listed(d)) /\ (Begun(d)' <=> Begun(d))
    BY <1>1, <2>1, <2>2 DEF Listed, Begun
  <2>6. ASSUME NEW s, s.id = 1, registry' = {s}, proc' = proc
        PROVE  Listing!AbsNext
    <3>1. ListingOf(1)' = "listed"
      BY <2>6 DEF ListingOf, Listed
    <3>2. Listing!Moves(1, "unlisted", "listed")
      BY <1>2, <2>4, <2>5, <3>1, ListingMoves
    <3>3. Listing!List(1)
      BY <2>3, <2>6, <3>2 DEF Listing!List
    <3>4. QED
      BY <1>1, <1>2, <3>3 DEF Listing!AbsNext
  <2>7. ASSUME registry' = registry, proc' \in {"up", "killed", "crashed"}
        PROVE  Listing!AbsNext
    <3>1. ListingOf(1)' = "over"
      BY <2>2, <2>4, <2>7 DEF ListingOf, Listed
    <3>2. Listing!Moves(1, "unlisted", "over")
      BY <1>2, <2>4, <2>5, <3>1, ListingMoves
    <3>3. CASE proc' = "up"
      <4>1. Listing!GiveUp(1)
        BY <1>1, <2>3, <3>2, <3>3 DEF Listing!GiveUp
      <4>2. QED
        BY <1>1, <1>2, <4>1 DEF Listing!AbsNext
    <3>4. CASE proc' \in {"killed", "crashed"}
      <4>1. Listing!Break
        BY <1>2, <2>3, <3>2, <3>4 DEF Listing!Break
      <4>2. QED
        BY <1>1, <4>1 DEF Listing!AbsNext
    <3>5. QED
      BY <2>7, <3>3, <3>4
  <2>8. QED
    BY <2>1, <2>6, <2>7
<1>5. CASE ConsulDeregisters \/ NacosDeregisters
  <2>1. PICK i : i.id = 1 /\ DeregisterWith(i)
    BY <1>5 DEF ConsulDeregisters, NacosDeregisters, ServiceOf, InstanceOf
  <2>2. /\ main = "registered" /\ main' = "returned" /\ pc' = pc /\ proc' = proc
        /\ registry' = registry \/ registry' = registry \ {i}
    BY <2>1 DEF DeregisterWith
  <2>3. conf.form = "direct"
    BY <2>2 DEF ListInv
  <2>4. askedBar' = askedBar \cup {Main}
    BY <1>1, <2>2, <2>3 DEF askedBar
  <2>5. \A d \in Entries : Begun(d)' <=> Begun(d)
    BY <1>1, <2>2, <2>3 DEF Begun
  <2>6. \A d \in Entries \ {1} : Listed(d)' <=> Listed(d)
    BY <2>1, <2>2 DEF Listed
  <2>7. CASE Listed(1)' <=> Listed(1)
    <3>1. listingBar' = listingBar
      BY <2>5, <2>6, <2>7, ListingStays
    <3>2. Listing!TakeBack(1)
      BY <2>2, <2>4, <3>1 DEF Listing!TakeBack
    <3>3. QED
      BY <1>1, <1>2, <3>2 DEF Listing!AbsNext
  <2>8. CASE ~(Listed(1)' <=> Listed(1))
    <3>1. Listed(1) /\ ~Listed(1)'
      BY <2>2, <2>8 DEF Listed
    <3>2. ListingOf(1) = "listed" /\ ListingOf(1)' = "over"
      BY <1>1, <2>2, <2>3, <3>1 DEF ListingOf, Begun
    <3>3. Listing!Moves(1, "listed", "over")
      BY <1>2, <2>5, <2>6, <3>2, ListingMoves
    <3>4. Listing!TakeBack(1)
      BY <2>2, <2>4, <3>3 DEF Listing!TakeBack
    <3>5. QED
      BY <1>1, <1>2, <3>4 DEF Listing!AbsNext
  <2>9. QED
    BY <2>7, <2>8
<1>6. CASE MainNotify \/ MainQuit
  <2>1. /\ UNCHANGED <<pc, registry, proc>> /\ main # "start" /\ main' # "start"
        /\ main # "returned" /\ (main' = "returned" => conf.form # "direct")
    BY <1>6 DEF MainNotify, MainQuit
  <2>2. \A e \in Entries : (Listed(e)' <=> Listed(e)) /\ (Begun(e)' <=> Begun(e))
    BY <1>1, <2>1 DEF Listed, Begun
  <2>3. listingBar' = listingBar
    BY <2>2, ListingStays
  <2>4. askedBar' = askedBar
    BY <1>1, <2>1 DEF askedBar
  <2>5. QED
    BY <2>1, <2>3, <2>4 DEF Listing!absVars
<1>7. CASE Exit
  <2>1. /\ UNCHANGED <<pc, registry, main>> /\ main = "returned" /\ proc' = "exited"
        /\ conf.form # "rpcx"
    BY <1>7 DEF Exit, Dies
  <2>2. \A e \in Entries : (Listed(e)' <=> Listed(e)) /\ (Begun(e)' <=> Begun(e))
    BY <1>1, <2>1 DEF Listed, Begun
  <2>3. listingBar' = listingBar
    BY <2>2, ListingStays
  <2>4. askedBar' = askedBar
    BY <1>1, <2>1 DEF askedBar
  <2>5. askedBar # {} \/ registry = {}
    BY <2>1 DEF ListInv, askedBar
  <2>6. registry = {} => \A e \in Entries : listingBar[e] # "listed"
    BY DEF listingBar, ListingOf, Listed
  <2>7. Listing!Exit
    BY <2>1, <2>3, <2>4, <2>5, <2>6 DEF Listing!Exit
  <2>8. QED
    BY <1>1, <2>7 DEF Listing!AbsNext
<1>8. CASE MainPanics
  <2>1. /\ UNCHANGED <<pc, registry, main>> /\ main = "panics" /\ proc' = "crashed"
    BY <1>8 DEF MainPanics, Dies
  <2>2. \A e \in Entries : (Listed(e)' <=> Listed(e)) /\ (Begun(e)' <=> Begun(e))
    BY <1>1, <2>1 DEF Listed, Begun
  <2>3. listingBar' = listingBar
    BY <2>2, ListingStays
  <2>4. askedBar' = askedBar
    BY <1>1, <2>1 DEF askedBar
  <2>5. QED
    BY <1>1, <2>1, <2>3, <2>4 DEF Listing!Break, Listing!AbsNext
<1>9. QED
  BY <1>3, <1>4, <1>5, <1>6, <1>7, <1>8
     DEF MainStep, ConsulRegisterFromMemory, NacosRegisterFromMemory

\* Every step is a step of ServiceRegistry or none.
LEMMA ListingStep ==
  ASSUME SdTypeInv, EntryInv, ListInv, [Next]_vars
  PROVE  [Listing!AbsNext]_Listing!absVars
<1>1. CASE MainStep
  BY <1>1, MainLists
<1>2. CASE \E e \in Entries : EntryStep(e)
  BY <1>2, EntryLists
<1>3. CASE ~MainStep /\ \A e \in Entries : ~EntryStep(e)
  <2>1. /\ UNCHANGED <<conf, main, pc, registry>>
        /\ told \subseteq told' /\ told' \subseteq {Main} \cup Entries
        /\ UNCHANGED proc \/ (proc = "up" /\ proc' \in {"killed", "crashed"} /\ told' = told)
        /\ told' = told \/ proc = "up"
    BY <1>3, OthersKeep
  <2>2. \A e \in Entries : (Listed(e)' <=> Listed(e)) /\ (Begun(e)' <=> Begun(e))
    BY <2>1 DEF Listed, Begun
  <2>3. listingBar' = listingBar
    BY <2>2, ListingStays
  <2>4. told' = told => askedBar' = askedBar
    BY <2>1 DEF askedBar
  <2>5. CASE UNCHANGED <<proc, told>>
    BY <2>3, <2>4, <2>5 DEF Listing!absVars
  <2>6. CASE proc' = proc /\ told' # told
    <3>1. askedBar' = askedBar \cup told'
      BY <2>1 DEF askedBar
    <3>2. Listing!Ask(told')
      BY <2>3, <2>6, <3>1 DEF Listing!Ask
    <3>3. told' \in SUBSET (Entries \cup {Main})
      BY <2>1
    <3>4. QED
      BY <2>1, <2>6, <3>2, <3>3 DEF Listing!AbsNext
  <2>7. CASE proc = "up" /\ proc' \in {"killed", "crashed"} /\ told' = told
    <3>1. Listing!Break
      BY <2>3, <2>4, <2>7 DEF Listing!Break
    <3>2. QED
      BY <2>7, <3>1 DEF Listing!AbsNext
  <2>8. QED
    BY <2>1, <2>5, <2>6, <2>7
<1>4. QED
  BY <1>1, <1>2, <1>3

\* The registration implements ServiceRegistry, in every configuration: a service
\* is listed once, taken back only after an interrupt told it or by the program,
\* and no process returns from main untold with a service listed.
THEOREM ListingRefinement == Spec => ImplementsRegistry
<1>1. SdTypeInv /\ EntryInv /\ ListInv /\ [Next]_vars => [Listing!AbsNext]_Listing!absVars
  BY ListingStep
<1>2. QED
  BY <1>1, ListTheorem, ListingInit, PTL DEF Spec, ImplementsRegistry, Listing!AbsSpec

=============================================================================
