------------------------------ MODULE RpcServer ------------------------------
(***************************************************************************)
(* The rpcx servers of one process and the JSON-RPC bridge                 *)
(* (rpcx/rpcxserver.go).  The package functions work on one variable,      *)
(* defautlServer, which every call of DefaultRpcServer replaces; JSONRpc   *)
(* has no reference to the server it is registered with, and looks methods *)
(* up in defautlServer, too.                                               *)
(*                                                                         *)
(* A program's callback makes the default server, registers its method and *)
(* the JSONRpc service, and serves: Servers are the callbacks, a callback  *)
(* and the server it makes have the same name, and so has its method.      *)
(***************************************************************************)
CONSTANTS
  Servers,     \* the callbacks, each with the server it makes and its method
  NoServer,    \* defautlServer is nil
  Empty,       \* the empty name
  Unknown,     \* a name under which nobody registers a method
  Absent,      \* a member the JSON object does not have
  Odd,         \* a member of the JSON object that is not a string
  Requests     \* the requests of clients, see RequestType

\* req: what RpcRequest.Req is.  version, method: the members of the JSON
\* object; Odd is one that is not a string.  fails: the method returns an
\* error.
RequestType ==
  [req : {"empty", "garbage", "object"}, version : {Absent, "2.0", "1.0", Odd},
   method : Servers \cup {Empty, Unknown, Absent, Odd}, fails : BOOLEAN, id : BOOLEAN]

\* What the instance has to assume of the constants.
RpcAssumption ==
  /\ NoServer \notin Servers
  /\ Requests \subseteq RequestType

VARIABLES
  defautlServer, \* the package variable
  step,          \* how far each callback is
  methods,       \* RpcServer.Methods of each server
  services,      \* the servers with which JSONRpc is registered
  serving,       \* the servers that listen
  last           \* the last request answered, and what the answer was

rpcVars == <<defautlServer, step, methods, services, serving, last>>

NoAnswer == [at |-> NoServer]

RpcInit ==
  /\ defautlServer = NoServer
  /\ step = [c \in Servers |-> "make"]
  /\ methods = [c \in Servers |-> {}]
  /\ services = {}
  /\ serving = {}
  /\ last = NoAnswer

At(c, l) == step[c] = l
Then(c, l) == step' = [step EXCEPT ![c] = l]

\* DefaultRpcServer: NewRpcxServer makes a server without methods, whose plugin
\* for the registry is added even if it could not be started.
DefaultRpcServer(c) ==
  /\ At(c, "make")
  /\ defautlServer' = c
  /\ methods' = [methods EXCEPT ![c] = {}]
  /\ Then(c, "method")
  /\ UNCHANGED <<services, serving, last>>

\* Faulty variant of RpcRegisterDefaultMethod: the test of defautlServer is inverted.
RegisterMethodInverted(c) ==
  /\ At(c, "method")
  /\ IF defautlServer = NoServer
     THEN methods' = [methods EXCEPT ![c] = {c}]
     ELSE UNCHANGED methods
  /\ Then(c, "service")
  /\ UNCHANGED <<defautlServer, services, serving, last>>

\* RpcRegisterDefaultMethod: into the map of the default server of the moment.
RpcRegisterDefaultMethod(c) ==
  /\ At(c, "method")
  /\ methods' = [methods EXCEPT ![defautlServer] = @ \cup {c}]
  /\ Then(c, "service")
  /\ UNCHANGED <<defautlServer, services, serving, last>>

\* RpcRegisterDefaultService: an error, of the registry, too, is logged.
RpcRegisterDefaultService(c) ==
  /\ At(c, "service")
  /\ services' = services \cup {defautlServer}
  /\ Then(c, "serve")
  /\ UNCHANGED <<defautlServer, methods, serving, last>>

\* RpcServe: a second Serve of one server fails, as its address is in use.
RpcServe(c) ==
  /\ At(c, "serve")
  /\ serving' = serving \cup {defautlServer}
  /\ Then(c, IF defautlServer \in serving THEN "failed" ELSE "served")
  /\ UNCHANGED <<defautlServer, methods, services, last>>

\* Serve panics when ServiceAddr has no port and docker_enable wants only that.
ServePanics(c, docker, hasPort) == At(c, "serve") /\ docker /\ ~hasPort

-----------------------------------------------------------------------------
(* JSONRpc.Services *)

\* RpcGetMethodByName, RpcGetMethodWithTracer and GetMethodByName
Found(name) == defautlServer # NoServer /\ name \in methods[defautlServer]

Reply(ran, error, id) == [kind |-> "reply", ran |-> ran, error |-> error, id |-> id]

\* An empty or malformed request and another version are returned as errors;
\* a member of the wrong type panics in a conversion.  Otherwise there is a
\* reply: with an error object for an empty name, with an empty one if the
\* method failed, with neither error nor result if no method was found.
Services(r) ==
  IF r.req # "object" \/ r.version = "1.0" THEN [kind |-> "error"]
  ELSE IF r.version = Odd \/ r.method = Odd THEN [kind |-> "panic"]
  ELSE Reply(Found(r.method),
             IF r.method = Empty THEN "code"
             ELSE IF Found(r.method) /\ r.fails THEN "empty" ELSE "none",
             r.id)

\* A client of server s gets its answer.
Request(s, r) ==
  /\ s \in serving \cap services
  /\ last' = [at |-> s, request |-> r, answer |-> Services(r)]
  /\ UNCHANGED <<defautlServer, step, methods, services, serving>>

RpcStep(c) ==
  \/ DefaultRpcServer(c) \/ RpcRegisterDefaultMethod(c)
  \/ RpcRegisterDefaultService(c) \/ RpcServe(c)

\* A callback writes the map of methods while a request reads it.
MethodsRace ==
  \E c \in Servers : At(c, "method") /\ serving \cap services # {}

-----------------------------------------------------------------------------
(* Properties *)

\* The values the variables may take.
RpcTypeOK ==
  /\ defautlServer \in Servers \cup {NoServer}
  /\ step \in [Servers -> {"make", "method", "service", "serve", "served", "failed"}]
  /\ methods \in [Servers -> SUBSET Servers]
  /\ services \subseteq Servers
  /\ serving \subseteq Servers
  /\ last # NoAnswer => last.at \in Servers /\ last.request \in Requests

\* A process with one rpcx server finds every method it registered: who asks
\* for it by its name, at any time, has it called, and nothing else is called.
MethodFound ==
  \A c \in Servers :
    ({d \in Servers : step[d] # "make"} = {c} /\ last # NoAnswer /\ last.answer.kind = "reply")
      => (last.answer.ran <=> last.request.method = c)
=============================================================================
