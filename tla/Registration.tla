---------------------------- MODULE Registration ----------------------------
(***************************************************************************)
(* A process that registers its services (SdRegister) and whose rpcx       *)
(* callbacks make servers of their own (RpcServer), which is how the       *)
(* entries of an "rpcx" configuration are used: each callback is started   *)
(* in a goroutine and works on the variables of package rpcx.              *)
(***************************************************************************)
EXTENDS SdRegister

CONSTANTS NoServer, Empty, Unknown, Absent, Odd, Requests

VARIABLES defautlServer, step, methods, services, serving, last

Rpc == INSTANCE RpcServer WITH Servers <- Entries

ASSUME RegistrationAssumption == Rpc!RpcAssumption

rpcVars == <<defautlServer, step, methods, services, serving, last>>

vars == <<sdVars, rpcVars>>

Init == SdInit /\ Rpc!RpcInit

\* The callback of an rpcx entry runs.
Serves(e) == Up /\ conf.form = "rpcx" /\ cb[e] = "running"

RpcCallback(e) ==
  /\ Serves(e)
  /\ ~Rpc!ServePanics(e, conf.docker, got[e].port # Unset)
  /\ Rpc!RpcStep(e)
  /\ UNCHANGED sdVars

RpcRequest ==
  /\ \E e \in Entries, r \in Requests : Serves(e) /\ Rpc!Request(e, r)
  /\ UNCHANGED sdVars

\* The process ends in a panic of Serve or in a race for the map of methods.
RpcCrash ==
  /\ \E e \in Entries :
       /\ Serves(e)
       /\ \/ Rpc!ServePanics(e, conf.docker, got[e].port # Unset)
          \/ Rpc!MethodsRace
  /\ Dies("crashed")
  /\ UNCHANGED <<conf, main, pc, callVars, registry, signalVars, rpcVars>>

Next ==
  \/ SdNext /\ UNCHANGED rpcVars
  \/ \E e \in Entries : RpcCallback(e)
  \/ RpcRequest \/ RpcCrash

Spec == Init /\ [][Next]_vars

\* main and the entries run when they can, and the registry answers; nothing is
\* assumed of the services and their clients.
Fairness ==
  /\ WF_vars(MainStep /\ UNCHANGED rpcVars)
  /\ \A e \in Entries : WF_vars(EntryStep(e) /\ UNCHANGED rpcVars)

FairSpec == Spec /\ Fairness

-----------------------------------------------------------------------------
(* Properties *)

\* The values the variables may take.
TypeOK == SdTypeOK /\ Rpc!RpcTypeOK

\* The values that the configuration has with another type than the code
\* asserts, among those that it comes to.
Mistyped ==
  /\ conf.readable /\ conf.form # "direct"
  /\ \/ conf.mistyped.file
     \/ \E e \in Ran :
          \/ conf.form # "map" /\ e \in conf.mistyped.service
          \/ conf.form # "rpcx" /\ e \in conf.mistyped.tags
          \/ conf.form # "rpcx" /\ conf.sd = "consul" /\ e \in conf.mistyped.options

\* Goroutines that share a map or the default server are the only reason for a
\* crash, next to a value of the configuration that has another type, a registry
\* that fails (nacos), a callback that is missing, an unknown schema and an rpcx
\* entry of a container without a port.
CrashOnlyWhenShared ==
  proc = "crashed" =>
    \/ conf.form \in {"slice", "rpcx"} /\ conf.n > 1
    \/ conf.form = "other"
    \/ Mistyped
    \/ ~conf.reliable /\ conf.sd = "nacos"
    \/ conf.callbacks < conf.n
    \/ conf.form = "rpcx" /\ conf.docker /\ conf.noPort # {}

\* A process with one rpcx server finds every method it registered.
MethodFound == Rpc!MethodFound
=============================================================================
