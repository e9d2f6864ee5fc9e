---------------------------- MODULE HttpExchange ----------------------------
(***************************************************************************)
(* What rest.Engine promises of each request, with none of the RestApi     *)
(* that the requests of a route share: the hooks may write, the endpoint   *)
(* is called at most once and answers by itself or leaves one answer to    *)
(* the encoder, an error closes the response with the status that the      *)
(* error encoder chooses, nothing is written to another request or to a    *)
(* closed response, and the finalizers are given the status that the       *)
(* client got if the request was given one.  Module RestEngine implements  *)
(* this specification where the requests of a route do not mix.            *)
(***************************************************************************)
EXTENDS Integers, Sequences

CONSTANT Requests

VARIABLES
  stage,     \* "waiting", "open", "called", "answered", "closed" or "done"
  out,       \* what was written to the request's response, and by whom
  sent,      \* the status the client got, 0 before any
  reported   \* the status its finalizers were given, 0 before they run

absVars == <<stage, out, sent, reported>>

AbsInit ==
  /\ stage = [r \in Requests |-> "waiting"]
  /\ out = [r \in Requests |-> <<>>]
  /\ sent = [r \in Requests |-> 0]
  /\ reported = [r \in Requests |-> 0]

Becomes(r, s) == stage' = [stage EXCEPT ![r] = s]

\* Request r writes to its own response; the first status is the one sent.
Write(r, what, status) ==
  /\ out' = [out EXCEPT ![r] = Append(@, [from |-> r, what |-> what])]
  /\ sent' = [sent EXCEPT ![r] = IF @ = 0 THEN status ELSE @]

Receive(r) == stage[r] = "waiting" /\ Becomes(r, "open") /\ UNCHANGED <<out, sent>>

\* A hook aborts the request, which may go on all the same, or writes by itself.
Hook(r) ==
  /\ stage[r] \in {"open", "called", "answered"} /\ UNCHANGED stage
  /\ Write(r, "abort", 401) \/ Write(r, "bytes", 200) \/ Write(r, "denial", 403)

\* The endpoint is called, and may answer by itself.
Call(r) ==
  /\ stage[r] = "open"
  /\ \/ Becomes(r, "called") /\ UNCHANGED <<out, sent>>
     \/ Becomes(r, "answered") /\ \E status \in {200, 404} : Write(r, "render", status)

\* What the endpoint returned is encoded.
Encode(r) ==
  /\ stage[r] = "called" /\ Becomes(r, "closed")
  /\ \E what \in {"finish", "context"} : Write(r, what, 200)

\* An error is encoded, with the status of the encoder's choice or with none.
Fail(r) ==
  /\ stage[r] \in {"open", "called", "answered"} /\ Becomes(r, "closed")
  /\ Write(r, "error", 200) \/ \E status \in {400, 500} : Write(r, "refusal", status)

\* At most the first of the writes gives a status: no later one sends a header
\* by itself, and a Mcontext writes only after its own header.
OneStatus(writes) ==
  LET ofContext == {"abort", "render", "context"}
  IN  \A i \in DOMAIN writes \ {1} :
        /\ writes[i].what \notin {"denial", "refusal"}
        /\ writes[i].what \in ofContext => writes[1].what \in ofContext

\* The finalizers run, and are given the status unless several were given.
Finish(r) ==
  /\ stage[r] \notin {"waiting", "done"} /\ Becomes(r, "done")
  /\ \E status \in {200, 400, 401, 403, 404, 500} :
       /\ reported' = [reported EXCEPT ![r] = status]
       /\ OneStatus(out[r]) => status = IF sent[r] = 0 THEN 200 ELSE sent[r]
  /\ UNCHANGED <<out, sent>>

AbsNext ==
  \E r \in Requests :
    \/ Finish(r)
    \/ /\ Receive(r) \/ Hook(r) \/ Call(r) \/ Encode(r) \/ Fail(r)
       /\ UNCHANGED reported

AbsSpec == AbsInit /\ [][AbsNext]_absVars
=============================================================================
