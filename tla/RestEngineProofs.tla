-------------------------- MODULE RestEngineProofs --------------------------
(***************************************************************************)
(* Theorems about RestEngine, for any number of requests, routes and hooks *)
(* and every choice of user code: types, and what the client, the          *)
(* finalizers and the tracer see of one request.                           *)
(*                                                                         *)
(* Requests of a route share the RestApi, so that what one request gets    *)
(* depends on the others.  ContextInv and AloneInv say how much; from them *)
(* RestEngine is, under the assumptions of the theorems, a set of requests *)
(* that each work for themselves, and the rest is about one of them.       *)
(***************************************************************************)
EXTENDS RestEngine, FiniteSetTheorems, TLAPS

\* The places in ServeHTTP, the ways to answer, and what is written.
Labels == {"new", "traceBefore", "before", "traceAfter", "after",
           "encode", "encodeRender", "encodeType", "encodeWrite",
           "error", "return", "done"}
Modes == {"plain", "context", "render"}
Items == [from : Requests, what : Whats]

\* A request that was decoded finds a Mcontext of its route in the RestApi, and
\* one whose span was started finds a span in the variable of the route.
ContextInv ==
  /\ \A r \in Requests : pc[r] # "new" => mc[RouteOf[r]] \in Requests
  /\ \A r \in Requests : pc[r] \in {"before", "traceAfter"} => span[RouteOf[r]] \in Requests
  /\ \A a \in Apis : mc[a] \in Requests => RouteOf[mc[a]] = a
  /\ \A r \in Requests : mode[r] = "plain" \/ mode[r] \in kind[RouteOf[r]].modes

\* On a route that gets its requests one at a time, the Mcontext and the span
\* are those of the only request that is being served.
AloneInv ==
  \A r \in Requests :
    kind[RouteOf[r]].oneAtATime /\ Active(r) =>
      /\ \A q \in Requests : RouteOf[q] = RouteOf[r] /\ Active(q) => q = r
      /\ mc[RouteOf[r]] = r
      /\ pc[r] \in {"before", "traceAfter"} => span[RouteOf[r]] = r

ShareInv == TypeOK /\ ContextInv /\ AloneInv

-----------------------------------------------------------------------------
(* Types *)

\* A write to a response keeps the types of what is known of it.
LEMMA WriteTyped ==
  ASSUME TypeOK, NEW r \in Requests, NEW t \in Requests,
         NEW what \in Whats,
         NEW status \in Statuses,
         \/ WriteRaw(r, t, what) \/ WriteContext(r, t, what, status)
         \/ t = r /\ WriteStatus(r, what, status)
  PROVE  /\ out' \in [Requests -> Seq(Items)]
         /\ sent' \in [Requests -> Statuses \cup {0}]
         /\ code' \in [Requests -> Statuses]
         /\ bound' \in [Requests -> BOOLEAN]
<1> DEFINE item == [from |-> r, what |-> what]
<1>1. out' = [out EXCEPT ![t] = Append(@, item)]
  BY DEF WriteRaw, WriteContext, WriteStatus
<1>2. item \in Items
  BY DEF Items
<1>3. out \in [Requests -> Seq(Items)]
  BY DEF TypeOK, Items
<1>4. Append(out[t], item) \in Seq(Items)
  BY <1>2, <1>3
<1>5. out' \in [Requests -> Seq(Items)]
  BY <1>1, <1>3, <1>4
<1>6. /\ sent \in [Requests -> Statuses \cup {0}]
      /\ code \in [Requests -> Statuses]
      /\ bound \in [Requests -> BOOLEAN]
  BY DEF TypeOK
<1>7. sent' \in [Requests -> Statuses \cup {0}]
  <2>1. 200 \in Statuses
    BY DEF Statuses
  <2>2. \E s \in Statuses : sent' = [sent EXCEPT ![t] = IF @ = 0 THEN s ELSE @]
    BY <2>1 DEF WriteRaw, WriteContext, WriteStatus
  <2>3. QED
    BY <1>6, <2>2
<1>8. code' \in [Requests -> Statuses]
  <2>1. code' = code \/ code' = [code EXCEPT ![t] = code[t]] \/ code' = [code EXCEPT ![t] = status]
    BY DEF WriteRaw, WriteContext, WriteStatus
  <2>2. QED
    BY <1>6, <2>1
<1>9. bound' \in [Requests -> BOOLEAN]
  <2>1. bound' = bound \/ bound' = [bound EXCEPT ![t] = TRUE]
    BY DEF WriteRaw, WriteContext, WriteStatus
  <2>2. [bound EXCEPT ![t] = TRUE] \in [Requests -> BOOLEAN]
    BY <1>6, Zenon
  <2>3. CASE bound' = bound
    BY <1>6, <2>3, Zenon
  <2>4. CASE bound' = [bound EXCEPT ![t] = TRUE]
    BY <2>2, <2>4, Zenon
  <2>5. QED
    BY <2>1, <2>3, <2>4
<1>10. QED
  BY <1>5, <1>7, <1>8, <1>9

\* The types of what is known of the answers.
AnswerTyped ==
  /\ out \in [Requests -> Seq(Items)]
  /\ sent \in [Requests -> Statuses \cup {0}]
  /\ code \in [Requests -> Statuses]
  /\ bound \in [Requests -> BOOLEAN]

\* A step of r keeps the types of the answers.
LEMMA AnswersTyped ==
  ASSUME TypeOK, ContextInv, NEW r \in Requests, Serve(r)
  PROVE  AnswerTyped'
<1>1. AnswerTyped
  BY DEF TypeOK, AnswerTyped, Items
<1>2. CASE UNCHANGED answerVars
  BY <1>1, <1>2 DEF AnswerTyped, answerVars
<1>3. ASSUME NEW what \in Whats, NEW status \in Statuses, NEW t \in Requests,
             \/ WriteRaw(r, t, what) \/ WriteContext(r, t, what, status)
             \/ t = r /\ WriteStatus(r, what, status)
      PROVE  AnswerTyped'
  BY <1>3, WriteTyped DEF AnswerTyped
<1> USE DEF Whats, Statuses
<1>4. CASE EncodeWrite(r)
  <2>1. mc[RouteOf[r]] \in Requests
    BY <1>4 DEF EncodeWrite, ContextInv
  <2>2. WriteContext(r, mc[RouteOf[r]], "context", 200) \/ UNCHANGED answerVars
    BY <1>4 DEF EncodeWrite
  <2>3. QED
    BY <2>1, <2>2, <1>2, <1>3
<1>5. CASE HookWrites(r)
  BY <1>2, <1>3, <1>5 DEF HookWrites
<1>6. CASE Endpoint(r)
  BY <1>2, <1>3, <1>6 DEF Endpoint
<1>7. CASE EncodeRender(r)
  BY <1>2, <1>3, <1>7 DEF EncodeRender
<1>8. CASE ErrorEncoder(r)
  BY <1>3, <1>8 DEF ErrorEncoder
<1>9. QED
  BY <1>2, <1>4, <1>5, <1>6, <1>7, <1>8
     DEF Serve, Decode, TraceBefore, Before, TraceAfter, After, EncodeContext, EncodeType, Finalize

\* A step of r moves r to a place that is not the first, in one way or another.
Moves(r) ==
  /\ pc[r] # "done"
  /\ \/ pc' = pc /\ pc[r] \in {"before", "after"}
     \/ \E l \in Labels \ {"new"} : pc' = [pc EXCEPT ![r] = l]
  /\ hook' = hook \/ \E n \in 0..Hooks : hook' = [hook EXCEPT ![r] = n]
  /\ handled' = handled \/ handled' = [handled EXCEPT ![r] = TRUE]
  /\ mode' = mode \/ \E m \in kind[RouteOf[r]].modes : mode' = [mode EXCEPT ![r] = m]

\* Every step of r moves r.
LEMMA StepMoves ==
  ASSUME TypeOK, NEW r \in Requests, Serve(r)
  PROVE  Moves(r)
<1> USE DEF Moves, Labels, Goto
<1>1. CASE Decode(r)
  BY <1>1 DEF Decode
<1>2. CASE TraceBefore(r)
  BY <1>2 DEF TraceBefore
<1>3. CASE Before(r) \/ After(r)
  <2>1. hook[r] \in 0..Hooks /\ Hooks \in Nat
    BY EngineAssumption DEF EngineAssumption, TypeOK
  <2>2. hook[r] < Hooks => hook[r] + 1 \in 0..Hooks
    BY <2>1
  <2>3. hook' = hook \/ (hook[r] < Hooks /\ hook' = [hook EXCEPT ![r] = hook[r] + 1])
    BY <1>3 DEF Before, After
  <2>4. hook' = hook \/ \E n \in 0..Hooks : hook' = [hook EXCEPT ![r] = n]
    BY <2>2, <2>3
  <2>5. \/ pc' = pc /\ pc[r] \in {"before", "after"}
        \/ \E l \in Labels \ {"new"} : pc' = [pc EXCEPT ![r] = l]
    BY <1>3 DEF Before, After
  <2>6. UNCHANGED <<handled, mode>> /\ pc[r] # "done"
    BY <1>3 DEF Before, After
  <2>7. QED
    BY <2>4, <2>5, <2>6
<1>4. CASE Endpoint(r)
  <2>1. 0 \in 0..Hooks
    BY EngineAssumption DEF EngineAssumption
  <2>2. QED
    BY <1>4, <2>1 DEF Endpoint
<1>5. CASE TraceAfter(r)
  BY <1>5 DEF TraceAfter
<1>7. CASE EncodeContext(r)
  BY <1>7 DEF EncodeContext
<1>8. CASE EncodeRender(r)
  BY <1>8 DEF EncodeRender
<1>9. CASE EncodeType(r)
  BY <1>9 DEF EncodeType
<1>10. CASE EncodeWrite(r)
  BY <1>10 DEF EncodeWrite
<1>11. CASE ErrorEncoder(r)
  BY <1>11 DEF ErrorEncoder
<1>12. CASE Finalize(r)
  BY <1>12 DEF Finalize
<1>13. QED
  BY <1>1, <1>2, <1>3, <1>4, <1>5, <1>7, <1>8, <1>9, <1>10, <1>11, <1>12 DEF Serve

\* The types of the places.
PlaceTyped ==
  /\ pc \in [Requests -> Labels]
  /\ hook \in [Requests -> 0..Hooks]
  /\ handled \in [Requests -> BOOLEAN]
  /\ mode \in [Requests -> Modes]

\* A step of r keeps the types of the places, and the places of the others.
LEMMA PlaceStep ==
  ASSUME TypeOK, NEW r \in Requests, Serve(r)
  PROVE  /\ PlaceTyped'
         /\ \A q \in Requests \ {r} :
              /\ pc'[q] = pc[q] /\ hook'[q] = hook[q]
              /\ handled'[q] = handled[q] /\ mode'[q] = mode[q]
         /\ pc[r] # "done" /\ pc'[r] # "new"
<1>1. PlaceTyped
  BY DEF PlaceTyped, TypeOK, Labels, Modes
<1>2. Moves(r)
  BY StepMoves
<1>3. kind[RouteOf[r]].modes \subseteq Modes
  BY EngineAssumption DEF EngineAssumption, KindType, TypeOK, Modes
<1>4. pc' \in [Requests -> Labels] /\ pc'[r] # "new"
  BY <1>1, <1>2 DEF PlaceTyped, Moves
<1>5. hook' \in [Requests -> 0..Hooks]
  BY <1>1, <1>2 DEF PlaceTyped, Moves
<1>6. handled' \in [Requests -> BOOLEAN]
  BY <1>1, <1>2 DEF PlaceTyped, Moves
<1>7. mode' \in [Requests -> Modes]
  BY <1>1, <1>2, <1>3 DEF PlaceTyped, Moves
<1>8. \A q \in Requests \ {r} :
        /\ pc'[q] = pc[q] /\ hook'[q] = hook[q]
        /\ handled'[q] = handled[q] /\ mode'[q] = mode[q]
  BY <1>1, <1>2 DEF PlaceTyped, Moves
<1>9. QED
  BY <1>2, <1>4, <1>5, <1>6, <1>7, <1>8 DEF PlaceTyped, Moves

\* A step of r changes what the requests of its route share when r is decoded
\* and when its span starts, and ends one span of one request at the end.
LEMMA ShareStep ==
  ASSUME TypeOK, ContextInv, NEW r \in Requests, Serve(r)
  PROVE  /\ \/ pc[r] = "new" /\ mc' = [mc EXCEPT ![RouteOf[r]] = r]
            \/ pc[r] # "new" /\ mc' = mc
         /\ \/ /\ pc[r] = "traceBefore" /\ pc'[r] = "before"
               /\ span' = [span EXCEPT ![RouteOf[r]] = r]
            \/ pc'[r] # "before" /\ span' = span
            \/ pc[r] = "before" /\ span' = span
         /\ \/ /\ pc[r] = "traceAfter"
               /\ \E s \in Requests : ended' = [ended EXCEPT ![s] = @ \cup {r}]
            \/ ended' = ended
<1>1. pc \in [Requests -> Labels]
  BY DEF TypeOK, Labels
<1> USE <1>1 DEF Goto, Labels, traceVars, answerVars
<1>2. CASE Decode(r)
  BY <1>2 DEF Decode
<1>3. CASE TraceBefore(r)
  BY <1>3 DEF TraceBefore
<1>4. CASE Before(r)
  BY <1>4 DEF Before
<1>5. CASE Endpoint(r)
  BY <1>5 DEF Endpoint
<1>6. CASE TraceAfter(r)
  <2>1. span[RouteOf[r]] \in Requests
    BY <1>6 DEF TraceAfter, ContextInv
  <2>2. \E s \in Requests : ended' = [ended EXCEPT ![s] = @ \cup {r}]
    BY <1>6, <2>1 DEF TraceAfter
  <2>3. QED
    BY <1>6, <2>2 DEF TraceAfter
<1>7. CASE After(r)
  BY <1>7 DEF After
<1>8. CASE EncodeContext(r)
  BY <1>8 DEF EncodeContext
<1>9. CASE EncodeRender(r)
  BY <1>9 DEF EncodeRender
<1>10. CASE EncodeType(r)
  BY <1>10 DEF EncodeType
<1>11. CASE EncodeWrite(r)
  BY <1>11 DEF EncodeWrite
<1>12. CASE ErrorEncoder(r)
  BY <1>12 DEF ErrorEncoder
<1>13. CASE Finalize(r)
  BY <1>13 DEF Finalize
<1>14. QED
  BY <1>2, <1>3, <1>4, <1>5, <1>6, <1>7, <1>8, <1>9, <1>10, <1>11, <1>12, <1>13 DEF Serve

\* The tracer's serverAfter follows the endpoint.
LEMMA AfterBefore ==
  ASSUME TypeOK, NEW r \in Requests, Serve(r), pc'[r] = "traceAfter"
  PROVE  pc[r] = "before"
<1>1. pc \in [Requests -> Labels]
  BY DEF TypeOK, Labels
<1>2. QED
  BY <1>1 DEF Goto, Labels, Serve, Decode, TraceBefore, Before, Endpoint, TraceAfter, After,
       EncodeContext, EncodeRender, EncodeType, EncodeWrite, ErrorEncoder, Finalize

\* A step keeps the types.
LEMMA TypeStep ==
  ASSUME TypeOK, ContextInv, [Next]_vars
  PROVE  TypeOK'
<1>1. CASE UNCHANGED vars
  BY <1>1 DEF TypeOK, vars
<1>2. CASE Next
  <2>1. PICK r \in Requests : Serve(r)
    BY <1>2 DEF Next
  <2>2. PlaceTyped' /\ AnswerTyped'
    BY <2>1, PlaceStep, AnswersTyped
  <2>3. RouteOf[r] \in Apis
    BY EngineAssumption DEF EngineAssumption
  <2>4. mc' \in [Apis -> Requests \cup {Nobody}]
    <3>1. mc' = mc \/ mc' = [mc EXCEPT ![RouteOf[r]] = r]
      BY <2>1, ShareStep
    <3>2. mc \in [Apis -> Requests \cup {Nobody}]
      BY DEF TypeOK
    <3>3. QED
      BY <2>3, <3>1, <3>2
  <2>5. span' \in [Apis -> Requests \cup {Nobody}]
    <3>1. span' = span \/ span' = [span EXCEPT ![RouteOf[r]] = r]
      BY <2>1, ShareStep
    <3>2. span \in [Apis -> Requests \cup {Nobody}]
      BY DEF TypeOK
    <3>3. QED
      BY <2>3, <3>1, <3>2
  <2>6. ended' \in [Requests -> SUBSET Requests]
    <3>1. ended' = ended \/ \E s \in Requests : ended' = [ended EXCEPT ![s] = @ \cup {r}]
      BY <2>1, ShareStep
    <3>2. ended \in [Requests -> SUBSET Requests]
      BY DEF TypeOK
    <3>3. QED
      BY <3>1, <3>2
  <2>7. kind' \in [Apis -> Kinds]
    BY <1>2 DEF Next, TypeOK
  <2>8. QED
    BY <2>2, <2>4, <2>5, <2>6, <2>7 DEF TypeOK, PlaceTyped, AnswerTyped, Labels, Modes, Items
<1>3. QED
  BY <1>1, <1>2

\* A step keeps ContextInv.
LEMMA ContextStep ==
  ASSUME TypeOK, ContextInv, [Next]_vars
  PROVE  ContextInv'
<1>1. CASE UNCHANGED vars
  BY <1>1 DEF ContextInv, vars
<1>2. CASE Next
  <2>1. PICK r \in Requests : Serve(r)
    BY <1>2 DEF Next
  <2>2. kind' = kind
    BY <1>2 DEF Next
  <2>3. \A q \in Requests : RouteOf[q] \in Apis
    BY EngineAssumption DEF EngineAssumption
  <2>4. /\ mc \in [Apis -> Requests \cup {Nobody}]
        /\ span \in [Apis -> Requests \cup {Nobody}]
    BY DEF TypeOK
  <2>5. \A q \in Requests \ {r} : pc'[q] = pc[q] /\ mode'[q] = mode[q]
    BY <2>1, PlaceStep
  <2>6. \/ pc[r] = "new" /\ mc' = [mc EXCEPT ![RouteOf[r]] = r]
        \/ pc[r] # "new" /\ mc' = mc
    BY <2>1, ShareStep
  <2>7. ASSUME NEW q \in Requests, pc'[q] # "new"
        PROVE  mc'[RouteOf[q]] \in Requests
    BY <2>3, <2>4, <2>5, <2>6, <2>7 DEF ContextInv
  <2>8. ASSUME NEW a \in Apis, mc'[a] \in Requests
        PROVE  RouteOf[mc'[a]] = a
    BY <2>3, <2>4, <2>6, <2>8 DEF ContextInv
  <2>9. ASSUME NEW q \in Requests, pc'[q] \in {"before", "traceAfter"}
        PROVE  span'[RouteOf[q]] \in Requests
    <3>1. \/ span' = [span EXCEPT ![RouteOf[r]] = r]
          \/ span' = span
      BY <2>1, ShareStep
    <3>2. q = r => span' = [span EXCEPT ![RouteOf[r]] = r] \/ pc[r] \in {"before", "traceAfter"}
      <4>1. CASE pc'[r] = "before"
        BY <2>1, <4>1, ShareStep
      <4>2. CASE pc'[r] = "traceAfter"
        BY <2>1, <4>2, AfterBefore
      <4>3. QED
        BY <2>9, <4>1, <4>2
    <3>3. QED
      BY <2>3, <2>4, <2>5, <2>9, <3>1, <3>2 DEF ContextInv
  <2>10. ASSUME NEW q \in Requests
         PROVE  mode'[q] = "plain" \/ mode'[q] \in kind'[RouteOf[q]].modes
    <3>1. mode \in [Requests -> Modes]
      BY DEF TypeOK, Modes
    <3>2. mode' = mode \/ \E m \in kind[RouteOf[r]].modes : mode' = [mode EXCEPT ![r] = m]
      BY <2>1, StepMoves DEF Moves
    <3>3. QED
      BY <2>2, <3>1, <3>2 DEF ContextInv
  <2>11. QED
    BY <2>7, <2>8, <2>9, <2>10 DEF ContextInv
<1>3. QED
  BY <1>1, <1>2

\* A route that gets its requests one at a time decodes one when it is idle.
LEMMA DecodeAlone ==
  ASSUME TypeOK, NEW r \in Requests, Serve(r), pc[r] = "new",
         kind[RouteOf[r]].oneAtATime
  PROVE  \A q \in Requests : RouteOf[q] = RouteOf[r] => ~Active(q)
BY DEF Serve, Decode, TraceBefore, Before, Endpoint, TraceAfter, After, EncodeContext,
       EncodeRender, EncodeType, EncodeWrite, ErrorEncoder, Finalize

\* A step keeps AloneInv.
LEMMA AloneStep ==
  ASSUME TypeOK, ContextInv, AloneInv, [Next]_vars
  PROVE  AloneInv'
<1>1. CASE UNCHANGED vars
  BY <1>1 DEF AloneInv, Active, vars
<1>2. CASE Next
  <2>1. PICK r \in Requests : Serve(r)
    BY <1>2 DEF Next
  <2>2. kind' = kind
    BY <1>2 DEF Next
  <2>3. \A p \in Requests : Active(p)' => Active(p) \/ (p = r /\ pc[r] = "new")
    BY <2>1, PlaceStep DEF Active
  <2>4. SUFFICES ASSUME NEW q \in Requests, kind[RouteOf[q]].oneAtATime, Active(q)'
                 PROVE  /\ \A p \in Requests : RouteOf[p] = RouteOf[q] /\ Active(p)' => p = q
                        /\ mc'[RouteOf[q]] = q
                        /\ pc'[q] \in {"before", "traceAfter"} => span'[RouteOf[q]] = q
    BY <2>2 DEF AloneInv, Active
  <2>5. pc[r] = "new" /\ RouteOf[r] = RouteOf[q]
          => \A p \in Requests : RouteOf[p] = RouteOf[r] => ~Active(p)
    BY <2>1, <2>4, DecodeAlone
  <2>6. \A p \in Requests : RouteOf[p] = RouteOf[q] /\ Active(p)' => p = q
    BY <2>3, <2>4, <2>5 DEF AloneInv
  <2>7. \A p \in Requests : RouteOf[p] \in Apis
    BY EngineAssumption DEF EngineAssumption
  <2>8. q # r => Active(q) /\ pc'[q] = pc[q]
    BY <2>1, <2>3, <2>4, PlaceStep
  <2>9. q # r => RouteOf[r] # RouteOf[q] \/ (~Active(r) /\ pc[r] # "new")
    BY <2>4, <2>5, <2>8 DEF AloneInv
  <2>10. pc[r] # "done"
    BY <2>1, PlaceStep
  <2>11. q # r => RouteOf[r] # RouteOf[q]
    BY <2>9, <2>10 DEF Active
  <2>12. mc'[RouteOf[q]] = q
    <3>1. \/ pc[r] = "new" /\ mc' = [mc EXCEPT ![RouteOf[r]] = r]
          \/ pc[r] # "new" /\ mc' = mc
      BY <2>1, ShareStep
    <3>2. mc \in [Apis -> Requests \cup {Nobody}]
      BY DEF TypeOK
    <3>3. CASE q = r
      BY <2>3, <2>4, <2>7, <3>1, <3>2, <3>3 DEF AloneInv, Active
    <3>4. CASE q # r
      <4>1. mc'[RouteOf[q]] = mc[RouteOf[q]]
        BY <2>7, <2>11, <3>1, <3>2, <3>4
      <4>2. QED
        BY <2>4, <2>8, <3>4, <4>1 DEF AloneInv
    <3>5. QED
      BY <3>3, <3>4
  <2>13. ASSUME pc'[q] \in {"before", "traceAfter"}
         PROVE  span'[RouteOf[q]] = q
    <3>1. span \in [Apis -> Requests \cup {Nobody}]
      BY DEF TypeOK
    <3>2. CASE q = r /\ pc[r] = "before"
      <4>1. span' = span
        BY <2>1, <3>2, ShareStep
      <4>2. QED
        BY <2>4, <3>2, <4>1 DEF AloneInv, Active
    <3>3. CASE q = r /\ pc[r] # "before"
      <4>1. pc'[r] = "before"
        BY <2>1, <2>13, <3>3, AfterBefore
      <4>2. span' = [span EXCEPT ![RouteOf[r]] = r]
        BY <2>1, <3>3, <4>1, ShareStep
      <4>3. QED
        BY <2>7, <3>1, <3>3, <4>2
    <3>4. CASE q # r
      <4>1. span' = span \/ span' = [span EXCEPT ![RouteOf[r]] = r]
        BY <2>1, ShareStep
      <4>2. span'[RouteOf[q]] = span[RouteOf[q]]
        BY <2>7, <2>11, <3>1, <3>4, <4>1
      <4>3. QED
        BY <2>4, <2>8, <2>13, <3>4, <4>2 DEF AloneInv
    <3>5. QED
      BY <3>2, <3>3, <3>4
  <2>14. QED
    BY <2>6, <2>12, <2>13
<1>3. QED
  BY <1>1, <1>2

\* What the requests of a route share, in the initial states.
LEMMA ShareInit == Init => ShareInv
<1> SUFFICES ASSUME Init PROVE ShareInv
  OBVIOUS
<1>1. TypeOK
  <2>1. /\ 0 \in 0..Hooks
        /\ <<>> \in Seq([from : Requests, what : Whats])
        /\ 200 \in Statuses
    BY EngineAssumption DEF EngineAssumption, Statuses
  <2>2. bound \in [Requests -> BOOLEAN] /\ handled \in [Requests -> BOOLEAN]
    BY DEF Init
  <2>3. QED
    BY <2>1, <2>2 DEF Init, TypeOK
<1>2. ContextInv
  BY EngineAssumption DEF Init, ContextInv, EngineAssumption
<1>3. AloneInv
  BY DEF Init, AloneInv, Active
<1>4. QED
  BY <1>1, <1>2, <1>3 DEF ShareInv

\* The types of every variable, and what the RestApi of a route holds for the
\* requests that share it: a decoded request finds a Mcontext, and one that
\* started its span finds a span; when requests come one at a time, its own.
THEOREM ShareTheorem == Spec => []ShareInv
<1>1. ShareInv /\ [Next]_vars => ShareInv'
  BY TypeStep, ContextStep, AloneStep DEF ShareInv
<1>2. QED
  BY <1>1, ShareInit, PTL DEF Spec

\* The types of the variables of RestEngine.
THEOREM TypeTheorem == Spec => []TypeOK
BY ShareTheorem, PTL DEF ShareInv

-----------------------------------------------------------------------------
(* What one request does to the responses *)

\* What a step of r writes, where in ServeHTTP, and to whose response.
Writes(r) ==
  \/ UNCHANGED answerVars
  \/ /\ pc[r] \in {"before", "after"} /\ pc'[r] \in {pc[r], "return"}
     /\ \/ WriteContext(r, r, "abort", 401)
        \/ WriteRaw(r, r, "bytes")
        \/ WriteStatus(r, "denial", 403)
  \/ /\ pc[r] = "before" /\ pc'[r] \in {"traceAfter", "error", "return"} /\ mode'[r] = "render"
     /\ \E s \in {200, 404} : WriteContext(r, r, "render", s)
  \/ /\ pc[r] = "encodeRender" /\ pc'[r] = "return" /\ mode[mc[RouteOf[r]]] # "render"
     /\ WriteRaw(r, r, "finish")
  \/ /\ pc[r] = "encodeWrite" /\ pc'[r] = "return"
     /\ WriteContext(r, mc[RouteOf[r]], "context", 200)
  \/ /\ pc[r] = "error" /\ pc'[r] = "return"
     /\ WriteRaw(r, r, "error") \/ \E s \in {400, 500} : WriteStatus(r, "refusal", s)

\* Every step of r writes so.
LEMMA StepWrites ==
  ASSUME TypeOK, NEW r \in Requests, Serve(r)
  PROVE  Writes(r)
<1>1. /\ pc \in [Requests -> Labels]
      /\ mode \in [Requests -> Modes]
  BY DEF TypeOK, Labels, Modes
<1>2. CASE UNCHANGED answerVars
  BY <1>2 DEF Writes
<1>3. CASE (Before(r) \/ After(r)) /\ HookWrites(r)
  <2>1. pc[r] \in {"before", "after"} /\ pc'[r] \in {pc[r], "return", "encode"}
    BY <1>1, <1>3 DEF Before, After, Goto
  <2>2. pc'[r] = "encode" => UNCHANGED answerVars
    BY <1>1, <1>3 DEF Before, After, Goto
  <2>3. QED
    BY <1>2, <1>3, <2>1, <2>2 DEF HookWrites, Writes
<1>4. CASE Endpoint(r)
  BY <1>1, <1>2, <1>4 DEF Endpoint, Writes, Goto
<1>5. CASE EncodeRender(r)
  BY <1>1, <1>2, <1>5 DEF EncodeRender, Writes, Goto
<1>6. CASE EncodeWrite(r)
  BY <1>1, <1>2, <1>6 DEF EncodeWrite, Writes, Goto
<1>7. CASE ErrorEncoder(r)
  BY <1>1, <1>7 DEF ErrorEncoder, Writes, Goto
<1>8. QED
  BY <1>2, <1>3, <1>4, <1>5, <1>6, <1>7
     DEF Serve, Decode, TraceBefore, Before, TraceAfter, After, EncodeContext, EncodeType, Finalize

-----------------------------------------------------------------------------
(* The status that the finalizers are given *)

\* What a sequence of items is after one more.
LEMMA OneMore ==
  ASSUME NEW s \in Seq(Items), NEW e \in Items
  PROVE  /\ DOMAIN Append(s, e) = DOMAIN s \cup {Len(s) + 1}
         /\ Len(s) + 1 \notin DOMAIN s
         /\ Append(s, e)[Len(s) + 1] = e
         /\ \A i \in DOMAIN s : Append(s, e)[i] = s[i]
OBVIOUS

\* What is written through a Mcontext, and what sends a status past it.
Contextual == {"abort", "render", "context"}
Headers == {"denial", "refusal"}

\* interceptingWriter begins with 200 and has the status that was sent, unless
\* several were given; a Mcontext that has written has written its header.
StatusOf(q) ==
  /\ sent[q] = 0 <=> out[q] = <<>>
  /\ sent[q] = 0 => ~bound[q] /\ code[q] = 200
  /\ \A i \in DOMAIN out[q] : out[q][i].what \in Contextual => bound[q]
  /\ sent[q] # 0 /\ Exchange!OneStatus(out[q]) => code[q] = sent[q]

StatusInv == \A q \in Requests : StatusOf(q)

\* Nothing was sent, and interceptingWriter begins with 200.
LEMMA StatusInit == Init => StatusInv
BY DEF Init, StatusInv, StatusOf

\* The writes that keep StatusOf: bytes, a write through the Mcontext, and a
\* status past it.
Gives(r, t, what, status) ==
  \/ WriteRaw(r, t, what) /\ what \notin Contextual
  \/ WriteContext(r, t, what, status) /\ what \in Contextual
  \/ t = r /\ WriteStatus(r, what, status) /\ what \in Headers

\* One more write keeps what is known of a response's status.
LEMMA StatusAppend ==
  ASSUME AnswerTyped, NEW r \in Requests, NEW t \in Requests,
         NEW what \in Whats, NEW status \in Statuses,
         Gives(r, t, what, status), StatusOf(t)
  PROVE  StatusOf(t)'
<1> DEFINE e == [from |-> r, what |-> what]
<1> DEFINE n == Len(out[t]) + 1
<1>1. out[t] \in Seq(Items) /\ e \in Items
  BY DEF AnswerTyped, Items
<1>2. out'[t] = Append(out[t], e)
  BY DEF Gives, WriteRaw, WriteContext, WriteStatus, AnswerTyped
<1>3. /\ DOMAIN out'[t] = DOMAIN out[t] \cup {n}
      /\ n \notin DOMAIN out[t]
      /\ out'[t][n].what = what
      /\ \A i \in DOMAIN out[t] : out'[t][i] = out[t][i]
  BY <1>1, <1>2, OneMore
<1>4. /\ out'[t] # <<>>
      /\ out[t] = <<>> => n = 1
      /\ out[t] # <<>> => 1 \in DOMAIN out[t] /\ n # 1
  BY <1>1, <1>2
<1>5. Exchange!OneStatus(out'[t]) => Exchange!OneStatus(out[t])
  BY <1>3, <1>4 DEF Exchange!OneStatus
<1>6. Exchange!OneStatus(out'[t]) /\ n # 1
        => /\ what \notin Headers
           /\ what \in Contextual => out[t][1].what \in Contextual
  BY <1>3, <1>4 DEF Exchange!OneStatus, Headers, Contextual
<1>7. 0 \notin Statuses /\ 200 \in Statuses
  BY DEF Statuses
<1> HIDE DEF n, e
<1>8. CASE WriteRaw(r, t, what) /\ what \notin Contextual
  <2>1. /\ sent'[t] = IF sent[t] = 0 THEN 200 ELSE sent[t]
        /\ code'[t] = code[t] /\ bound'[t] = bound[t]
    BY <1>8 DEF WriteRaw, AnswerTyped
  <2>2. QED
    BY <1>3, <1>4, <1>5, <1>7, <1>8, <2>1 DEF StatusOf
<1>9. CASE WriteContext(r, t, what, status) /\ what \in Contextual
  <2>1. /\ sent'[t] = IF sent[t] = 0 THEN status ELSE sent[t]
        /\ code'[t] = IF bound[t] THEN code[t] ELSE status
        /\ bound'[t] = TRUE
    BY <1>9 DEF WriteContext, AnswerTyped
  <2>2. CASE out[t] = <<>>
    BY <1>4, <1>7, <2>1, <2>2 DEF StatusOf
  <2>3. CASE out[t] # <<>>
    <3>1. /\ sent[t] # 0 /\ sent'[t] = sent[t]
          /\ Exchange!OneStatus(out'[t]) /\ what \in Contextual => code'[t] = sent[t]
      BY <1>4, <1>5, <1>6, <2>1, <2>3 DEF StatusOf
    <3>2. QED
      BY <1>4, <1>9, <2>1, <3>1 DEF StatusOf
  <2>4. QED
    BY <2>2, <2>3
<1>10. CASE t = r /\ WriteStatus(r, what, status) /\ what \in Headers
  <2>1. /\ sent'[t] = IF sent[t] = 0 THEN status ELSE sent[t]
        /\ code'[t] = status /\ bound'[t] = bound[t]
    BY <1>10 DEF WriteStatus, AnswerTyped
  <2>2. what \notin Contextual
    BY <1>10 DEF Headers, Contextual
  <2>3. CASE out[t] = <<>>
    BY <1>3, <1>4, <1>7, <2>1, <2>2, <2>3 DEF StatusOf
  <2>4. CASE out[t] # <<>>
    BY <1>3, <1>4, <1>6, <1>7, <1>10, <2>1, <2>2, <2>4 DEF StatusOf
  <2>5. QED
    BY <2>3, <2>4
<1>11. QED
  BY <1>8, <1>9, <1>10 DEF Gives

\* A step keeps StatusInv.
LEMMA StatusStep ==
  ASSUME ShareInv, StatusInv, [Next]_vars
  PROVE  StatusInv'
<1>1. CASE UNCHANGED vars
  BY <1>1 DEF StatusInv, StatusOf, vars
<1>2. CASE Next
  <2>1. PICK r \in Requests : Serve(r)
    BY <1>2 DEF Next
  <2>2. TypeOK /\ ContextInv /\ AnswerTyped
    BY DEF ShareInv, TypeOK, AnswerTyped, Items
  <2>3. CASE UNCHANGED answerVars
    BY <2>3 DEF StatusInv, StatusOf, answerVars
  <2>4. ASSUME NEW t \in Requests, NEW what \in Whats, NEW status \in Statuses,
               Gives(r, t, what, status)
        PROVE  StatusInv'
    <3>1. \A q \in Requests \ {t} :
            /\ out'[q] = out[q] /\ sent'[q] = sent[q]
            /\ code'[q] = code[q] /\ bound'[q] = bound[q]
      BY <2>2, <2>4 DEF Gives, WriteRaw, WriteContext, WriteStatus, AnswerTyped
    <3>2. StatusOf(t)'
      BY <2>2, <2>4, StatusAppend DEF StatusInv
    <3>3. QED
      BY <3>1, <3>2 DEF StatusInv, StatusOf
  <2> USE DEF Whats, Statuses, Contextual, Headers, Gives
  <2>5. CASE \/ WriteContext(r, r, "abort", 401) \/ WriteRaw(r, r, "bytes")
             \/ WriteStatus(r, "denial", 403)
    BY <2>4, <2>5
  <2>6. CASE \E s \in {200, 404} : WriteContext(r, r, "render", s)
    BY <2>4, <2>6
  <2>7. CASE WriteRaw(r, r, "finish")
    BY <2>4, <2>7
  <2>8. CASE pc[r] = "encodeWrite" /\ WriteContext(r, mc[RouteOf[r]], "context", 200)
    <3>1. mc[RouteOf[r]] \in Requests
      BY <2>2, <2>8 DEF ContextInv
    <3>2. QED
      BY <2>4, <2>8, <3>1
  <2>9. CASE WriteRaw(r, r, "error") \/ \E s \in {400, 500} : WriteStatus(r, "refusal", s)
    BY <2>4, <2>9
  <2>10. Writes(r)
    BY <2>1, <2>2, StepWrites
  <2>11. QED
    BY <2>3, <2>5, <2>6, <2>7, <2>8, <2>9, <2>10 DEF Writes
<1>3. QED
  BY <1>1, <1>2

\* FinalizersSeeStatus: on any route, however its requests are mixed up, and
\* with any of the hooks and encoders, the code that the finalizers are given
\* is the status that was sent if the response was given one status.
THEOREM FinalizersSeeStatusTheorem == Spec => []FinalizersSeeStatus
<1>1. StatusInv => FinalizersSeeStatus
  BY DEF StatusInv, StatusOf, FinalizersSeeStatus
<1>2. ShareInv /\ StatusInv /\ [Next]_vars => StatusInv'
  BY StatusStep
<1>3. QED
  BY <1>1, <1>2, StatusInit, ShareTheorem, PTL DEF Spec

-----------------------------------------------------------------------------
(* Whose response a request writes *)

\* No route lets its requests mix their Mcontexts in writing: it is given one
\* at a time, or no service method of it sets useContextWriter.
WritesApart == \A k \in Kinds : k.oneAtATime \/ "context" \notin k.modes

\* Only a route with a method that sets useContextWriter gets to write through
\* the Mcontext of the RestApi.
OwnInv ==
  /\ OwnResponse
  /\ \A r \in Requests :
       pc[r] \in {"encodeType", "encodeWrite"} => "context" \in kind[RouteOf[r]].modes

\* A step of r writes at most one item, which is r's; on a route that WritesApart
\* speaks of, to r's own response.
LEMMA OwnWrite ==
  ASSUME WritesApart, ShareInv, OwnInv, NEW r \in Requests, Serve(r)
  PROVE  \/ UNCHANGED answerVars
         \/ \E what \in Whats :
              out' = [out EXCEPT ![r] = Append(@, [from |-> r, what |-> what])]
<1>1. TypeOK /\ Writes(r)
  BY StepWrites DEF ShareInv
<1>2. CASE pc[r] = "encodeWrite"
  <2>1. "context" \in kind[RouteOf[r]].modes
    BY <1>2 DEF OwnInv
  <2>2. kind[RouteOf[r]] \in Kinds
    BY <1>1, EngineAssumption DEF EngineAssumption, TypeOK
  <2>3. mc[RouteOf[r]] = r
    BY <1>2, <2>1, <2>2 DEF WritesApart, ShareInv, AloneInv, Active
  <2>4. QED
    BY <1>1, <1>2, <2>3 DEF Writes, WriteContext, Whats
<1>3. CASE pc[r] # "encodeWrite"
  BY <1>1, <1>3 DEF Writes, WriteContext, WriteRaw, WriteStatus, Whats
<1>4. QED
  BY <1>2, <1>3

\* useContextWriter is only consulted once.
LEMMA ToEncodeType ==
  ASSUME TypeOK, NEW r \in Requests, Serve(r), pc[r] # "encodeType",
         pc'[r] \in {"encodeType", "encodeWrite"}
  PROVE  EncodeContext(r) /\ mode[mc[RouteOf[r]]] = "context"
<1>1. pc \in [Requests -> Labels]
  BY DEF TypeOK, Labels
<1>2. CASE EncodeContext(r)
  BY <1>1, <1>2 DEF EncodeContext, Goto
<1>3. CASE ~EncodeContext(r)
  BY <1>1, <1>3 DEF Goto, Labels, Serve, Decode, TraceBefore, Before, Endpoint, TraceAfter,
       After, EncodeRender, EncodeType, EncodeWrite, ErrorEncoder, Finalize
<1>4. QED
  BY <1>2, <1>3

\* A step keeps OwnInv.
LEMMA OwnStep ==
  ASSUME WritesApart, ShareInv, OwnInv, [Next]_vars
  PROVE  OwnInv'
<1>1. CASE UNCHANGED vars
  BY <1>1 DEF OwnInv, OwnResponse, vars
<1>2. CASE Next
  <2>1. PICK r \in Requests : Serve(r)
    BY <1>2 DEF Next
  <2>2. TypeOK /\ ContextInv /\ kind' = kind
    BY <1>2 DEF Next, ShareInv
  <2>3. out \in [Requests -> Seq(Items)]
    BY <2>2 DEF TypeOK, Items
  <2>4. OwnResponse'
    <3>1. CASE UNCHANGED answerVars
      BY <3>1 DEF OwnInv, OwnResponse, answerVars
    <3>2. ASSUME NEW what, out' = [out EXCEPT ![r] = Append(@, [from |-> r, what |-> what])]
          PROVE  OwnResponse'
      <4>1. \A q \in Requests \ {r} : out'[q] = out[q]
        BY <2>3, <3>2
      <4>2. out'[r] = Append(out[r], [from |-> r, what |-> what])
        BY <2>3, <3>2
      <4>3. \A i \in DOMAIN out'[r] : out'[r][i].from = r
        BY <2>3, <4>2 DEF OwnInv, OwnResponse
      <4>4. QED
        BY <4>1, <4>3 DEF OwnInv, OwnResponse
    <3>3. QED
      BY <2>1, <3>1, <3>2, OwnWrite
  <2>5. ASSUME NEW q \in Requests, pc'[q] \in {"encodeType", "encodeWrite"}
        PROVE  "context" \in kind[RouteOf[q]].modes
    <3>1. CASE q # r
      BY <2>1, <2>2, <2>5, <3>1, PlaceStep DEF OwnInv
    <3>2. CASE q = r /\ pc[r] = "encodeType"
      BY <3>2 DEF OwnInv
    <3>3. CASE q = r /\ pc[r] # "encodeType"
      <4>1. EncodeContext(r) /\ mode[mc[RouteOf[r]]] = "context"
        BY <2>1, <2>2, <2>5, <3>3, ToEncodeType
      <4>2. mc[RouteOf[r]] \in Requests
        BY <2>2, <4>1 DEF EncodeContext, ContextInv
      <4>3. RouteOf[mc[RouteOf[r]]] = RouteOf[r]
        BY <2>2, <4>2, EngineAssumption DEF ContextInv, EngineAssumption
      <4>4. QED
        BY <2>2, <3>3, <4>1, <4>2, <4>3 DEF ContextInv
    <3>4. QED
      BY <3>1, <3>2, <3>3
  <2>6. QED
    BY <2>2, <2>4, <2>5 DEF OwnInv
<1>3. QED
  BY <1>1, <1>2

\* OwnInv is an invariant where no route mixes the Mcontexts in writing.
LEMMA OwnTheorem ==
  ASSUME WritesApart
  PROVE  Spec => []OwnInv
<1>1. Init => OwnInv
  BY DEF Init, OwnInv, OwnResponse
<1>2. WritesApart /\ ShareInv /\ OwnInv /\ [Next]_vars => OwnInv'
  BY OwnStep
<1>3. QED
  BY <1>1, <1>2, ShareTheorem, PTL DEF Spec

\* OwnResponse: what the client of a request receives was written for that
\* request, when every route is given one request at a time or has no method
\* that answers with useContextWriter.  Without the assumption it is false.
THEOREM OwnResponseTheorem ==
  ASSUME WritesApart
  PROVE  Spec => []OwnResponse
BY OwnTheorem, PTL DEF OwnInv

\* NothingAfterFinalizers: under the same assumption, nothing is written to the
\* response of a request once its finalizers have run.
THEOREM NothingAfterFinalizersTheorem ==
  ASSUME WritesApart
  PROVE  Spec => NothingAfterFinalizers
<1>1. ASSUME ShareInv, OwnInv, [Next]_vars, NEW q \in Requests, pc[q] = "done"
      PROVE  out'[q] = out[q]
  <2>1. CASE UNCHANGED vars
    BY <2>1 DEF vars
  <2>2. CASE Next
    <3>1. PICK r \in Requests : Serve(r)
      BY <2>2 DEF Next
    <3>2. TypeOK
      BY <1>1 DEF ShareInv
    <3>3. q # r
      BY <1>1, <3>1, <3>2, PlaceStep
    <3>4. out \in [Requests -> Seq(Items)]
      BY <3>2 DEF TypeOK, Items
    <3>5. QED
      BY <1>1, <3>1, <3>3, <3>4, OwnWrite DEF answerVars
  <2>3. QED
    BY <1>1, <2>1, <2>2
<1>2. ShareInv /\ OwnInv /\ [Next]_vars
        => [\A r \in Requests : pc[r] = "done" => out'[r] = out[r]]_vars
  BY <1>1
<1>3. Spec => []OwnInv
  BY OwnTheorem, PTL
<1>4. Spec => []ShareInv /\ [][Next]_vars
  BY ShareTheorem, PTL DEF Spec
<1>5. QED
  BY <1>2, <1>3, <1>4, PTL DEF NothingAfterFinalizers

-----------------------------------------------------------------------------
(* How a request is answered *)

\* No route lets its requests mix their Mcontexts at all: it is given one at a
\* time, or its methods leave the answer to EncodeResponse.
ReadsApart == \A k \in Kinds : k.oneAtATime \/ k.modes \subseteq {"plain"}

\* The places before the endpoint has answered, those after the last answer, and
\* the items that are answers.
Early == {"new", "traceBefore", "before"}
Late == {"return", "done"}
Answers == {"finish", "context", "render"}

\* What was written for q by the place ServeHTTP has reached and by the way the
\* method answers: a rendered answer is written by the endpoint and no other
\* follows, the others are the last thing that is written but for one error.
AnswerOf(q) ==
  /\ \A i, j \in DOMAIN out[q] :
       out[q][i].what \in Answers /\ out[q][j].what \in Answers => i = j
  /\ \A i \in DOMAIN out[q] :
       /\ out[q][i].what = "render" => mode[q] = "render" /\ pc[q] \notin Early
       /\ out[q][i].what = "finish" => mode[q] # "render" /\ pc[q] \in Late
       /\ out[q][i].what = "context" => mode[q] = "context" /\ pc[q] \in Late
       /\ out[q][i].what \in {"error", "refusal"} => pc[q] \in Late
  /\ ~(Wrote(q, "finish") /\ Failed(q))
  /\ pc[q] \in {"encodeType", "encodeWrite"} => mode[q] = "context"

AnswerInv == \A q \in Requests : AnswerOf(q)

\* Where requests do not mix, EncodeResponse reads the request's own flags.
LEMMA OwnMode ==
  ASSUME ReadsApart, ShareInv, NEW r \in Requests, pc[r] \notin {"new", "done"}
  PROVE  mode[mc[RouteOf[r]]] = mode[r]
<1>1. TypeOK /\ ContextInv /\ AloneInv
  BY DEF ShareInv
<1>2. kind[RouteOf[r]] \in Kinds /\ RouteOf[r] \in Apis
  BY <1>1, EngineAssumption DEF EngineAssumption, TypeOK
<1>3. CASE kind[RouteOf[r]].oneAtATime
  BY <1>1, <1>3 DEF AloneInv, Active
<1>4. CASE kind[RouteOf[r]].modes \subseteq {"plain"}
  <2>1. mc[RouteOf[r]] \in Requests
    BY <1>1 DEF ContextInv
  <2>2. RouteOf[mc[RouteOf[r]]] = RouteOf[r]
    BY <1>1, <1>2, <2>1 DEF ContextInv
  <2>3. mode[mc[RouteOf[r]]] = "plain" /\ mode[r] = "plain"
    BY <1>1, <1>4, <2>1, <2>2 DEF ContextInv
  <2>4. QED
    BY <2>3
<1>5. QED
  BY <1>2, <1>3, <1>4 DEF ReadsApart

\* Routes whose requests do not mix their Mcontexts do not write through them.
LEMMA ReadsThenWrites == ReadsApart => WritesApart
BY DEF ReadsApart, WritesApart

\* mode is written by the endpoint, and by nothing else.
LEMMA ModeStep ==
  ASSUME TypeOK, NEW r \in Requests, Serve(r)
  PROVE  mode' = mode \/ pc[r] = "before"
BY DEF TypeOK, Goto, Serve, Decode, TraceBefore, Before, Endpoint, TraceAfter, After,
       EncodeContext, EncodeRender, EncodeType, EncodeWrite, ErrorEncoder, Finalize

\* ServeHTTP does not go back.
LEMMA Forward ==
  ASSUME TypeOK, NEW r \in Requests, Serve(r)
  PROVE  /\ pc[r] \notin Early => pc'[r] \notin Early
         /\ pc[r] \in Late => pc'[r] \in Late
         /\ pc[r] = "encodeType" => pc'[r] \in {"encodeWrite", "return"}
<1>1. pc \in [Requests -> Labels]
  BY DEF TypeOK, Labels
<1>2. QED
  BY <1>1 DEF Early, Late, Goto, Labels, Serve, Decode, TraceBefore, Before, Endpoint, TraceAfter,
       After, EncodeContext, EncodeRender, EncodeType, EncodeWrite, ErrorEncoder, Finalize

\* A step of r keeps what is known of r's answers.
LEMMA AnswerStepOwn ==
  ASSUME ReadsApart, ShareInv, OwnInv, NEW r \in Requests, Serve(r), AnswerOf(r)
  PROVE  AnswerOf(r)'
<1>1. TypeOK /\ ContextInv /\ WritesApart
  BY ReadsThenWrites DEF ShareInv
<1>2. /\ pc \in [Requests -> Labels]
      /\ out \in [Requests -> Seq(Items)]
      /\ mode \in [Requests -> Modes]
  BY <1>1 DEF TypeOK, Labels, Items, Modes
<1>3. mode' = mode \/ pc[r] = "before"
  BY <1>1, ModeStep
<1>4. /\ pc[r] \notin Early => pc'[r] \notin Early
      /\ pc[r] \in Late => pc'[r] \in Late
      /\ pc[r] = "encodeType" => pc'[r] \in {"encodeWrite", "return"}
  BY <1>1, Forward
<1>5. pc'[r] \in {"encodeType", "encodeWrite"} => mode'[r] = "context"
  <2>1. CASE pc[r] = "encodeType"
    BY <1>3, <2>1 DEF AnswerOf
  <2>2. CASE pc[r] # "encodeType" /\ pc'[r] \in {"encodeType", "encodeWrite"}
    <3>1. EncodeContext(r) /\ mode[mc[RouteOf[r]]] = "context"
      BY <1>1, <2>2, ToEncodeType
    <3>2. mode[r] = "context"
      BY <3>1, OwnMode DEF EncodeContext
    <3>3. QED
      BY <3>1, <3>2 DEF EncodeContext
  <2>3. QED
    BY <2>1, <2>2
<1>6. CASE UNCHANGED answerVars
  <2>1. out' = out
    BY <1>6 DEF answerVars
  <2>2. QED
    BY <1>3, <1>4, <1>5, <2>1 DEF AnswerOf, Wrote, Failed, Early, Late
<1>7. ASSUME NEW what \in Whats,
             out' = [out EXCEPT ![r] = Append(@, [from |-> r, what |-> what])],
             what \in Answers => \A i \in DOMAIN out[r] : out[r][i].what \notin Answers,
             what = "render" => pc[r] = "before" /\ pc'[r] \notin Early /\ mode'[r] = "render",
             what = "finish" => pc[r] = "encodeRender" /\ pc'[r] = "return" /\ mode'[r] # "render",
             what = "context" => pc[r] = "encodeWrite" /\ pc'[r] = "return" /\ mode'[r] = "context",
             what \in {"error", "refusal"} => pc[r] = "error" /\ pc'[r] = "return"
      PROVE  AnswerOf(r)'
  <2> DEFINE e == [from |-> r, what |-> what]
  <2> DEFINE n == Len(out[r]) + 1
  <2>1. e \in Items /\ e.what = what
    BY DEF Items
  <2>2. out'[r] = Append(out[r], e)
    BY <1>2, <1>7
  <2>3. /\ DOMAIN out'[r] = DOMAIN out[r] \cup {n}
        /\ out'[r][n] = e
        /\ \A i \in DOMAIN out[r] : out'[r][i] = out[r][i]
    BY <1>2, <2>1, <2>2, OneMore
  <2> HIDE DEF n, e
  <2>4. \A i, j \in DOMAIN out'[r] :
          out'[r][i].what \in Answers /\ out'[r][j].what \in Answers => i = j
    BY <1>7, <2>1, <2>3 DEF AnswerOf
  <2>5. \A i \in DOMAIN out'[r] :
          /\ out'[r][i].what = "render" => mode'[r] = "render" /\ pc'[r] \notin Early
          /\ out'[r][i].what = "finish" => mode'[r] # "render" /\ pc'[r] \in Late
          /\ out'[r][i].what = "context" => mode'[r] = "context" /\ pc'[r] \in Late
          /\ out'[r][i].what \in {"error", "refusal"} => pc'[r] \in Late
    BY <1>3, <1>4, <1>7, <2>1, <2>3 DEF AnswerOf, Early, Late, Answers
  <2>6. ~(Wrote(r, "finish") /\ Failed(r))'
    <3>1. \A i \in DOMAIN out[r] : what \in {"finish", "error", "refusal"} =>
            out[r][i].what \notin {"finish", "error", "refusal"}
      BY <1>7 DEF AnswerOf, Late
    <3>2. QED
      BY <1>7, <2>1, <2>3, <3>1 DEF AnswerOf, Wrote, Failed
  <2>7. QED
    BY <1>5, <2>4, <2>5, <2>6 DEF AnswerOf
<1>8. pc[r] \notin {"new", "done"} => mode[mc[RouteOf[r]]] = mode[r]
  BY OwnMode
<1>9. pc[r] = "encodeWrite" => mc[RouteOf[r]] = r
  <2>1. kind[RouteOf[r]] \in Kinds
    BY <1>1, EngineAssumption DEF EngineAssumption, TypeOK
  <2>2. QED
    BY <2>1, <1>1 DEF OwnInv, WritesApart, ShareInv, AloneInv, Active
<1>10. CASE \/ WriteContext(r, r, "abort", 401) \/ WriteRaw(r, r, "bytes")
            \/ WriteStatus(r, "denial", 403)
  <2>1. \E what \in {"abort", "bytes", "denial"} :
          out' = [out EXCEPT ![r] = Append(@, [from |-> r, what |-> what])]
    BY <1>10 DEF WriteContext, WriteRaw, WriteStatus
  <2>2. QED
    BY <1>7, <2>1 DEF Answers, Whats
<1>11. CASE /\ pc[r] = "before" /\ pc'[r] \in {"traceAfter", "error", "return"} /\ mode'[r] = "render"
            /\ \E s \in {200, 404} : WriteContext(r, r, "render", s)
  <2>1. \A i \in DOMAIN out[r] : out[r][i].what \notin Answers
    BY <1>11 DEF AnswerOf, Answers, Early, Late
  <2>2. out' = [out EXCEPT ![r] = Append(@, [from |-> r, what |-> "render"])]
    BY <1>11 DEF WriteContext
  <2>3. QED
    BY <1>7, <1>11, <2>1, <2>2 DEF Early, Whats
<1>12. CASE /\ pc[r] = "encodeRender" /\ pc'[r] = "return" /\ mode[mc[RouteOf[r]]] # "render"
            /\ WriteRaw(r, r, "finish")
  <2>1. mode'[r] = mode[r] /\ mode[r] # "render"
    BY <1>3, <1>8, <1>12
  <2>2. \A i \in DOMAIN out[r] : out[r][i].what \notin Answers
    BY <1>12, <2>1 DEF AnswerOf, Answers, Late
  <2>3. QED
    BY <1>7, <1>12, <2>1, <2>2 DEF WriteRaw, Whats
<1>13. CASE /\ pc[r] = "encodeWrite" /\ pc'[r] = "return"
            /\ WriteContext(r, mc[RouteOf[r]], "context", 200)
  <2>1. mode'[r] = mode[r] /\ mode[r] = "context"
    BY <1>3, <1>13 DEF AnswerOf
  <2>2. \A i \in DOMAIN out[r] : out[r][i].what \notin Answers
    BY <1>13, <2>1 DEF AnswerOf, Answers, Late
  <2>3. QED
    BY <1>7, <1>9, <1>13, <2>1, <2>2 DEF WriteContext, Whats
<1>14. CASE /\ pc[r] = "error" /\ pc'[r] = "return"
            /\ WriteRaw(r, r, "error") \/ \E s \in {400, 500} : WriteStatus(r, "refusal", s)
  <2>1. \E what \in {"error", "refusal"} :
          out' = [out EXCEPT ![r] = Append(@, [from |-> r, what |-> what])]
    BY <1>14 DEF WriteRaw, WriteStatus
  <2>2. QED
    BY <1>7, <1>14, <2>1 DEF Answers, Whats
<1>15. Writes(r)
  BY <1>1, StepWrites
<1>16. QED
  BY <1>6, <1>10, <1>11, <1>12, <1>13, <1>14, <1>15 DEF Writes

\* A step keeps AnswerInv.
LEMMA AnswerStep ==
  ASSUME ReadsApart, ShareInv, OwnInv, AnswerInv, [Next]_vars
  PROVE  AnswerInv'
<1>1. CASE UNCHANGED vars
  BY <1>1 DEF AnswerInv, AnswerOf, Wrote, Failed, vars
<1>2. CASE Next
  <2>1. PICK r \in Requests : Serve(r)
    BY <1>2 DEF Next
  <2>2. TypeOK /\ WritesApart
    BY ReadsThenWrites DEF ShareInv
  <2>3. AnswerOf(r)'
    BY <2>1, AnswerStepOwn DEF AnswerInv
  <2>4. ASSUME NEW q \in Requests \ {r}
        PROVE  AnswerOf(q)'
    <3>1. pc'[q] = pc[q] /\ mode'[q] = mode[q]
      BY <2>1, <2>2, PlaceStep
    <3>2. out'[q] = out[q]
      <4>1. out \in [Requests -> Seq(Items)]
        BY <2>2 DEF TypeOK, Items
      <4>2. QED
        BY <2>1, <2>2, <4>1, OwnWrite DEF answerVars
    <3>3. AnswerOf(q)
      BY DEF AnswerInv
    <3>4. QED
      BY <3>1, <3>2, <3>3 DEF AnswerOf, Wrote, Failed
  <2>5. QED
    BY <2>3, <2>4 DEF AnswerInv
<1>3. QED
  BY <1>1, <1>2

\* AnswerInv gives what AnsweredOnce says of a finished request.
LEMMA AnsweredByInv ==
  ASSUME TypeOK, AnswerInv
  PROVE  AnsweredOnce
<1> SUFFICES ASSUME NEW r \in Requests
             PROVE  /\ Cardinality({i \in DOMAIN out[r] : out[r][i].what \in Answers}) <= 1
                    /\ Wrote(r, "render") => mode[r] = "render" /\ ~Wrote(r, "finish")
                    /\ Wrote(r, "finish") => ~Failed(r)
  BY DEF AnsweredOnce, Answers
<1>1. AnswerOf(r)
  BY DEF AnswerInv
<1> DEFINE S == {i \in DOMAIN out[r] : out[r][i].what \in Answers}
<1>2. Cardinality(S) <= 1
  <2> HIDE DEF S
  <2>1. CASE S = {}
    BY <2>1, FS_EmptySet
  <2>2. CASE S # {}
    <3>1. PICK i : i \in S
      BY <2>2
    <3>2. S = {i}
      BY <1>1, <3>1 DEF AnswerOf, S
    <3>3. Cardinality({i}) = 1
      BY FS_Singleton
    <3>4. QED
      BY <3>2, <3>3
  <2>3. QED
    BY <2>1, <2>2
<1>3. QED
  BY <1>1, <1>2 DEF AnswerOf, Wrote

\* AnsweredOnce: where the requests of a route do not mix their Mcontexts, an
\* answer is written once: a rendered one is not encoded again, and an encoded
\* one is not followed by an error.
THEOREM AnsweredOnceTheorem ==
  ASSUME ReadsApart
  PROVE  Spec => []AnsweredOnce
<1>1. Init => AnswerInv
  BY DEF Init, AnswerInv, AnswerOf, Wrote, Failed
<1>2. ShareInv /\ OwnInv /\ AnswerInv /\ [Next]_vars => AnswerInv'
  BY AnswerStep
<1>3. ShareInv /\ AnswerInv => AnsweredOnce
  BY AnsweredByInv DEF ShareInv
<1>4. Spec => []OwnInv
  BY ReadsThenWrites, OwnTheorem
<1>5. QED
  BY <1>1, <1>2, <1>3, <1>4, ShareTheorem, PTL DEF Spec

\* The endpoint is called after the before hooks.
PlainInv ==
  /\ \A r \in Requests : pc[r] \in Early => ~handled[r]
  /\ PlainIsAnswered

\* A step of r that appends an item to out[r] has r write it.
LEMMA Written ==
  ASSUME TypeOK, NEW r \in Requests,
         NEW what \in {"finish", "error", "refusal"},
         WriteRaw(r, r, what) \/ \E s \in Statuses : WriteStatus(r, what, s)
  PROVE  Wrote(r, what)'
<1> DEFINE e == [from |-> r, what |-> what]
<1>1. out \in [Requests -> Seq(Items)] /\ e \in Items
  BY DEF TypeOK, Items, Whats
<1>2. out'[r] = Append(out[r], e)
  BY <1>1 DEF WriteRaw, WriteStatus
<1>3. Len(out[r]) + 1 \in DOMAIN out'[r] /\ out'[r][Len(out[r]) + 1] = e
  BY <1>1, <1>2, OneMore
<1>4. QED
  BY <1>3 DEF Wrote

\* A step keeps PlainInv.
LEMMA PlainStep ==
  ASSUME ReadsApart, ShareInv, OwnInv, AnswerInv, PlainInv, [Next]_vars
  PROVE  PlainInv'
<1>1. CASE UNCHANGED vars
  BY <1>1 DEF PlainInv, PlainIsAnswered, Wrote, Failed, vars
<1>2. CASE Next
  <2>1. PICK r \in Requests : Serve(r)
    BY <1>2 DEF Next
  <2>2. TypeOK /\ ContextInv /\ WritesApart
    BY ReadsThenWrites DEF ShareInv
  <2>3. /\ pc \in [Requests -> Labels]
        /\ out \in [Requests -> Seq(Items)]
        /\ mode \in [Requests -> Modes]
        /\ handled \in [Requests -> BOOLEAN]
        /\ hook \in [Requests -> 0..Hooks]
    BY <2>2 DEF TypeOK, Labels, Items, Modes
  <2>4. \A q \in Requests \ {r} :
          /\ pc'[q] = pc[q] /\ hook'[q] = hook[q]
          /\ handled'[q] = handled[q] /\ mode'[q] = mode[q]
    BY <2>1, <2>2, PlaceStep
  <2>5. \A q \in Requests \ {r} : out'[q] = out[q]
    BY <2>1, <2>2, <2>3, OwnWrite DEF answerVars
  <2>6. ASSUME pc'[r] \in Early
        PROVE  ~handled'[r]
    <3>1. pc[r] \in Early
      BY <2>1, <2>2, <2>6, Forward
    <3>2. handled' = handled
      BY <2>1, <2>3, <2>6 DEF Early, Goto, Serve, Decode, TraceBefore, Before, Endpoint, TraceAfter,
           After, EncodeContext, EncodeRender, EncodeType, EncodeWrite, ErrorEncoder, Finalize
    <3>3. QED
      BY <3>1, <3>2 DEF PlainInv
  <2>7. ASSUME pc'[r] = "return", handled'[r], mode'[r] = "plain", hook'[r] = Hooks
        PROVE  (Wrote(r, "finish") \/ Failed(r))'
    <3>1. pc[r] \notin {"return", "done", "new", "traceBefore"}
      BY <2>1, <2>3, <2>7 DEF Goto, Serve, Decode, TraceBefore, Before, Endpoint, TraceAfter,
           After, EncodeContext, EncodeRender, EncodeType, EncodeWrite, ErrorEncoder, Finalize
    <3>2. mode[mc[RouteOf[r]]] = mode[r]
      BY <3>1, OwnMode
    <3>3. CASE Before(r)
      BY <2>3, <2>7, <3>1, <3>3 DEF Before, PlainInv, Early
    <3>4. CASE After(r)
      <4>1. Hooks \in Nat
        BY EngineAssumption DEF EngineAssumption
      <4>2. QED
        BY <2>3, <2>7, <3>1, <3>4, <4>1 DEF After, Goto
    <3>5. CASE EncodeRender(r)
      <4>1. mode[r] = "plain"
        BY <2>7, <3>5 DEF EncodeRender
      <4>2. WriteRaw(r, r, "finish")
        BY <2>3, <2>7, <3>2, <3>5, <4>1 DEF EncodeRender, Goto
      <4>3. QED
        BY <2>2, <4>2, Written
    <3>6. CASE EncodeType(r) \/ EncodeWrite(r)
      <4>1. mode[r] = "plain" /\ pc[r] \in {"encodeType", "encodeWrite"}
        BY <2>7, <3>6 DEF EncodeType, EncodeWrite
      <4>2. QED
        BY <4>1 DEF AnswerInv, AnswerOf
    <3>7. CASE ErrorEncoder(r)
      <4>1. WriteRaw(r, r, "error") \/ \E s \in Statuses : WriteStatus(r, "refusal", s)
        BY <3>7 DEF ErrorEncoder, Statuses
      <4>2. QED
        BY <2>2, <4>1, Written DEF Failed
    <3>8. CASE Endpoint(r)
      <4>1. pc[r] = "before" /\ handled' = handled
        BY <2>3, <2>7, <3>8 DEF Endpoint, Goto
      <4>2. QED
        BY <2>7, <4>1 DEF PlainInv, Early
    <3>9. QED
      BY <2>1, <2>3, <2>7, <3>1, <3>3, <3>4, <3>5, <3>6, <3>7, <3>8
         DEF Goto, Serve, Decode, TraceBefore, TraceAfter, EncodeContext, Finalize
  <2>8. \A q \in Requests : pc'[q] \in Early => ~handled'[q]
    BY <2>4, <2>6 DEF PlainInv
  <2>9. ASSUME NEW q \in Requests \ {r},
               pc'[q] = "return", handled'[q], mode'[q] = "plain", hook'[q] = Hooks
        PROVE  (Wrote(q, "finish") \/ Failed(q))'
    <3>1. Wrote(q, "finish") \/ Failed(q)
      BY <2>4, <2>9 DEF PlainInv, PlainIsAnswered
    <3>2. QED
      BY <2>5, <3>1 DEF Wrote, Failed
  <2>10. PlainIsAnswered'
    BY <2>7, <2>9 DEF PlainIsAnswered
  <2>11. QED
    BY <2>8, <2>10 DEF PlainInv
<1>3. QED
  BY <1>1, <1>2

\* PlainIsAnswered: where the requests of a route do not mix their Mcontexts, a
\* request whose endpoint and hooks succeeded, and whose method left the answer
\* to EncodeResponse, returns with the response or an encoding error written.
THEOREM PlainIsAnsweredTheorem ==
  ASSUME ReadsApart
  PROVE  Spec => []PlainIsAnswered
<1>1. Init => AnswerInv /\ PlainInv
  BY DEF Init, AnswerInv, AnswerOf, Wrote, Failed, PlainInv, PlainIsAnswered
<1>2. ShareInv /\ OwnInv /\ AnswerInv /\ PlainInv /\ [Next]_vars => AnswerInv' /\ PlainInv'
  BY AnswerStep, PlainStep
<1>3. PlainInv => PlainIsAnswered
  BY DEF PlainInv
<1>4. Spec => []OwnInv
  BY ReadsThenWrites, OwnTheorem
<1>5. QED
  BY <1>1, <1>2, <1>3, <1>4, ShareTheorem, PTL DEF Spec

-----------------------------------------------------------------------------
(* RestEngine implements HttpExchange *)

\* The places to which only the endpoint leads.
AfterCall == {"traceAfter", "after", "encode", "encodeRender", "encodeType", "encodeWrite"}

\* The response is encoded for a request whose endpoint has been called.
CalledInv == \A r \in Requests : pc[r] \in AfterCall => handled[r]

\* What the exchange of a request rests on.
ExchangeInv ==
  /\ ShareInv /\ OwnInv /\ StatusInv
  /\ AnswerInv /\ PlainInv /\ CalledInv

\* Which steps of r call the endpoint, and where the others can lead.
LEMMA CallsOnce ==
  ASSUME TypeOK, NEW r \in Requests, Serve(r)
  PROVE  /\ Endpoint(r) /\ pc'[r] # "return" => handled'[r] = TRUE
         /\ Endpoint(r) /\ pc'[r] = "return" => handled' = handled
         /\ ~Endpoint(r) => handled' = handled
         /\ ~Endpoint(r) /\ pc'[r] \in AfterCall => pc[r] \in AfterCall
<1>1. pc \in [Requests -> Labels] /\ handled \in [Requests -> BOOLEAN]
  BY DEF TypeOK, Labels
<1>2. CASE Endpoint(r)
  <2>1. CASE pc'[r] = "return"
    BY <1>1, <1>2, <2>1 DEF Endpoint, Goto
  <2>2. CASE pc'[r] # "return"
    <3>1. handled' = [handled EXCEPT ![r] = TRUE]
      BY <1>1, <1>2, <2>2 DEF Endpoint, Goto
    <3>2. handled'[r] = TRUE
      BY <1>1, <3>1, Zenon
    <3>3. QED
      BY <1>2, <2>2, <3>2
  <2>3. QED
    BY <2>1, <2>2
<1>3. ASSUME ~Endpoint(r)
      PROVE  handled' = handled /\ (pc'[r] \in AfterCall => pc[r] \in AfterCall)
  BY <1>1, <1>3 DEF AfterCall, Labels, Goto, Serve, Decode, TraceBefore, Before, TraceAfter,
       After, EncodeContext, EncodeRender, EncodeType, EncodeWrite, ErrorEncoder, Finalize
<1>4. QED
  BY <1>2, <1>3

\* A step keeps CalledInv.
LEMMA CalledStep ==
  ASSUME TypeOK, CalledInv, [Next]_vars
  PROVE  CalledInv'
<1>1. CASE UNCHANGED vars
  BY <1>1 DEF CalledInv, vars
<1>2. CASE Next
  <2>1. PICK r \in Requests : Serve(r)
    BY <1>2 DEF Next
  <2>2. \A q \in Requests \ {r} : pc'[q] = pc[q] /\ handled'[q] = handled[q]
    BY <2>1, PlaceStep
  <2>3. pc'[r] \in AfterCall => handled'[r]
    BY <2>1, CallsOnce DEF CalledInv, AfterCall
  <2>4. QED
    BY <2>2, <2>3 DEF CalledInv
<1>3. QED
  BY <1>1, <1>2

\* ExchangeInv is an invariant where the requests of a route do not mix.
LEMMA ExchangeTheorem ==
  ASSUME ReadsApart
  PROVE  Spec => []ExchangeInv
<1>1. Init => StatusInv /\ AnswerInv /\ PlainInv /\ CalledInv
  <2>1. Init => AnswerInv /\ PlainInv
    BY DEF Init, AnswerInv, AnswerOf, Wrote, Failed, PlainInv, PlainIsAnswered
  <2>2. Init => CalledInv
    BY DEF Init, CalledInv, AfterCall
  <2>3. QED
    BY <2>1, <2>2, StatusInit
<1>2. ShareInv /\ OwnInv /\ StatusInv /\ AnswerInv /\ PlainInv /\ CalledInv /\ [Next]_vars
        => StatusInv' /\ AnswerInv' /\ PlainInv' /\ CalledInv'
  BY StatusStep, AnswerStep, PlainStep, CalledStep DEF ShareInv
<1>3. Spec => []OwnInv
  BY ReadsThenWrites, OwnTheorem
<1>4. QED
  BY <1>1, <1>2, <1>3, ShareTheorem, PTL DEF Spec, ExchangeInv

\* What a step of r writes goes to r's response: the Mcontext that is read is r's.
OwnWrites(r, what, status) ==
  /\ out' = [out EXCEPT ![r] = Append(@, [from |-> r, what |-> what])]
  /\ sent' = [sent EXCEPT ![r] = IF @ = 0 THEN status ELSE @]

\* The steps that write, and what the others leave alone.
LEMMA WritesByAction ==
  ASSUME ReadsApart, ExchangeInv, NEW r \in Requests, Serve(r)
  PROVE  /\ HookWrites(r) => \/ UNCHANGED answerVars
                             \/ OwnWrites(r, "abort", 401)
                             \/ OwnWrites(r, "bytes", 200)
                             \/ OwnWrites(r, "denial", 403)
         /\ Endpoint(r) => \/ UNCHANGED answerVars
                           \/ \E s \in {200, 404} : OwnWrites(r, "render", s)
         /\ EncodeRender(r) => \/ UNCHANGED answerVars
                               \/ /\ mode[r] # "render" /\ pc'[r] = "return"
                                  /\ OwnWrites(r, "finish", 200)
         /\ EncodeWrite(r) => /\ pc'[r] = "return"
                              /\ OwnWrites(r, "context", 200) \/ UNCHANGED answerVars
         /\ ErrorEncoder(r) => /\ pc'[r] = "return"
                               /\ \/ OwnWrites(r, "error", 200)
                                  \/ \E s \in {400, 500} : OwnWrites(r, "refusal", s)
<1>1. TypeOK
  BY DEF ExchangeInv, ShareInv
<1>2. pc \in [Requests -> Labels]
  BY <1>1 DEF TypeOK, Labels
<1>3. HookWrites(r) => \/ UNCHANGED answerVars
                       \/ OwnWrites(r, "abort", 401)
                       \/ OwnWrites(r, "bytes", 200)
                       \/ OwnWrites(r, "denial", 403)
  BY DEF HookWrites, WriteContext, WriteRaw, WriteStatus, OwnWrites
<1>4. Endpoint(r) => \/ UNCHANGED answerVars
                     \/ \E s \in {200, 404} : OwnWrites(r, "render", s)
  BY DEF Endpoint, WriteContext, OwnWrites
<1>5. ASSUME EncodeRender(r)
      PROVE  \/ UNCHANGED answerVars
             \/ mode[r] # "render" /\ pc'[r] = "return" /\ OwnWrites(r, "finish", 200)
  <2>1. mode[mc[RouteOf[r]]] = mode[r]
    BY <1>5, OwnMode DEF EncodeRender, ExchangeInv
  <2>2. QED
    BY <1>2, <1>5, <2>1 DEF EncodeRender, WriteRaw, OwnWrites, Goto
<1>6. ASSUME EncodeWrite(r)
      PROVE  pc'[r] = "return" /\ (OwnWrites(r, "context", 200) \/ UNCHANGED answerVars)
  <2>1. kind[RouteOf[r]] \in Kinds
    BY <1>1, EngineAssumption DEF EngineAssumption, TypeOK
  <2>2. mc[RouteOf[r]] = r
    BY <1>6, <2>1, ReadsThenWrites
       DEF EncodeWrite, ExchangeInv, OwnInv, WritesApart, ShareInv, AloneInv, Active
  <2>3. QED
    BY <1>2, <1>6, <2>2 DEF EncodeWrite, WriteContext, OwnWrites, Goto
<1>7. ErrorEncoder(r) => /\ pc'[r] = "return"
                         /\ \/ OwnWrites(r, "error", 200)
                            \/ \E s \in {400, 500} : OwnWrites(r, "refusal", s)
  BY <1>2 DEF ErrorEncoder, WriteRaw, WriteStatus, OwnWrites, Goto
<1>8. QED
  BY <1>3, <1>4, <1>5, <1>6, <1>7

\* What a response has after one more item.
LEMMA HasMore ==
  ASSUME TypeOK, NEW r \in Requests, NEW status,
         NEW what \in Whats,
         OwnWrites(r, what, status), NEW S
  PROVE  Has(r, S)' <=> Has(r, S) \/ what \in S
<1> DEFINE e == [from |-> r, what |-> what]
<1>1. out \in [Requests -> Seq(Items)] /\ e \in Items
  BY DEF TypeOK, Items
<1>2. out'[r] = Append(out[r], e)
  BY <1>1 DEF OwnWrites
<1>3. /\ DOMAIN out'[r] = DOMAIN out[r] \cup {Len(out[r]) + 1}
      /\ out'[r][Len(out[r]) + 1] = e
      /\ \A i \in DOMAIN out[r] : out'[r][i] = out[r][i]
  BY <1>1, <1>2, OneMore
<1>4. e.what = what
  OBVIOUS
<1> HIDE DEF e
<1>5. QED
  BY <1>3, <1>4 DEF Has

\* How far an exchange has come, at the places of ServeHTTP.
LEMMA Stages ==
  ASSUME ExchangeInv, NEW r \in Requests
  PROVE  /\ pc[r] \notin Late => ~Has(r, {"finish", "context", "error", "refusal"})
         /\ pc[r] \in Early => ~Has(r, {"render"}) /\ ~handled[r]
         /\ mode[r] # "render" => ~Has(r, {"render"})
<1>1. AnswerOf(r) /\ (pc[r] \in Early => ~handled[r])
  BY DEF ExchangeInv, AnswerInv, PlainInv
<1>2. QED
  BY <1>1 DEF AnswerOf, Has

\* A step of r moves the exchange of r alone, and the finalizers run at its end.
LEMMA ExchangeMoves ==
  ASSUME ReadsApart, ExchangeInv, NEW r \in Requests, Serve(r)
  PROVE  /\ stageBar' = [stageBar EXCEPT ![r] = StageOf(r)']
         /\ pc'[r] # "done" => reportedBar' = reportedBar
         /\ pc'[r] = "done" => reportedBar' = [reportedBar EXCEPT ![r] = code'[r]]
<1>1. TypeOK /\ WritesApart
  BY ReadsThenWrites DEF ExchangeInv, ShareInv
<1>2. \A q \in Requests \ {r} : pc'[q] = pc[q] /\ handled'[q] = handled[q]
  BY <1>1, PlaceStep
<1>3. pc[r] # "done"
  BY <1>1, PlaceStep
<1>4. /\ out \in [Requests -> Seq(Items)]
      /\ code \in [Requests -> Statuses]
  BY <1>1 DEF TypeOK, Items
<1>5. \A q \in Requests \ {r} : out'[q] = out[q]
  <2>1. ShareInv /\ OwnInv
    BY DEF ExchangeInv
  <2>2. \/ UNCHANGED answerVars
        \/ \E what \in Whats :
             out' = [out EXCEPT ![r] = Append(@, [from |-> r, what |-> what])]
    BY <1>1, <2>1, OwnWrite
  <2>3. QED
    BY <1>4, <2>2 DEF answerVars
<1>6. \A q \in Requests \ {r} : StageOf(q)' = StageOf(q)
  BY <1>2, <1>5 DEF StageOf, Has
<1>7. stageBar' = [stageBar EXCEPT ![r] = StageOf(r)']
  BY <1>6 DEF stageBar
<1>8. \A q \in Requests \ {r} : code'[q] = code[q]
  <2>1. CASE pc[r] = "encodeWrite"
    <3>1. kind[RouteOf[r]] \in Kinds
      BY <1>1, EngineAssumption DEF EngineAssumption, TypeOK
    <3>2. mc[RouteOf[r]] = r
      BY <1>1, <2>1, <3>1 DEF ExchangeInv, OwnInv, WritesApart, ShareInv, AloneInv, Active
    <3>3. Writes(r)
      BY <1>1, StepWrites
    <3>4. QED
      BY <1>4, <2>1, <3>2, <3>3 DEF Writes, WriteContext, answerVars
  <2>2. CASE pc[r] # "encodeWrite"
    <3>1. Writes(r)
      BY <1>1, StepWrites
    <3>2. QED
      BY <1>4, <2>2, <3>1 DEF Writes, WriteContext, WriteRaw, WriteStatus, answerVars
  <2>3. QED
    BY <2>1, <2>2
<1>9. \A q \in Requests : q # r => reportedBar'[q] = reportedBar[q]
  BY <1>2, <1>8 DEF reportedBar
<1>10. reportedBar[r] = 0 /\ reportedBar'[r] = IF pc'[r] = "done" THEN code'[r] ELSE 0
  BY <1>3 DEF reportedBar
<1>11. QED
  BY <1>7, <1>9, <1>10 DEF reportedBar

\* A step of r that reads a stage s writes the stage of r anew.
LEMMA FromTo ==
  ASSUME ReadsApart, ExchangeInv, NEW r \in Requests, Serve(r)
  PROVE  /\ stageBar[r] = StageOf(r)
         /\ StageOf(r)' = StageOf(r) => stageBar' = stageBar
<1>1. stageBar[r] = StageOf(r)
  BY DEF stageBar
<1>2. stageBar' = [stageBar EXCEPT ![r] = StageOf(r)']
  BY ExchangeMoves
<1>3. QED
  BY <1>1, <1>2 DEF stageBar

\* The initial states of RestEngine are initial states of HttpExchange.
LEMMA ExchangeInit == Init => Exchange!AbsInit
<1> SUFFICES ASSUME Init PROVE Exchange!AbsInit
  OBVIOUS
<1>1. \A r \in Requests : StageOf(r) = "waiting"
  BY DEF Init, StageOf
<1>2. QED
  BY <1>1 DEF Init, Exchange!AbsInit, stageBar, reportedBar

\* A step of RestEngine is a step of HttpExchange or none.
LEMMA ExchangeStep ==
  ASSUME ReadsApart, ExchangeInv, [Next]_vars
  PROVE  [Exchange!AbsNext]_Exchange!absVars
<1>1. CASE UNCHANGED vars
  <2>1. \A r \in Requests : StageOf(r)' = StageOf(r)
    BY <1>1 DEF vars, StageOf, Has
  <2>2. QED
    BY <1>1, <2>1 DEF vars, stageBar, reportedBar, Exchange!absVars
<1>2. CASE Next
  <2>1. PICK r \in Requests : Serve(r)
    BY <1>2 DEF Next
  <2>2. TypeOK
    BY DEF ExchangeInv, ShareInv
  <2>3. pc \in [Requests -> Labels]
    BY <2>2 DEF TypeOK, Labels
  <2>4. /\ stageBar' = [stageBar EXCEPT ![r] = StageOf(r)']
        /\ pc'[r] # "done" => reportedBar' = reportedBar
        /\ pc'[r] = "done" => reportedBar' = [reportedBar EXCEPT ![r] = code'[r]]
    BY <2>1, ExchangeMoves
  <2>5. /\ stageBar[r] = StageOf(r)
        /\ StageOf(r)' = StageOf(r) => stageBar' = stageBar
    BY <2>1, FromTo
  <2>6. /\ pc[r] \notin Late => ~Has(r, {"finish", "context", "error", "refusal"})
        /\ pc[r] \in Early => ~Has(r, {"render"}) /\ ~handled[r]
        /\ mode[r] # "render" => ~Has(r, {"render"})
    BY Stages
  <2>7. UNCHANGED answerVars => \A S : Has(r, S)' <=> Has(r, S)
    BY DEF Has, answerVars
  <2>8. ~Endpoint(r) => handled' = handled
    BY <2>1, <2>2, CallsOnce
  <2>9. CASE Decode(r)
    <3>1. pc[r] = "new" /\ pc'[r] \in {"traceBefore", "error"} /\ UNCHANGED <<handled, answerVars>>
      BY <2>3, <2>9 DEF Decode, Goto
    <3>2. StageOf(r) = "waiting" /\ StageOf(r)' = "open"
      BY <2>6, <2>7, <3>1 DEF StageOf, Early, Late
    <3>3. Exchange!Receive(r) /\ reportedBar' = reportedBar
      BY <2>4, <2>5, <3>1, <3>2 DEF Exchange!Receive, Exchange!Becomes, answerVars
    <3>4. QED
      BY <3>3 DEF Exchange!AbsNext
  <2>10. CASE Endpoint(r)
    <3>1. pc[r] = "before" /\ pc'[r] \in {"traceAfter", "error", "return"}
      BY <2>3, <2>10 DEF Endpoint, Goto
    <3>2. StageOf(r) = "open"
      BY <2>6, <3>1 DEF StageOf, Early, Late
    <3>3. CASE UNCHANGED answerVars
      <4>1. CASE pc'[r] = "return"
        <5>1. handled' = handled
          BY <2>1, <2>2, <2>10, <4>1, CallsOnce
        <5>2. StageOf(r)' = StageOf(r)
          BY <2>7, <3>1, <3>3, <4>1, <5>1 DEF StageOf
        <5>3. QED
          BY <2>4, <2>5, <3>3, <4>1, <5>2 DEF Exchange!absVars, answerVars
      <4>2. CASE pc'[r] # "return"
        <5>1. handled'[r] = TRUE
          BY <2>1, <2>2, <2>10, <4>2, CallsOnce
        <5>2. StageOf(r)' = "called"
          BY <2>6, <2>7, <3>1, <3>3, <4>2, <5>1 DEF StageOf, Early, Late
        <5>3. Exchange!Call(r)
          BY <2>4, <2>5, <3>2, <3>3, <5>2 DEF Exchange!Call, Exchange!Becomes, answerVars
        <5>4. QED
          BY <2>4, <3>1, <5>3 DEF Exchange!AbsNext
      <4>3. QED
        BY <4>1, <4>2
    <3>4. ASSUME NEW s \in {200, 404}, OwnWrites(r, "render", s)
          PROVE  Exchange!AbsNext
      <4>1. /\ Has(r, {"render"})'
            /\ ~Has(r, {"finish", "context", "error", "refusal"})'
        BY <2>2, <2>6, <3>1, <3>4, HasMore DEF Late, Whats
      <4>2. StageOf(r)' = "answered"
        BY <3>1, <4>1 DEF StageOf
      <4>3. Exchange!Write(r, "render", s)
        BY <3>4 DEF OwnWrites, Exchange!Write
      <4>4. Exchange!Call(r)
        BY <2>4, <2>5, <3>2, <4>2, <4>3 DEF Exchange!Call, Exchange!Becomes
      <4>5. QED
        BY <2>4, <3>1, <4>4 DEF Exchange!AbsNext
    <3>5. QED
      BY <2>1, <2>10, <3>3, <3>4, WritesByAction
  <2>11. CASE Finalize(r)
    <3>1. pc[r] = "return" /\ pc'[r] = "done" /\ UNCHANGED answerVars
      BY <2>3, <2>11 DEF Finalize, Goto
    <3>2. StageOf(r) \notin {"waiting", "done"} /\ StageOf(r)' = "done"
      BY <3>1 DEF StageOf
    <3>3. /\ code'[r] \in {200, 400, 401, 403, 404, 500}
          /\ Exchange!OneStatus(out[r])
               => code'[r] = IF sent[r] = 0 THEN 200 ELSE sent[r]
      BY <2>2, <3>1 DEF ExchangeInv, StatusInv, StatusOf, answerVars, TypeOK, Statuses
    <3>4. Exchange!Finish(r)
      BY <2>4, <2>5, <3>1, <3>2, <3>3 DEF Exchange!Finish, Exchange!Becomes, answerVars
    <3>5. QED
      BY <3>4 DEF Exchange!AbsNext
  <2>12. ASSUME NEW what \in {"abort", "bytes", "denial"}, NEW status,
                OwnWrites(r, what, status), ~Endpoint(r),
                pc[r] \in {"before", "after"}, pc'[r] \in {pc[r], "return"},
                what = "abort" => status = 401, what = "bytes" => status = 200,
                what = "denial" => status = 403
         PROVE  Exchange!AbsNext
    <3>1. handled' = handled
      BY <2>8, <2>12
    <3>2. \A S \in {{"render"}, {"finish", "context", "error", "refusal"}} : Has(r, S)' <=> Has(r, S)
      BY <2>2, <2>12, HasMore DEF Whats
    <3>3. StageOf(r) \in {"open", "called", "answered"}
      BY <2>6, <2>12 DEF StageOf, Late
    <3>4. StageOf(r)' = StageOf(r)
      BY <2>12, <3>1, <3>2 DEF StageOf
    <3>5. Exchange!Write(r, what, status)
      BY <2>12 DEF OwnWrites, Exchange!Write
    <3>6. Exchange!Hook(r)
      BY <2>5, <2>12, <3>3, <3>4, <3>5 DEF Exchange!Hook
    <3>7. QED
      BY <2>4, <2>12, <3>6 DEF Exchange!AbsNext
  <2>13. ASSUME NEW what \in {"finish", "context"}, OwnWrites(r, what, 200),
                pc[r] \in AfterCall, pc'[r] = "return", mode[r] # "render"
         PROVE  Exchange!AbsNext
    <3>1. handled[r]
      BY <2>13 DEF ExchangeInv, CalledInv
    <3>2. StageOf(r) = "called"
      BY <2>6, <2>13, <3>1 DEF StageOf, AfterCall, Late
    <3>3. Has(r, {"finish", "context", "error", "refusal"})'
      BY <2>2, <2>13, HasMore DEF Whats
    <3>4. StageOf(r)' = "closed"
      BY <2>13, <3>3 DEF StageOf
    <3>5. Exchange!Write(r, what, 200)
      BY <2>13 DEF OwnWrites, Exchange!Write
    <3>6. Exchange!Encode(r)
      BY <2>4, <2>5, <3>2, <3>4, <3>5 DEF Exchange!Encode, Exchange!Becomes
    <3>7. QED
      BY <2>4, <2>13, <3>6 DEF Exchange!AbsNext
  <2>14. CASE EncodeWrite(r) /\ OwnWrites(r, "context", 200)
    <3>1. pc[r] = "encodeWrite" /\ mode[r] = "context"
      BY <2>14 DEF EncodeWrite, ExchangeInv, AnswerInv, AnswerOf
    <3>2. pc'[r] = "return"
      BY <2>1, <2>14, WritesByAction
    <3>3. QED
      BY <2>13, <2>14, <3>1, <3>2 DEF AfterCall
  <2>15. CASE ErrorEncoder(r)
    <3>1. pc[r] = "error" /\ pc'[r] = "return"
      BY <2>1, <2>15, WritesByAction DEF ErrorEncoder
    <3>2. StageOf(r) \in {"open", "called", "answered"}
      BY <2>6, <3>1 DEF StageOf, Late
    <3>3. PICK what \in {"error", "refusal"}, status \in {200, 400, 500} :
            /\ OwnWrites(r, what, status)
            /\ what = "error" => status = 200
            /\ what = "refusal" => status \in {400, 500}
      BY <2>1, <2>15, WritesByAction
    <3>4. Has(r, {"finish", "context", "error", "refusal"})'
      BY <2>2, <3>3, HasMore DEF Whats
    <3>5. StageOf(r)' = "closed"
      BY <3>1, <3>4 DEF StageOf
    <3>6. Exchange!Write(r, what, status)
      BY <3>3 DEF OwnWrites, Exchange!Write
    <3>7. Exchange!Fail(r)
      BY <2>4, <2>5, <3>2, <3>3, <3>5, <3>6 DEF Exchange!Fail, Exchange!Becomes
    <3>8. QED
      BY <2>4, <3>1, <3>7 DEF Exchange!AbsNext
  <2>16. ASSUME ~Endpoint(r), UNCHANGED answerVars,
                pc[r] \notin {"new", "done"}, pc'[r] \notin {"new", "done"}
         PROVE  UNCHANGED Exchange!absVars
    <3>1. StageOf(r)' = StageOf(r)
      BY <2>7, <2>8, <2>16 DEF StageOf
    <3>2. QED
      BY <2>4, <2>5, <2>16, <3>1 DEF Exchange!absVars, answerVars
  <2>17. CASE EncodeRender(r)
    <3>1. pc[r] = "encodeRender" /\ pc'[r] \in {"return", "error"}
      BY <2>3, <2>17 DEF EncodeRender, Goto
    <3>2. CASE UNCHANGED answerVars
      BY <2>16, <3>1, <3>2 DEF Endpoint
    <3>3. CASE mode[r] # "render" /\ pc'[r] = "return" /\ OwnWrites(r, "finish", 200)
      BY <2>13, <3>1, <3>3 DEF AfterCall
    <3>4. QED
      BY <2>1, <2>17, <3>2, <3>3, WritesByAction
  <2>18. CASE (Before(r) \/ After(r)) /\ HookWrites(r)
    <3>1. /\ pc[r] \in {"before", "after"} /\ pc'[r] \in {pc[r], "return", "encode"}
          /\ pc'[r] = "encode" => UNCHANGED answerVars
      BY <2>3, <2>18 DEF Before, After, Goto
    <3>2. ~Endpoint(r)
      BY <2>2, <2>18, EngineAssumption DEF Before, After, Endpoint, EngineAssumption, TypeOK
    <3>3. CASE UNCHANGED answerVars
      BY <2>16, <3>1, <3>2, <3>3
    <3>4. CASE ~UNCHANGED answerVars
      <4>1. \/ OwnWrites(r, "abort", 401) \/ OwnWrites(r, "bytes", 200)
            \/ OwnWrites(r, "denial", 403)
        BY <2>1, <2>18, <3>4, WritesByAction
      <4>2. QED
        BY <2>12, <3>1, <3>2, <3>4, <4>1
    <3>5. QED
      BY <3>3, <3>4
  <2>19. CASE UNCHANGED answerVars /\ (TraceBefore(r) \/ TraceAfter(r) \/ After(r)
                \/ EncodeContext(r) \/ EncodeType(r) \/ EncodeWrite(r))
    <3>1. /\ pc[r] \notin {"new", "done", "before"}
          /\ pc'[r] \notin {"new", "done"}
      BY <2>3, <2>19 DEF TraceBefore, TraceAfter, After, EncodeContext, EncodeType, EncodeWrite, Goto
    <3>2. QED
      BY <2>16, <2>19, <3>1 DEF Endpoint
  <2>20. CASE After(r)
    <3>1. HookWrites(r) \/ UNCHANGED answerVars
      BY <2>20 DEF After
    <3>2. QED
      BY <2>18, <2>19, <2>20, <3>1
  <2>21. CASE TraceBefore(r) \/ TraceAfter(r) \/ EncodeContext(r) \/ EncodeType(r)
    BY <2>19, <2>21 DEF TraceBefore, TraceAfter, EncodeContext, EncodeType
  <2>22. CASE EncodeWrite(r)
    BY <2>1, <2>14, <2>19, <2>22, WritesByAction
  <2>23. CASE Before(r)
    BY <2>18, <2>23 DEF Before
  <2>24. QED
    BY <2>1, <2>9, <2>10, <2>11, <2>15, <2>17, <2>20, <2>21, <2>22, <2>23 DEF Serve
<1>3. QED
  BY <1>1, <1>2

\* RestEngine implements HttpExchange: where the requests of a route do not mix
\* their Mcontexts, every request goes through an exchange of its own, however
\* many are served at once, and its finalizers are given the status it was sent.
THEOREM ExchangeRefinement ==
  ASSUME ReadsApart
  PROVE  Spec => ImplementsExchange
<1>1. ExchangeInv /\ [Next]_vars => [Exchange!AbsNext]_Exchange!absVars
  BY ExchangeStep
<1>2. Spec => []ExchangeInv
  BY ExchangeTheorem
<1>3. QED
  BY <1>1, <1>2, ExchangeInit, PTL DEF Spec, ImplementsExchange, Exchange!AbsSpec

-----------------------------------------------------------------------------
(* The span of a request *)

\* The variable of a route holds a span of the route that was started.
SpanInv ==
  /\ \A a \in Apis : span[a] \in Requests =>
       RouteOf[span[a]] = a /\ pc[span[a]] \notin {"new", "traceBefore"}
  /\ SpansEnded

\* A step of r that is not its serverAfter stays on its side of it.
LEMMA SpanSides ==
  ASSUME TypeOK, NEW r \in Requests, Serve(r)
  PROVE  /\ ~TraceAfter(r) => ended' = ended
         /\ pc[r] \notin {"new", "traceBefore", "before", "traceAfter"}
              => pc'[r] \notin {"new", "traceBefore", "before", "traceAfter"}
         /\ pc[r] \notin {"new", "traceBefore"} => pc'[r] \notin {"new", "traceBefore"}
         /\ ~TraceAfter(r) /\ pc'[r] \in {"after", "encode", "encodeRender", "encodeType", "encodeWrite"}
              => pc[r] \in {"after", "encode", "encodeRender", "encodeType", "encodeWrite"}
         /\ span' # span => pc'[r] \notin {"new", "traceBefore"}
<1>1. pc \in [Requests -> Labels]
  BY DEF TypeOK, Labels
<1>2. QED
  BY <1>1 DEF Labels, Goto, traceVars, Serve, Decode, TraceBefore, Before, Endpoint, TraceAfter,
       After, EncodeContext, EncodeRender, EncodeType, EncodeWrite, ErrorEncoder, Finalize

\* The span that r's serverAfter finds was started on r's route, and is r's own
\* unless openTelemetry's requests run at the same time.
LEMMA SpanFound ==
  ASSUME ShareInv, SpanInv, NEW r \in Requests, TraceAfter(r)
  PROVE  \E s \in Requests :
           /\ ended' = [ended EXCEPT ![s] = @ \cup {r}]
           /\ pc[s] \notin {"new", "traceBefore"} /\ RouteOf[s] = RouteOf[r]
           /\ kind[RouteOf[r]].tracer = "zipkin" \/ kind[RouteOf[r]].oneAtATime => s = r
<1>1. pc[r] = "traceAfter" /\ RouteOf[r] \in Apis
  BY EngineAssumption DEF TraceAfter, EngineAssumption
<1>2. CASE kind[RouteOf[r]].tracer = "zipkin"
  BY <1>1, <1>2 DEF TraceAfter
<1>3. CASE kind[RouteOf[r]].tracer # "zipkin"
  <2>1. ended' = [ended EXCEPT ![span[RouteOf[r]]] = @ \cup {r}]
    BY <1>3 DEF TraceAfter
  <2>2. span[RouteOf[r]] \in Requests
    BY <1>1 DEF ShareInv, ContextInv
  <2>3. kind[RouteOf[r]].oneAtATime => span[RouteOf[r]] = r
    BY <1>1 DEF ShareInv, AloneInv, Active
  <2>4. QED
    BY <1>1, <1>3, <2>1, <2>2, <2>3 DEF SpanInv
<1>4. QED
  BY <1>2, <1>3

\* A step keeps SpanInv.
LEMMA SpanStep ==
  ASSUME ShareInv, SpanInv, [Next]_vars
  PROVE  SpanInv'
<1>1. CASE UNCHANGED vars
  BY <1>1 DEF SpanInv, SpansEnded, vars
<1>2. CASE Next
  <2>1. PICK r \in Requests : Serve(r)
    BY <1>2 DEF Next
  <2>2. TypeOK /\ ContextInv /\ kind' = kind
    BY <1>2 DEF ShareInv, Next
  <2>3. \A q \in Requests \ {r} : pc'[q] = pc[q]
    BY <2>1, <2>2, PlaceStep
  <2>4. /\ ended \in [Requests -> SUBSET Requests] /\ pc \in [Requests -> Labels]
        /\ span \in [Apis -> Requests \cup {Nobody}]
    BY <2>2 DEF TypeOK, Labels
  <2>5. \A q \in Requests : pc[q] \notin {"new", "traceBefore"} => pc'[q] \notin {"new", "traceBefore"}
    BY <2>1, <2>2, <2>3, SpanSides
  <2>6. ASSUME NEW a \in Apis, span'[a] \in Requests
        PROVE  RouteOf[span'[a]] = a /\ pc'[span'[a]] \notin {"new", "traceBefore"}
    <3>1. RouteOf[r] \in Apis
      BY EngineAssumption DEF EngineAssumption
    <3>2. span' = span \/ span' = [span EXCEPT ![RouteOf[r]] = r]
      BY <2>1, <2>2, ShareStep
    <3>3. CASE span'[a] = span[a]
      BY <2>5, <2>6, <3>3 DEF SpanInv
    <3>4. CASE span'[a] # span[a]
      <4>1. a = RouteOf[r] /\ span'[a] = r
        BY <2>4, <3>1, <3>2, <3>4
      <4>2. QED
        BY <2>1, <2>2, <3>4, <4>1, SpanSides
    <3>5. QED
      BY <3>3, <3>4
  <2>7. CASE ~TraceAfter(r)
    <3>1. /\ ended' = ended
          /\ pc'[r] \in {"after", "encode", "encodeRender", "encodeType", "encodeWrite"}
               => pc[r] \in {"after", "encode", "encodeRender", "encodeType", "encodeWrite"}
          /\ pc[r] \notin {"new", "traceBefore", "before", "traceAfter"}
               => pc'[r] \notin {"new", "traceBefore", "before", "traceAfter"}
      BY <2>1, <2>2, <2>7, SpanSides
    <3>2. SpansEnded'
      BY <2>2, <2>3, <2>5, <3>1 DEF SpanInv, SpansEnded
    <3>3. QED
      BY <2>6, <3>2 DEF SpanInv
  <2>8. CASE TraceAfter(r)
    <3>1. PICK s \in Requests :
            /\ ended' = [ended EXCEPT ![s] = @ \cup {r}]
            /\ pc[s] \notin {"new", "traceBefore"} /\ RouteOf[s] = RouteOf[r]
            /\ kind[RouteOf[r]].tracer = "zipkin" \/ kind[RouteOf[r]].oneAtATime => s = r
      BY <2>8, SpanFound
    <3>2. pc[r] = "traceAfter" /\ pc'[r] = "after"
      BY <2>4, <2>8 DEF TraceAfter, Goto
    <3>3. \A t \in Requests : r \notin ended[t]
      BY <3>2 DEF SpanInv, SpansEnded
    <3>4. \A q, t \in Requests :
            q \in ended'[t] <=> q \in ended[t] \/ (q = r /\ t = s)
      BY <2>4, <3>1
    <3>5. ASSUME NEW q \in Requests,
                 pc'[q] \in {"after", "encode", "encodeRender", "encodeType", "encodeWrite"}
          PROVE  \E t \in Requests : q \in ended'[t]
      BY <2>3, <3>2, <3>4, <3>5 DEF SpanInv, SpansEnded
    <3>6. ASSUME NEW q \in Requests, NEW t \in Requests, q \in ended'[t]
          PROVE  /\ pc'[q] \notin {"new", "traceBefore", "before", "traceAfter"}
                 /\ pc'[t] \notin {"new", "traceBefore"} /\ RouteOf[t] = RouteOf[q]
                 /\ \A u \in Requests : q \in ended'[u] => t = u
                 /\ kind[RouteOf[q]].tracer = "zipkin" \/ kind[RouteOf[q]].oneAtATime => t = q
      <4>1. CASE q = r
        BY <2>5, <3>1, <3>2, <3>3, <3>4, <3>6, <4>1
      <4>2. CASE q # r
        BY <2>3, <2>5, <3>4, <3>6, <4>2 DEF SpanInv, SpansEnded
      <4>3. QED
        BY <4>1, <4>2
    <3>7. SpansEnded'
      BY <2>2, <3>5, <3>6 DEF SpansEnded
    <3>8. QED
      BY <2>6, <3>7 DEF SpanInv
  <2>9. QED
    BY <2>7, <2>8
<1>3. QED
  BY <1>1, <1>2

\* SpansEnded: on any route a serverAfter ends one span that was started on the
\* route; it is its own request's unless the route is an openTelemetry one that
\* serves its requests at the same time.
THEOREM SpansEndedTheorem == Spec => []SpansEnded
<1>1. Init => SpanInv
  <2>1. ASSUME Init, NEW a \in Apis
        PROVE  span[a] \notin Requests
    BY <2>1, EngineAssumption DEF Init, EngineAssumption
  <2>2. Init => SpansEnded
    BY DEF Init, SpansEnded
  <2>3. QED
    BY <2>1, <2>2 DEF SpanInv
<1>2. ShareInv /\ SpanInv /\ [Next]_vars => SpanInv'
  BY SpanStep
<1>3. SpanInv => SpansEnded
  BY DEF SpanInv
<1>4. QED
  BY <1>1, <1>2, <1>3, ShareTheorem, PTL DEF Spec

=============================================================================
