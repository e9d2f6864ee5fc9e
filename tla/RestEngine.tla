----------------------------- MODULE RestEngine -----------------------------
(***************************************************************************)
(* Requests served concurrently by rest.Engine (rest/engine.go) with the   *)
(* DecodeRequest and EncodeResponse of a RestApi (rest/restapi.go) and a   *)
(* tracer (trace/trace_zipkin.go, trace/trace_opentelemetry.go).           *)
(*                                                                         *)
(* NewHttpHandler makes one Engine per route, around one RestApi: every    *)
(* request of the route goes through the same RestApi value, whose field   *)
(* mc is the Mcontext of the request that was decoded last.  Each read of  *)
(* c.mc is a step.  net/http runs ServeHTTP in a goroutine per request.    *)
(*                                                                         *)
(* What user code decides (hooks, middlewares, service methods) is a       *)
(* nondeterministic choice of outcomes.                                    *)
(***************************************************************************)
EXTENDS Integers, Sequences, FiniteSets

CONSTANTS
  Requests,      \* the HTTP requests
  Apis,          \* the routes, each with its RestApi
  RouteOf,       \* the route of each request
  Nobody,        \* no request
  Hooks,         \* the number of user hooks before and after the endpoint
  Kinds          \* the kinds of routes, see KindType

\* modes: how the service methods of the route answer, see Endpoint.
\* hookWrites: what the user's hooks write, see HookWrites.
\* encoder: the ErrorEncoder of the route, DefaultErrorEncoder or one that sends
\* a status of its own, as RestApi.ErrorEncoder does.
\* oneAtATime: the route is given a request only when it is idle.
KindType == [modes : SUBSET {"plain", "context", "render"},
             hookWrites : SUBSET {"abort", "bytes", "denial"},
             encoder : {"default", "status"},
             tracer : {"zipkin", "otel"},
             oneAtATime : BOOLEAN]

ASSUME EngineAssumption ==
  /\ RouteOf \in [Requests -> Apis]
  /\ Nobody \notin Requests
  /\ Hooks \in Nat
  /\ Kinds \subseteq KindType

VARIABLES
  pc,         \* where ServeHTTP is, per request
  hook,       \* the user hooks that have run in the current list
  mc,         \* RestApi.mc: the request whose Mcontext it is
  mode,       \* the flags of the request's Mcontext: UseRender ("render"),
              \* useContextWriter ("context") or neither ("plain")
  handled,    \* the endpoint has returned
  out,        \* what was written to the request's http.ResponseWriter
  sent,       \* the status that net/http was given first, 0 before any
  code,       \* interceptingWriter.code
  bound,      \* the Mcontext has written its header (writermem.Written)
  span,       \* the variable span of openTelemetry.HTTPServerTrace, per route
  kind,       \* the kind of each route, chosen once
  ended       \* the requests whose serverAfter ended the span that the request
              \* started

vars == <<kind, pc, hook, mc, mode, handled, out, sent, code, bound, span, ended>>

answerVars == <<out, sent, code, bound>>
traceVars == <<span, ended>>

Init ==
  /\ kind \in [Apis -> Kinds]
  /\ pc = [r \in Requests |-> "new"]
  /\ hook = [r \in Requests |-> 0]
  /\ mc = [a \in Apis |-> Nobody]
  /\ mode = [r \in Requests |-> "plain"]
  /\ handled = [r \in Requests |-> FALSE]
  /\ out = [r \in Requests |-> <<>>]
  /\ sent = [r \in Requests |-> 0]
  /\ code = [r \in Requests |-> 200]
  /\ bound = [r \in Requests |-> FALSE]
  /\ span = [a \in Apis |-> Nobody]
  /\ ended = [r \in Requests |-> {}]

\* ServeHTTP of r goes on at label l.
Goto(r, l) == pc' = [pc EXCEPT ![r] = l]

\* r's request is being served.
Active(r) == pc[r] \notin {"new", "done"}

-----------------------------------------------------------------------------
(* Writing to a response *)

\* Request r writes to the ResponseWriter of request t; net/http sends 200
\* with the first bytes if no header was sent before.
WriteRaw(r, t, what) ==
  /\ out' = [out EXCEPT ![t] = Append(@, [from |-> r, what |-> what])]
  /\ sent' = [sent EXCEPT ![t] = IF @ = 0 THEN 200 ELSE @]
  /\ UNCHANGED <<code, bound>>

\* Request r sends a status to its own response past its Mcontext:
\* interceptingWriter keeps the code even if a header was sent before.
WriteStatus(r, what, status) ==
  /\ out' = [out EXCEPT ![r] = Append(@, [from |-> r, what |-> what])]
  /\ sent' = [sent EXCEPT ![r] = IF @ = 0 THEN status ELSE @]
  /\ code' = [code EXCEPT ![r] = status]
  /\ UNCHANGED bound

\* Faulty variant of WriteContext: interceptingWriter does not keep the code.
WriteContextUnseen(r, t, what, status) ==
  /\ out' = [out EXCEPT ![t] = Append(@, [from |-> r, what |-> what])]
  /\ sent' = [sent EXCEPT ![t] = IF @ = 0 THEN status ELSE @]
  /\ bound' = [bound EXCEPT ![t] = TRUE]
  /\ UNCHANGED code

\* Request r writes with a status through the Mcontext of request t: the first
\* such write calls WriteHeader on interceptingWriter, which keeps the code
\* and sends it unless a header was sent before.
WriteContext(r, t, what, status) ==
  /\ out' = [out EXCEPT ![t] = Append(@, [from |-> r, what |-> what])]
  /\ sent' = [sent EXCEPT ![t] = IF @ = 0 THEN status ELSE @]
  /\ code' = [code EXCEPT ![t] = IF bound[t] THEN @ ELSE status]
  /\ bound' = [bound EXCEPT ![t] = TRUE]

-----------------------------------------------------------------------------
(* DecodeRequest *)

\* Faulty variant of Decode: the last request's Mcontext stays in the RestApi.
DecodeKeepsContext(r) ==
  /\ pc[r] = "new"
  /\ kind[RouteOf[r]].oneAtATime => \A q \in Requests : RouteOf[q] = RouteOf[r] => ~Active(q)
  /\ mc' = [mc EXCEPT ![RouteOf[r]] = IF @ = Nobody THEN r ELSE @]
  /\ \E l \in {"traceBefore", "error"} : Goto(r, l)
  /\ UNCHANGED <<hook, mode, handled, answerVars, traceVars>>

\* A new Mcontext for the request, kept in the RestApi; an error reading the
\* body is returned after that.
Decode(r) ==
  /\ pc[r] = "new"
  /\ kind[RouteOf[r]].oneAtATime => \A q \in Requests : RouteOf[q] = RouteOf[r] => ~Active(q)
  /\ mc' = [mc EXCEPT ![RouteOf[r]] = r]
  /\ \E l \in {"traceBefore", "error"} : Goto(r, l)
  /\ UNCHANGED <<hook, mode, handled, answerVars, traceVars>>

-----------------------------------------------------------------------------
(* The hooks and the endpoint *)

\* The serverBefore of the tracer: starts the request's span, which zipkin
\* keeps in c.Ctx and openTelemetry in a variable of the route.
TraceBefore(r) ==
  /\ pc[r] = "traceBefore"
  /\ span' = [span EXCEPT ![RouteOf[r]] = r]
  /\ Goto(r, "before")
  /\ UNCHANGED <<hook, mc, mode, handled, answerVars, ended>>

\* What a user's hook, which is given the Mcontext and w, does to the response:
\* nothing, AbortWithStatus unless the Mcontext has written its header, bytes
\* to w, or a status and bytes to w.
HookWrites(r) ==
  LET writes == kind[RouteOf[r]].hookWrites
  IN  \/ UNCHANGED answerVars
      \/ "abort" \in writes /\ ~bound[r] /\ WriteContext(r, r, "abort", 401)
      \/ "bytes" \in writes /\ WriteRaw(r, r, "bytes")
      \/ "denial" \in writes /\ WriteStatus(r, "denial", 403)

\* A user's before hook.  On its error ServeHTTP returns without an answer of
\* its own; a panic ends it likewise, here and below, as finalizers are deferred.
Before(r) ==
  /\ pc[r] = "before"
  /\ hook[r] < Hooks
  /\ HookWrites(r)
  /\ \/ hook' = [hook EXCEPT ![r] = @ + 1] /\ UNCHANGED pc
     \/ Goto(r, "return") /\ UNCHANGED hook
  /\ UNCHANGED <<mc, mode, handled, traceVars>>

\* The endpoint: middlewares around the service method for r.Method.  The
\* method answers through its own Mcontext (render), sets useContextWriter
\* (context) or leaves the answer to EncodeResponse (plain); a middleware may
\* return an error, the service's own is turned into GetErrorResponse(), and
\* either may panic.
Endpoint(r) ==
  /\ pc[r] = "before"
  /\ hook[r] = Hooks
  /\ \E m \in kind[RouteOf[r]].modes :
       /\ mode' = [mode EXCEPT ![r] = m]
       /\ IF m = "render"
          THEN \E s \in {200, 404} : WriteContext(r, r, "render", s)
          ELSE UNCHANGED answerVars
  /\ hook' = [hook EXCEPT ![r] = 0]
  /\ \/ /\ handled' = [handled EXCEPT ![r] = TRUE]
        /\ \E l \in {"traceAfter", "error"} : Goto(r, l)
     \/ Goto(r, "return") /\ UNCHANGED handled
  /\ UNCHANGED <<mc, traceVars>>

\* Faulty variant of TraceAfter: zipkin's span is found in the route, too.
TraceAfterShared(r) ==
  /\ pc[r] = "traceAfter"
  /\ ended' = [ended EXCEPT ![span[RouteOf[r]]] = @ \cup {r}]
  /\ Goto(r, "after")
  /\ UNCHANGED <<hook, mc, mode, handled, answerVars, span>>

\* The serverAfter of the tracer ends the span it finds: the request's own
\* (zipkin), or the one in the variable of the route (openTelemetry).
TraceAfter(r) ==
  /\ pc[r] = "traceAfter"
  /\ LET s == IF kind[RouteOf[r]].tracer = "zipkin" THEN r ELSE span[RouteOf[r]]
     IN  ended' = [ended EXCEPT ![s] = @ \cup {r}]
  /\ Goto(r, "after")
  /\ UNCHANGED <<hook, mc, mode, handled, answerVars, span>>

\* A user's after hook, as Before; after the last the response is encoded.
After(r) ==
  /\ pc[r] = "after"
  /\ \/ /\ hook[r] < Hooks
        /\ HookWrites(r)
        /\ \/ hook' = [hook EXCEPT ![r] = @ + 1] /\ UNCHANGED pc
           \/ Goto(r, "return") /\ UNCHANGED hook
     \/ /\ hook[r] = Hooks
        /\ Goto(r, "encode")
        /\ UNCHANGED <<hook, answerVars>>
  /\ UNCHANGED <<mc, mode, handled, traceVars>>

-----------------------------------------------------------------------------
(* EncodeResponse: every use of c.mc reads the field again *)

\* !c.mc.useContextWriter
EncodeContext(r) ==
  /\ pc[r] = "encode"
  /\ Goto(r, IF mode[mc[RouteOf[r]]] = "context" THEN "encodeType" ELSE "encodeRender")
  /\ UNCHANGED <<hook, mc, mode, handled, answerVars, traceVars>>

\* Faulty variant of EncodeRender: w = c.mc.writermem.ResponseWriter, the line
\* that is commented out in EncodeResponse.
EncodeRenderToContext(r) ==
  /\ pc[r] = "encodeRender"
  /\ Goto(r, "return")
  /\ IF mode[mc[RouteOf[r]]] = "render"
     THEN UNCHANGED answerVars
     ELSE WriteRaw(r, mc[RouteOf[r]], "finish")
  /\ UNCHANGED <<hook, mc, mode, handled, traceVars>>

\* Faulty variant of EncodeRender: the error of Finish is dropped.
EncodeRenderDropsError(r) ==
  /\ pc[r] = "encodeRender"
  /\ Goto(r, "return")
  /\ UNCHANGED answerVars \/ WriteRaw(r, r, "finish")
  /\ UNCHANGED <<hook, mc, mode, handled, traceVars>>

\* && !c.mc.UseRender: Finish encodes the response to w, which may fail before
\* anything is written; a rendered response is left alone.
EncodeRender(r) ==
  /\ pc[r] = "encodeRender"
  /\ IF mode[mc[RouteOf[r]]] = "render"
     THEN Goto(r, "return") /\ UNCHANGED answerVars
     ELSE \/ Goto(r, "return") /\ WriteRaw(r, r, "finish")
          \/ Goto(r, "error") /\ UNCHANGED answerVars
  /\ UNCHANGED <<hook, mc, mode, handled, traceVars>>

\* if !c.mc.UseRender { switch c.mc.ContentType }: nothing is written for a
\* content type that is neither JSON nor XML.
EncodeType(r) ==
  /\ pc[r] = "encodeType"
  /\ IF mode[mc[RouteOf[r]]] = "render"
     THEN Goto(r, "return")
     ELSE \E l \in {"encodeWrite", "return"} : Goto(r, l)
  /\ UNCHANGED <<hook, mc, mode, handled, answerVars, traceVars>>

\* c.mc.JSON(http.StatusOK, response), or XML; a response that cannot be
\* rendered is a panic of Render before anything is written.
EncodeWrite(r) ==
  /\ pc[r] = "encodeWrite"
  /\ WriteContext(r, mc[RouteOf[r]], "context", 200) \/ UNCHANGED answerVars
  /\ Goto(r, "return")
  /\ UNCHANGED <<hook, mc, mode, handled, traceVars>>

-----------------------------------------------------------------------------
(* The ends of ServeHTTP *)

\* errorEncoder: DefaultErrorEncoder writes the body without WriteHeader, another
\* one sends a status before it.
ErrorEncoder(r) ==
  /\ pc[r] = "error"
  /\ IF kind[RouteOf[r]].encoder = "default"
     THEN WriteRaw(r, r, "error")
     ELSE \E s \in {400, 500} : WriteStatus(r, "refusal", s)
  /\ Goto(r, "return")
  /\ UNCHANGED <<hook, mc, mode, handled, traceVars>>

\* The deferred finalizers.  ctx is the context of the http.Request, to which
\* no span was added: the finalizer of zipkin finds none and ends none.
Finalize(r) ==
  /\ pc[r] = "return"
  /\ Goto(r, "done")
  /\ UNCHANGED <<hook, mc, mode, handled, answerVars, traceVars>>

Serve(r) ==
  \/ Decode(r) \/ TraceBefore(r) \/ Before(r) \/ Endpoint(r)
  \/ TraceAfter(r) \/ After(r)
  \/ EncodeContext(r) \/ EncodeRender(r) \/ EncodeType(r) \/ EncodeWrite(r)
  \/ ErrorEncoder(r) \/ Finalize(r)

Next == UNCHANGED kind /\ \E r \in Requests : Serve(r)

Spec == Init /\ [][Next]_vars

-----------------------------------------------------------------------------
(* Properties *)

\* What is written to a response, and the statuses that are sent.
Whats == {"abort", "bytes", "denial", "render", "finish", "context", "error", "refusal"}
Statuses == {200, 400, 401, 403, 404, 500}

\* The values the variables may take.
TypeOK ==
  /\ kind \in [Apis -> Kinds]
  /\ pc \in [Requests -> {"new", "traceBefore", "before", "traceAfter", "after",
                          "encode", "encodeRender", "encodeType", "encodeWrite",
                          "error", "return", "done"}]
  /\ hook \in [Requests -> 0..Hooks]
  /\ mc \in [Apis -> Requests \cup {Nobody}]
  /\ mode \in [Requests -> {"plain", "context", "render"}]
  /\ handled \in [Requests -> BOOLEAN]
  /\ out \in [Requests -> Seq([from : Requests, what : Whats])]
  /\ sent \in [Requests -> Statuses \cup {0}]
  /\ code \in [Requests -> Statuses]
  /\ bound \in [Requests -> BOOLEAN]
  /\ span \in [Apis -> Requests \cup {Nobody}]
  /\ ended \in [Requests -> SUBSET Requests]

\* "EncodeResponseFunc encodes the passed response object to the HTTP response
\* writer" (encode_decode.go:13): what a request's client receives was written
\* for that request.
OwnResponse == \A r \in Requests : \A i \in DOMAIN out[r] : out[r][i].from = r

Wrote(r, what) == \E i \in DOMAIN out[r] : out[r][i].from = r /\ out[r][i].what = what

\* The errorEncoder has written r's error.
Failed(r) == Wrote(r, "error") \/ Wrote(r, "refusal")

\* A service method's answer reaches the client once: a response that was
\* rendered is not encoded again, one that was not is encoded or replaced by
\* one error (restapi.go:215).
AnsweredOnce ==
  \A r \in Requests :
    pc[r] = "done" =>
      /\ Cardinality({i \in DOMAIN out[r] : out[r][i].what \in {"finish", "context", "render"}}) <= 1
      /\ Wrote(r, "render") => mode[r] = "render" /\ ~Wrote(r, "finish")
      /\ Wrote(r, "finish") => ~Failed(r)

\* A plain response is not lost: a request whose endpoint and hooks succeeded
\* ends with the response or an encoding error written (engine.go:136).
PlainIsAnswered ==
  \A r \in Requests :
    (pc[r] = "return" /\ handled[r] /\ mode[r] = "plain" /\ hook[r] = Hooks)
      => Wrote(r, "finish") \/ Failed(r)

\* A finalizer runs "after the response has been written to the client"
\* (engine.go:149): nothing is written to a finished request.
NothingAfterFinalizers ==
  [][\A r \in Requests : pc[r] = "done" => out'[r] = out[r]]_vars

\* Every serverAfter ends one span, which was started, on its own route
\* (trace_zipkin.go:142, trace_opentelemetry.go:138).  It is its own request's
\* span, so that each is ended once, but on an openTelemetry route that serves
\* requests at the same time: there the ended span may be another request's.
SpansEnded ==
  \A r \in Requests :
    /\ pc[r] \in {"after", "encode", "encodeRender", "encodeType", "encodeWrite"}
         => \E s \in Requests : r \in ended[s]
    /\ \A s \in Requests : r \in ended[s] =>
         /\ pc[r] \notin {"new", "traceBefore", "before", "traceAfter"}
         /\ pc[s] \notin {"new", "traceBefore"} /\ RouteOf[s] = RouteOf[r]
         /\ \A t \in Requests : r \in ended[t] => s = t
         /\ kind[RouteOf[r]].tracer = "zipkin" \/ kind[RouteOf[r]].oneAtATime => s = r

-----------------------------------------------------------------------------
(* The exchange that RestEngine implements *)

Has(r, whats) == \E i \in DOMAIN out[r] : out[r][i].what \in whats

\* How far r's exchange has come, by where ServeHTTP is and what was written.
StageOf(r) ==
  CASE pc[r] = "new"                        -> "waiting"
    [] pc[r] = "done"                       -> "done"
    [] OTHER -> IF Has(r, {"finish", "context", "error", "refusal"}) THEN "closed"
                ELSE IF Has(r, {"render"}) THEN "answered"
                ELSE IF handled[r] THEN "called" ELSE "open"

stageBar == [r \in Requests |-> StageOf(r)]
reportedBar == [r \in Requests |-> IF pc[r] = "done" THEN code[r] ELSE 0]

Exchange == INSTANCE HttpExchange WITH
  Requests <- Requests, stage <- stageBar, out <- out, sent <- sent, reported <- reportedBar

\* The code the finalizers are given is the status that was sent, whichever
\* encoder and hooks the route has, unless a status was given to net/http after
\* another write had sent one (engine.go:147).
FinalizersSeeStatus ==
  \A r \in Requests :
    (pc[r] = "done" /\ sent[r] # 0 /\ Exchange!OneStatus(out[r])) => code[r] = sent[r]

\* RestEngine implements HttpExchange (engine.go:93): whatever the other
\* requests of the route do meanwhile, a request is aborted, answered and
\* failed in that order, each by its own steps, and its finalizers are given
\* the status that was sent if only one was given.  It holds where the
\* requests of a route do not share a Mcontext at the same time.
ImplementsExchange == Exchange!AbsSpec
=============================================================================
