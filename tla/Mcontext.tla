------------------------------- MODULE Mcontext -------------------------------
(***************************************************************************)
(* One request as a service method sees it: the Mcontext that              *)
(* RestApi.DecodeRequest makes (rest/restapi.go), the calls the method     *)
(* makes on it (rest/mcontext.go), the bindings and renders behind them    *)
(* (binding/, render/, error/), and EncodeResponse at the end.             *)
(*                                                                         *)
(* The method may make any calls in any order, at most MaxCalls.  The body *)
(* of the request is a stream that whoever reads it first empties.  Bytes  *)
(* are not modelled: a body has a format and is sound or not, a written    *)
(* chunk is one unit.  How several requests share a RestApi is RestEngine, *)
(* and how values are mapped to the fields of a target is FormMapping.     *)
(***************************************************************************)
EXTENDS ResponseWriter, Sequences, FiniteSetsExt

CONSTANTS
  Requests,      \* requests: method, format of the body, sound (the body can be
                 \* decoded), parses (the query and, unless it is multipart, the
                 \* Content-Type can be parsed), fields and files of a form, query
                 \* (the part that can be parsed), header, params of the path,
                 \* accept, and target, the field bound into; for decoded bodies,
                 \* message (what protobuf binds into is a proto.Message) and
                 \* valid (what is decoded passes validate)
  Spelling,      \* the formats of Accept and of offers, as sequences of symbols
  Offers,        \* the offers, sequences of formats
  RenderKinds,   \* the renders used
  MapForm(_, _), \* what mapFormByTag and mappingByPtr make of a target and the
  MapPtr(_, _),  \* values for it: the value, err and panic
  Validates(_, _), \* whether a value of a target passes validate
  MaxCalls       \* the calls of the method

Formats == DOMAIN Spelling

ASSUME ContextAssumption ==
  /\ MaxCalls \in Nat
  /\ {"yaml", "xml"} \subseteq Formats
  /\ \A f \in Formats : Spelling[f] \in Seq(STRING)
  /\ \A o \in Offers : o \in Seq(Formats) /\ Len(o) > 0
  /\ \A r \in Requests : r.accept \in Seq(Formats)

VARIABLES
  rq,        \* the request
  rd,        \* what was read of it: left, the body stream is unread; post, in a
             \* sequence, the values ParseForm found; parts, the multipart form
             \* was read
  c,         \* the Mcontext: contentType, queries, accepted (in a sequence
             \* unless nil), errors (their types), aborted, useRender, useWriter
  ct,        \* the header Content-Type of the response, "" if it is not set
  pc,        \* "decode", "handle", "encode" or "done"
  calls,     \* the calls made
  last,      \* the last call and its outcome
  seen,      \* the outcomes of bindings so far; unparsed, the call at which
             \* net/http could not parse the form, or 0
  rejected   \* a must-bind failed before anything was sent

vars == <<rq, rd, c, w, ct, pc, calls, last, seen, rejected>>

None == [call |-> "none"]

\* The key under which ShouldBindBodyWith keeps the body.
BodyBytesKey == "body bytes"

Init ==
  /\ rq \in Requests
  /\ rd = [left |-> TRUE, post |-> <<>>, parts |-> FALSE]
  /\ c = [contentType |-> "none", queries |-> << >>, accepted |-> <<>>, errors |-> <<>>,
          aborted |-> FALSE, useRender |-> FALSE, useWriter |-> FALSE]
  /\ WInit
  /\ ct = ""
  /\ pc = "decode"
  /\ calls = 0
  /\ last = None
  /\ seen = {}
  /\ rejected = FALSE

-----------------------------------------------------------------------------
(* DecodeRequest *)

\* The query's lists of values go to Queries, the body is read to its end
\* unless it is multipart, and the response writer is reset.
Decode ==
  /\ pc = "decode"
  /\ c' = [c EXCEPT
             !.contentType = IF rq.format \in {"json", "xml", "form", "multipart"}
                             THEN rq.format ELSE "none",
             !.queries = [k \in DOMAIN rq.query |-> [kind |-> "texts", val |-> rq.query[k]]]]
  /\ rd' = [rd EXCEPT !.left = rq.format = "multipart"]
  /\ pc' = "handle"
  /\ UNCHANGED <<rq, w, ct, calls, last, seen, rejected>>

-----------------------------------------------------------------------------
(* Keys, queries *)

\* Get with the type assertion of the typed getters, in a sequence.
GetAs(x, key, kind) ==
  IF key \in DOMAIN x.queries /\ x.queries[key].kind = kind THEN <<x.queries[key].val>> ELSE <<>>

Set(x, key, kind, val) ==
  [x EXCEPT !.queries = [k \in DOMAIN @ \cup {key} |->
                           IF k = key THEN [kind |-> kind, val |-> val] ELSE @[k]]]

\* DefaultQuery with "" as the default: the first value in the URL.
Query(key) == IF key \in DOMAIN rq.query THEN Head(rq.query[key]) ELSE ""

-----------------------------------------------------------------------------
(* Reading the request: net/http *)

\* ParseForm reads a form body once, and the query, and keeps what it could parse
\* (its error is Malformed).  ParseMultipartForm reads the parts, unless it has,
\* after ParseForm; without the body it fails.
ParseForm(r) ==
  IF r.post # <<>> THEN r
  ELSE IF rq.format = "form"
  THEN [r EXCEPT !.left = FALSE, !.post = IF r.left THEN <<rq.fields>> ELSE << <<>> >>]
  ELSE [r EXCEPT !.post = << <<>> >>]

ParseMultipartForm(r) ==
  LET p == ParseForm(r)
  IN IF p.parts \/ rq.format # "multipart" THEN p
     ELSE IF p.left /\ rq.sound
     THEN [p EXCEPT !.left = FALSE, !.parts = TRUE, !.post = <<rq.fields>>]
     ELSE [p EXCEPT !.left = FALSE]

\* Request.Form after that: the query's and the body's values of each key.
Joined(f, g) ==
  [k \in DOMAIN f \cup DOMAIN g |->
     (IF k \in DOMAIN f THEN f[k] ELSE <<>>) \o (IF k \in DOMAIN g THEN g[k] ELSE <<>>)]

FormOf(r) ==
  IF rq.format = "multipart" THEN Joined(rq.query, r.post[1]) ELSE Joined(r.post[1], rq.query)

-----------------------------------------------------------------------------
(* Bindings *)

Codecs == {"json", "xml", "yaml", "protobuf", "msgpack"}

\* Decoding a body that is empty, or the request's.  JSON is YAML too.  No bytes
\* are a protobuf message, and the end of the input for the other decoders.
Decodes(codec, full) ==
  IF full THEN rq.sound /\ (rq.format = codec \/ (codec = "yaml" /\ rq.format = "json"))
  ELSE codec = "protobuf"

Failure == [err |-> TRUE, mapped |-> <<>>, panic |-> FALSE]

\* Decoding and validate, which protobuf leaves out; a target that is no message
\* makes it panic.
Decoded(codec, full) ==
  LET panics == codec = "protobuf" /\ ~rq.message
  IN [err |-> ~panics /\ (~Decodes(codec, full) \/ (codec # "protobuf" /\ ~rq.valid)),
      mapped |-> <<>>, panic |-> panics]

Values(f) == [values |-> f, files |-> << >>]

\* Where a binding that maps values takes them from.
SourceOf(r, kind) ==
  CASE kind = "form" -> Values(FormOf(ParseMultipartForm(r)))
    [] kind = "form post" -> Values(ParseForm(r).post[1])
    [] kind = "multipart" -> [values |-> rq.fields, files |-> rq.files]
    [] kind = "query" -> Values(rq.query)
    [] kind = "header" -> Values(rq.header)
    [] kind = "uri" -> Values([k \in DOMAIN rq.params |-> <<rq.params[k]>>])

\* The body was not the multipart form it should be, or is gone.
BadParts(r, kind) ==
  \/ kind = "form" /\ rq.format = "multipart" /\ ~ParseMultipartForm(r).parts
  \/ kind = "multipart" /\ ~ParseMultipartForm(r).parts

\* The first ParseForm of a request that it cannot parse returns the error, the
\* later ones find Form set and return none.
Malformed(r, kind) == kind \in {"form", "form post", "multipart"} /\ r.post = <<>> /\ ~rq.parses

\* How far the binding read the request.
AfterBind(r, kind) ==
  CASE kind \in Codecs -> [r EXCEPT !.left = FALSE]
    [] kind = "form" -> IF Malformed(r, kind) THEN ParseForm(r) ELSE ParseMultipartForm(r)
    [] kind = "multipart" -> ParseMultipartForm(r)
    [] kind = "form post" -> ParseForm(r)
    [] OTHER -> r

\* The outcome of Bind: err, mapped if the mapping was reached, panic.
Outcome(r, kind) ==
  IF kind \in Codecs THEN Decoded(kind, r.left)
  ELSE IF Malformed(r, kind) \/ BadParts(r, kind) THEN Failure
  ELSE LET m == IF kind \in {"multipart", "header"}
                THEN MapPtr(rq.target, SourceOf(r, kind))
                ELSE MapForm(rq.target, SourceOf(r, kind))
       IN [err |-> m.err \/ ~Validates(rq.target, m.val), mapped |-> <<m>>, panic |-> m.panic]

\* binding.Default.
Default(method, format) ==
  IF method = "GET" THEN "form"
  ELSE IF format \in Codecs \cup {"multipart"} THEN format
  ELSE "form"

-----------------------------------------------------------------------------
(* Errors and abort *)

\* Error appends an error of a type; AbortWithError after the header.
PushError(x, type) == [x EXCEPT !.errors = Append(@, type)]

AbortWithStatus(v, code) == WriteHeaderNow(WriteHeader(v, code))

\* A call of the method: what it does and what is remembered of it.
Call ==
  /\ pc = "handle"
  /\ calls < MaxCalls
  /\ ~w.panicked
  /\ calls' = calls + 1
  /\ UNCHANGED <<rq, pc>>

Unparsed(kind) == IF Malformed(rd, kind) THEN calls + 1 ELSE 0

\* Faulty variant of BindCall: the error is pushed and nothing is sent.
BindCallSilent(kind, must) ==
  /\ Call
  /\ \E o \in {Outcome(rd, kind)} :
       LET failed == must /\ o.err /\ ~o.panic
       IN /\ last' = [call |-> "bind", kind |-> kind, out |-> o, read |-> rd]
          /\ seen' = seen \cup {[how |-> "bind", kind |-> kind, out |-> o, unparsed |-> Unparsed(kind)]}
          /\ rejected' = (rejected \/ (failed /\ w.sent = 0 /\ ~w.hijacked))
          /\ w' = IF o.panic THEN [w EXCEPT !.panicked = TRUE]
                  ELSE IF failed THEN WriteHeader(w, 400) ELSE w
          /\ c' = IF failed THEN PushError([c EXCEPT !.aborted = TRUE], "bind") ELSE c
  /\ rd' = AfterBind(rd, kind)
  /\ UNCHANGED ct

\* ShouldBindWith, and MustBindWith, which answers an error with 400, aborts and
\* notes an error of type bind.
BindCall(kind, must) ==
  /\ Call
  /\ \E o \in {Outcome(rd, kind)} :
       LET failed == must /\ o.err /\ ~o.panic
       IN /\ last' = [call |-> "bind", kind |-> kind, out |-> o, read |-> rd]
          /\ seen' = seen \cup {[how |-> "bind", kind |-> kind, out |-> o, unparsed |-> Unparsed(kind)]}
          /\ rejected' = (rejected \/ (failed /\ w.sent = 0 /\ ~w.hijacked))
          /\ w' = IF o.panic THEN [w EXCEPT !.panicked = TRUE]
                  ELSE IF failed THEN AbortWithStatus(w, 400) ELSE w
          /\ c' = IF failed THEN PushError([c EXCEPT !.aborted = TRUE], "bind") ELSE c
  /\ rd' = AfterBind(rd, kind)
  /\ UNCHANGED ct

\* Bind and ShouldBind choose by method and Content-Type, the others are told.
Bind == \E must \in BOOLEAN : BindCall(Default(rq.method, rq.format), must)

BindWith ==
  \E must \in BOOLEAN :
    \E kind \in {"json", "protobuf", "form post", "query", "header", "uri"} : BindCall(kind, must)

\* Faulty variant of ShouldBindBodyWith: the body is not kept.
ShouldBindBodyWithForgets ==
  /\ Call
  /\ \E codec \in {"json", "yaml", "protobuf"} :
       LET o == Decoded(codec, rd.left)
       IN /\ last' = [call |-> "bind body", kind |-> codec, out |-> o]
          /\ seen' = seen \cup {[how |-> "bind body", kind |-> codec, out |-> o, unparsed |-> 0]}
          /\ rd' = [rd EXCEPT !.left = FALSE]
          /\ w' = [w EXCEPT !.panicked = o.panic]
  /\ UNCHANGED <<c, ct, rejected>>

\* The body is read once and kept under BodyBytesKey for the next time.
ShouldBindBodyWith ==
  /\ Call
  /\ \E codec \in {"json", "yaml", "protobuf"} :
       LET kept == GetAs(c, BodyBytesKey, "bytes")
           full == IF kept = <<>> THEN rd.left ELSE kept[1]
           o == Decoded(codec, full)
       IN /\ last' = [call |-> "bind body", kind |-> codec, out |-> o]
          /\ seen' = seen \cup {[how |-> "bind body", kind |-> codec, out |-> o, unparsed |-> 0]}
          /\ c' = IF kept = <<>> THEN Set(c, BodyBytesKey, "bytes", full) ELSE c
          /\ rd' = IF kept = <<>> THEN [rd EXCEPT !.left = FALSE] ELSE rd
          /\ w' = IF o.panic THEN [w EXCEPT !.panicked = TRUE] ELSE w
  /\ UNCHANGED <<ct, rejected>>

GetRawData ==
  /\ Call
  /\ rd' = [rd EXCEPT !.left = FALSE]
  /\ last' = [call |-> "raw data"]
  /\ UNCHANGED <<c, w, ct, seen, rejected>>

-----------------------------------------------------------------------------
(* Rendering *)

\* The Content-Type a render sets; Redirect sets none of its own.
ContentTypeOf(kind) ==
  CASE kind \in {"json", "xml", "yaml", "redirect"} -> kind
    [] kind = "jsonp" -> "javascript"
    [] OTHER -> "other"

WriteContentType(old, kind) == IF old = "" THEN ContentTypeOf(kind) ELSE old

\* A render writes its bytes at once, or in parts that nothing comes between.
\* If the writer refuses them, the error makes Render panic.  Data that cannot
\* be serialised panics before anything is written, but a reader that fails
\* does so half-way.
RenderData(v, kind, sound) ==
  LET h == WriteHeaderNow(v)
      b == Write(v, 1)
  IN IF ~sound
     THEN [IF kind = "reader" THEN b ELSE v EXCEPT !.panicked = TRUE]
     ELSE [b EXCEPT !.panicked = @ \/ b.body = h.body]

\* Redirect goes by http.Redirect, which writes a page unless the Content-Type
\* was set or the method is not GET, and does not care whether it could.
RedirectCodes == {201} \cup (300..308)

RenderRedirect(v, code) ==
  IF code \notin RedirectCodes THEN [v EXCEPT !.panicked = TRUE]
  ELSE IF ct = "" /\ rq.method = "GET" THEN Write(WriteHeader(v, code), 1)
  ELSE WriteHeader(v, code)

\* Faulty variant of Render: the body is rendered for every status.
RenderAlways(v, code, kind, sound) ==
  IF kind = "redirect" THEN RenderRedirect(v, code)
  ELSE RenderData(WriteHeader(v, code), kind, sound)

\* Render: the status, then the body if the status has one.
Render(v, code, kind, sound) ==
  IF kind = "redirect" THEN RenderRedirect(v, code)
  ELSE IF code \in NoBody THEN WriteHeaderNow(WriteHeader(v, code))
  ELSE RenderData(WriteHeader(v, code), kind, sound)

\* JSON, XML, YAML, ... , Data, DataFromReader, Redirect; JSONP without a
\* callback in the query is JSON.
RenderCall ==
  /\ Call
  /\ \E code \in Codes, asked \in RenderKinds, sound \in BOOLEAN :
       LET kind == IF asked = "jsonp" /\ Query("callback") = "" THEN "json" ELSE asked
       IN /\ w' = Render(w, code, kind, sound)
          /\ ct' = IF kind # "redirect" \/ rq.method \in {"GET", "HEAD"}
                   THEN WriteContentType(ct, kind) ELSE ct
          /\ last' = [call |-> "render", kind |-> kind, code |-> code, sound |-> sound]
  /\ UNCHANGED <<rd, c, seen, rejected>>

\* Abort with a status alone, with an error or with JSON; Error by itself, which
\* panics without an error.
AbortCall ==
  /\ Call
  /\ \/ /\ \E code \in Codes : w' = AbortWithStatus(w, code)
        /\ \/ c' = [c EXCEPT !.aborted = TRUE]
           \/ c' = PushError([c EXCEPT !.aborted = TRUE], "private")
        /\ UNCHANGED ct
     \/ /\ \E code \in Codes, sound \in BOOLEAN : w' = Render(w, code, "json", sound)
        /\ c' = [c EXCEPT !.aborted = TRUE]
        /\ ct' = WriteContentType(ct, "json")
     \/ /\ c' = PushError(c, "public")
        /\ UNCHANGED <<w, ct>>
     \/ /\ w' = [w EXCEPT !.panicked = TRUE]
        /\ UNCHANGED <<c, ct>>
  /\ last' = [call |-> "abort"]
  /\ UNCHANGED <<rd, seen, rejected>>

\* Status only notes the code; File lets http.ServeFile answer, which writes no
\* body with 301 and 304.
Direct ==
  /\ Call
  /\ \/ \E code \in Codes \cup {301} : w' = WriteHeader(w, code) /\ ct' = ct
     \/ w' = WriteHeader(w, 304) /\ ct' = ""
     \/ w' = Write(WriteHeader(w, 200), 1) /\ ct' = WriteContentType(ct, "file")
     \/ w' = Write(WriteHeader(w, 404), 1) /\ ct' = "text"
     \/ (w' = Flush(w) \/ w' = Hijack(w)) /\ ct' = ct
  /\ last' = [call |-> "status"]
  /\ UNCHANGED <<rd, c, seen, rejected>>

-----------------------------------------------------------------------------
(* Content negotiation *)

\* Comparing an accepted format with an offer, symbol by symbol, up to a "*", a
\* difference or the end of the accepted one; an offer that ends first panics.
Compare(accepted, offer) ==
  LET ends == {i \in DOMAIN accepted :
                 \/ accepted[i] = "*" \/ i > Len(offer)
                 \/ offer[i] = "*" \/ accepted[i] # offer[i]}
      i == Min(ends)
  IN CASE ends = {} -> "yes"
       [] ends # {} /\ accepted[i] = "*" -> "yes"
       [] ends # {} /\ accepted[i] # "*" /\ i > Len(offer) -> "panic"
       [] OTHER -> IF offer[i] = "*" THEN "yes" ELSE "no"

Result(accepted, offer) == Compare(Spelling[accepted], Spelling[offer])

\* Faulty variant of NegotiateFormat: the server's order decides.
NegotiateFormatOffers(accepted, offered) ==
  LET hits == {j \in DOMAIN offered :
                 \E i \in DOMAIN accepted : Result(accepted[i], offered[j]) # "no"}
      j == Min(hits)
      i == Min({n \in DOMAIN accepted : Result(accepted[n], offered[j]) # "no"})
  IN CASE accepted = <<>> -> offered[1]
       [] accepted # <<>> /\ hits = {} -> ""
       [] OTHER -> IF Result(accepted[i], offered[j]) = "yes" THEN offered[j] ELSE "panic"

\* The first accepted format that some offer matches decides.
NegotiateFormat(accepted, offered) ==
  LET hits == {i \in DOMAIN accepted :
                 \E j \in DOMAIN offered : Result(accepted[i], offered[j]) # "no"}
      i == Min(hits)
      j == Min({n \in DOMAIN offered : Result(accepted[i], offered[n]) # "no"})
  IN CASE accepted = <<>> -> offered[1]
       [] accepted # <<>> /\ hits = {} -> ""
       [] OTHER -> IF Result(accepted[i], offered[j]) = "yes" THEN offered[j] ELSE "panic"

\* c.Accepted, or the header's formats in its order.
Accepted == IF c.accepted = <<>> THEN rq.accept ELSE c.accepted[1]

\* Negotiate renders JSON, XML or YAML, and answers 406 otherwise.
Negotiate ==
  /\ Call
  /\ \E offered \in Offers, code \in Codes :
       LET format == NegotiateFormat(Accepted, offered)
           known == format \in {"json", "xml", "yaml"}
       IN /\ w' = CASE format = "panic" -> [w EXCEPT !.panicked = TRUE]
                    [] known -> Render(w, code, format, TRUE)
                    [] OTHER -> AbortWithStatus(w, 406)
          /\ ct' = IF known THEN WriteContentType(ct, format) ELSE ct
          /\ c' = IF known \/ format = "panic" THEN [c EXCEPT !.accepted = <<Accepted>>]
                  ELSE PushError([c EXCEPT !.accepted = <<Accepted>>, !.aborted = TRUE], "private")
          /\ last' = [call |-> "negotiate", accepted |-> Accepted, offered |-> offered,
                      format |-> format, code |-> code,
                      fresh |-> ~Written(w) /\ w.sent = 0 /\ ct = ""]
  /\ UNCHANGED <<rd, seen, rejected>>

SetAccepted ==
  /\ Call
  /\ c' = [c EXCEPT !.accepted = << <<"yaml", "xml">> >>]
  /\ last' = [call |-> "set accepted"]
  /\ UNCHANGED <<rd, w, ct, seen, rejected>>

-----------------------------------------------------------------------------
(* The end of the request *)

\* The method sets UseRender or useContextWriter.
ChooseWriter ==
  /\ Call
  /\ \/ c' = [c EXCEPT !.useRender = TRUE]
     \/ c' = [c EXCEPT !.useWriter = TRUE]
  /\ last' = [call |-> "choose"]
  /\ UNCHANGED <<rd, w, ct, seen, rejected>>

Return ==
  /\ pc = "handle"
  /\ ~w.panicked
  /\ pc' \in {"encode", "failed"}
  /\ last' = None
  /\ UNCHANGED <<rq, rd, c, w, ct, calls, seen, rejected>>

\* EncodeResponse: Finish writes JSON past the context, unless the method uses
\* the context's writer; then the request's Content-Type chooses, and a method
\* that rendered is left alone.
EncodeResponse ==
  /\ pc = "encode"
  /\ w' = CASE ~c.useRender /\ ~c.useWriter -> RawWrite(w, 1)
            [] ~c.useRender /\ c.useWriter /\ c.contentType \in {"json", "xml"} ->
                 Render(w, 200, c.contentType, TRUE)
            [] OTHER -> w
  /\ ct' = IF ~c.useRender /\ c.useWriter /\ c.contentType \in {"json", "xml"}
           THEN WriteContentType(ct, c.contentType) ELSE ct
  /\ pc' = "done"
  /\ last' = [call |-> "encode"]
  /\ UNCHANGED <<rq, rd, c, calls, seen, rejected>>

\* The error encoders: DefaultErrorEncoder writes the text of the error,
\* JsonErrorEncoder sets a status before.
EncodeError ==
  /\ pc = "failed"
  /\ \/ w' = RawWrite(w, 1) /\ ct' = "text"
     \/ \E code \in {400, 500} : w' = RawWrite(RawWriteHeader(w, code), 1) /\ ct' = ct
  /\ pc' = "done"
  /\ last' = [call |-> "encode"]
  /\ UNCHANGED <<rq, rd, c, calls, seen, rejected>>

Finished == (pc = "done" \/ w.panicked) /\ UNCHANGED vars

Next ==
  \/ Decode \/ AbortCall \/ Bind \/ BindWith \/ ShouldBindBodyWith \/ GetRawData
  \/ RenderCall \/ Direct \/ Negotiate \/ SetAccepted \/ ChooseWriter
  \/ Return \/ EncodeResponse \/ EncodeError \/ Finished

Spec == Init /\ [][Next]_vars

-----------------------------------------------------------------------------
(* Properties *)

\* A request whose binding failed, before anything was sent, is answered with
\* 400 whatever the method, EncodeResponse or an error encoder do afterwards,
\* is aborted, and has an error of type bind (MustBindWith).
BadInputIs400 ==
  rejected => /\ w.sent = 400
              /\ c.aborted
              /\ "bind" \in Range(c.errors)

\* Binding again gives the same value and the same error, whatever was called in
\* between: for the query, header, path, form and multipart bindings, and for
\* ShouldBindBodyWith, which keeps the body.  A form that net/http cannot parse
\* fails, but only once, whichever form binding comes first.  (The other bindings
\* read the body stream, which is empty the second time, and PostForm of a
\* multipart request is filled by another binding.)
BindsRepeat ==
  \A s, t \in seen :
    /\ ( /\ s.how = t.how /\ s.kind = t.kind
         /\ s.how = "bind" => s.kind \notin Codecs \cup {"form post"} )
       => s.out = t.out \/ (~rq.parses /\ s.unparsed # t.unparsed)
    /\ s.unparsed # 0 /\ t.unparsed # 0 => s = t

\* An offer satisfies an accepted format: it starts with it, or with the part of
\* it before a "*", or is itself a "*" after a part of it.
Satisfies(offer, accepted) ==
  \E n \in 0..Len(accepted) :
    /\ n <= Len(offer)
    /\ \A i \in 1..n : accepted[i] = offer[i]
    /\ \/ n = Len(accepted)
       \/ accepted[n + 1] = "*"
       \/ n < Len(offer) /\ offer[n + 1] = "*"

\* Negotiate answers with an offer that satisfies the client's first format that
\* any offer satisfies; with 406 if there is none, or no render for it; and what
\* it chose is what is sent.
NegotiatedIsAccepted ==
  (last.call = "negotiate" /\ last.format # "panic") =>
    LET Some(a) == \E o \in Range(last.offered) : Satisfies(Spelling[o], Spelling[a])
        wanted == {i \in DOMAIN last.accepted : Some(last.accepted[i])}
    IN /\ last.accepted # <<>> /\ wanted = {} => last.format = ""
       /\ wanted # {} => /\ last.format \in Range(last.offered)
                         /\ Satisfies(Spelling[last.format], Spelling[last.accepted[Min(wanted)]])
       /\ (last.fresh /\ ~w.panicked) =>
            IF last.format \in {"json", "xml", "yaml"}
            THEN ct = last.format /\ w.status = w.sent
            ELSE w.sent = 406 /\ c.aborted

\* Rendering data that can be serialised, when nothing has been sent yet, does
\* not panic, whatever the status: a status without a body is sent without one
\* (Render), also for EncodeResponse.
RenderNeverPanics ==
  [][ (w' # w /\ ~Written(w) /\ ~w.raw /\ w.status \in 200..999
       /\ \/ last'.call = "encode"
          \/ /\ last'.call = "render"
             /\ last'.sound
             /\ last'.code \in IF last'.kind = "redirect" THEN RedirectCodes ELSE 200..999)
      => ~w'.panicked ]_vars

\* Bind decodes a sound payload of the request's Content-Type into a target for
\* which it is valid (the comment of Bind).
BindDecodesBody ==
  ( /\ last.call = "bind" /\ last.kind = rq.format /\ last.kind \in Codecs
    /\ rq.sound /\ rq.valid /\ calls = 1 ) => ~last.out.err
=============================================================================
