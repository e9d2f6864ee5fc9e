--------------------------- MODULE ResponseWriter ---------------------------
(***************************************************************************)
(* The three writers a response goes through: the responseWriter of an     *)
(* Mcontext (rest/response_writer.go), the interceptingWriter of an Engine *)
(* that has finalizers (rest/engine.go), and the http.ResponseWriter of    *)
(* net/http, which is external.                                            *)
(*                                                                         *)
(* An operation is an operator on the record that holds the state of the   *)
(* three, so that a module that uses the writers can compose several in    *)
(* one step.  WSpec lets every operation happen in any order.  Statuses    *)
(* 100 to 199, which net/http sends in addition to the final one, are left *)
(* out.                                                                    *)
(***************************************************************************)
EXTENDS Integers

CONSTANTS
  Codes,     \* the status codes handed to the writers
  Sizes      \* the numbers of bytes written at once

ASSUME WriterAssumption ==
  /\ Codes \subseteq Int
  /\ Codes \cap (100..199) = {}
  /\ Sizes \subseteq Nat

VARIABLE w

noWritten == -1
defaultStatus == 200

Writers == [
  size : Int,            \* responseWriter.size
  status : Int,          \* responseWriter.status
  counting : BOOLEAN,    \* there is an interceptingWriter
  code : Int,            \* interceptingWriter.code
  written : Int,         \* interceptingWriter.written
  sent : Int,            \* net/http: the status sent, 0 while none is
  body : Int,            \* net/http: the bytes of body accepted
  hijacked : BOOLEAN,    \* net/http: the connection is the handler's
  panicked : BOOLEAN,    \* an operation panicked
  late : BOOLEAN,        \* WriteHeader printed its warning: the status changed
                         \* after the header had been sent
  raw : BOOLEAN]         \* something was written past the responseWriter

\* A new response; reset of the responseWriter.
NewWriter(finalizers) ==
  [size |-> noWritten, status |-> defaultStatus, counting |-> finalizers,
   code |-> 200, written |-> 0, sent |-> 0, body |-> 0, hijacked |-> FALSE,
   panicked |-> FALSE, late |-> FALSE, raw |-> FALSE]

-----------------------------------------------------------------------------
(* net/http *)

\* Statuses that have no body.
NoBody == {204, 304}

\* The first status wins; a number that is none panics.
NetWriteHeader(v, code) ==
  IF v.hijacked \/ v.sent # 0 THEN v
  ELSE IF code \in 200..999 THEN [v EXCEPT !.sent = code]
  ELSE [v EXCEPT !.panicked = TRUE]

\* Bytes are accepted unless the status has no body or the connection is gone.
\* Without a status so far, 200 is sent.
Accepts(v) == ~v.hijacked /\ v.sent \notin NoBody

NetWrite(v, n) ==
  LET h == NetWriteHeader(v, 200)
  IN IF Accepts(h) THEN [h EXCEPT !.body = @ + n] ELSE h

-----------------------------------------------------------------------------
(* interceptingWriter *)

\* Faulty variant of InterceptWriteHeader: keeps the code if none was sent only
\* by this writer, as if 200 meant unset.
InterceptWriteHeaderKeeps(v, code) ==
  NetWriteHeader(IF v.counting /\ v.code # 200 THEN [v EXCEPT !.code = code] ELSE v, code)

InterceptWriteHeader(v, code) ==
  NetWriteHeader(IF v.counting THEN [v EXCEPT !.code = code] ELSE v, code)

InterceptWrite(v, n) ==
  LET h == NetWrite(v, n)
  IN IF v.counting THEN [h EXCEPT !.written = @ + h.body - v.body] ELSE h

-----------------------------------------------------------------------------
(* responseWriter *)

Written(v) == v.size # noWritten

WriteHeader(v, code) ==
  IF code > 0 /\ v.status # code
  THEN [v EXCEPT !.status = code, !.late = @ \/ Written(v)]
  ELSE v

WriteHeaderNow(v) ==
  IF Written(v) THEN v ELSE InterceptWriteHeader([v EXCEPT !.size = 0], v.status)

\* Write and WriteString.
Write(v, n) ==
  LET h == WriteHeaderNow(v)
      a == InterceptWrite(h, n)
  IN IF h.panicked THEN h ELSE [a EXCEPT !.size = @ + a.body - h.body]

\* The interceptingWriter is no http.Flusher and no http.Hijacker.
Flush(v) ==
  LET h == WriteHeaderNow(v)
  IN IF v.counting THEN [h EXCEPT !.panicked = TRUE] ELSE h

Hijack(v) ==
  LET h == [v EXCEPT !.size = IF @ < 0 THEN 0 ELSE @]
  IN IF v.counting THEN [h EXCEPT !.panicked = TRUE] ELSE [h EXCEPT !.hijacked = TRUE]

\* Finish, an error encoder or a hook writes to the writer ServeHTTP was given,
\* with or without a status of its own.
RawWrite(v, n) == InterceptWrite([v EXCEPT !.raw = TRUE], n)

RawWriteHeader(v, code) == InterceptWriteHeader([v EXCEPT !.raw = TRUE], code)

-----------------------------------------------------------------------------
WInit == \E finalizers \in BOOLEAN : w = NewWriter(finalizers)

WNext ==
  /\ ~w.panicked
  /\ \/ \E code \in Codes : w' = WriteHeader(w, code)
     \/ w' = WriteHeaderNow(w)
     \/ \E n \in Sizes : w' = Write(w, n)
     \/ w' = Flush(w)
     \/ w' = Hijack(w)
     \/ \E n \in Sizes : w' = RawWrite(w, n)
     \/ \E code \in Codes : w' = RawWriteHeader(w, code)

WSpec == WInit /\ [][WNext]_w

-----------------------------------------------------------------------------
(* Properties *)

\* What the handler is told is what the client got: once the context has
\* written its header, a status was sent, Status() is that status unless
\* WriteHeader warned, and Size() is the size of the body; nothing was sent
\* before.  A write past the context may come in between, and then the body is
\* at least as long.
ContextTruthful ==
  ~w.hijacked /\ ~w.panicked =>
    /\ Written(w) => w.sent # 0 /\ w.size <= w.body
    /\ ~w.raw => /\ Written(w) /\ ~w.late => w.status = w.sent
                 /\ Written(w) => w.size = w.body
                 /\ ~Written(w) => w.sent = 0 /\ w.body = 0

\* What the finalizers are told is what the client got: the interceptingWriter
\* has the status sent and the size of the body, whoever wrote it, unless a
\* status was given past the context.
FinalizerTruthful ==
  w.counting /\ ~w.panicked =>
    /\ w.written = w.body
    /\ ~w.raw /\ w.sent # 0 => w.code = w.sent

\* A status without a body is sent without one.
BodilessIsEmpty == w.sent \in NoBody => w.body = 0

\* The status, the size and the body that responseWriter, interceptingWriter
\* and net/http have of one response agree, the two statuses as long as none was
\* given past the context (engine.go:239 keeps such a one, sent or not).
WriterInv == ContextTruthful /\ FinalizerTruthful /\ BodilessIsEmpty
=============================================================================
