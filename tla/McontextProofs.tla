--------------------------- MODULE McontextProofs ---------------------------
(***************************************************************************)
(* Theorems about Mcontext for every request, every mapping of values and  *)
(* any number of calls of the service method: the three writers agree, a   *)
(* rejected request is answered with 400, a render does not panic,         *)
(* negotiation chooses as it should, and binding again gives the same.     *)
(***************************************************************************)
EXTENDS Mcontext, ResponseWriterProofs, WellFoundedInduction

\* What a sequence of operations may do to the writers: they stay sound, and a
\* status that was sent stays sent.
Follows(v, u) == Sound(u) /\ (v.sent # 0 => u.sent = v.sent)

\* A writer that may be used.
Usable(v) == Sound(v) /\ ~v.panicked

\* The fields of a record that panicked.
LEMMA PanickedFollows ==
  ASSUME NEW v, Sound(v)
  PROVE  Follows(v, [v EXCEPT !.panicked = TRUE])
<1>1. Sound([v EXCEPT !.panicked = TRUE])
  BY PanickedSound DEF Sound
<1>2. [v EXCEPT !.panicked = TRUE].sent = v.sent
  BY DEF Sound, Writers
<1>3. QED
  BY <1>1, <1>2 DEF Follows

\* WriteHeader changes the status only.
LEMMA WriteHeaderFollows ==
  ASSUME NEW v, Usable(v), NEW code \in Int
  PROVE  /\ Usable(WriteHeader(v, code)) /\ Follows(v, WriteHeader(v, code))
         /\ WriteHeader(v, code).sent = v.sent
         /\ WriteHeader(v, code).size = v.size
         /\ WriteHeader(v, code).raw = v.raw
         /\ WriteHeader(v, code).status = IF code > 0 THEN code ELSE v.status
<1>1. Sound(WriteHeader(v, code))
  BY WriteHeaderSound DEF Usable
<1>2. v \in Writers
  BY DEF Usable, Sound
<1>3. CASE code > 0 /\ v.status # code
  <2>1. WriteHeader(v, code) = [v EXCEPT !.status = code, !.late = @ \/ Written(v)]
    BY <1>3 DEF WriteHeader
  <2>2. /\ WriteHeader(v, code).sent = v.sent
        /\ WriteHeader(v, code).size = v.size
        /\ WriteHeader(v, code).raw = v.raw
        /\ WriteHeader(v, code).panicked = v.panicked
        /\ WriteHeader(v, code).status = code
    BY <1>2, <2>1 DEF Writers
  <2>3. QED
    BY <1>1, <1>3, <2>2 DEF Usable, Follows
<1>4. CASE ~(code > 0 /\ v.status # code)
  <2>1. WriteHeader(v, code) = v
    BY <1>4 DEF WriteHeader
  <2>2. QED
    BY <1>4, <2>1 DEF Usable, Follows
<1>5. QED
  BY <1>3, <1>4

\* What WriteHeaderNow sends, if it sends anything.
LEMMA WriteHeaderNowSends ==
  ASSUME NEW v, Usable(v), ~Written(v)
  PROVE  LET a == [v EXCEPT !.size = 0]
         IN  HeaderSent(WriteHeaderNow(v), a, v.status, IF v.counting THEN v.status ELSE v.code)
<1> DEFINE a == [v EXCEPT !.size = 0]
<1>1. v \in Writers /\ v.status \in Int
  BY Fields DEF Usable, Sound
<1>2. a \in Writers /\ a.counting = v.counting /\ a.code = v.code
  <2>1. 0 \in Int
    OBVIOUS
  <2>2. a \in Writers
    BY <1>1, <2>1, UpdatesInt
  <2>3. QED
    BY <1>1, <2>2 DEF Writers
<1>3. WriteHeaderNow(v) = InterceptWriteHeader(a, v.status)
  BY DEF WriteHeaderNow
<1> HIDE DEF a
<1>4. HeaderSent(WriteHeaderNow(v), a, v.status, IF a.counting THEN v.status ELSE a.code)
  BY <1>1, <1>2, <1>3, InterceptWriteHeaderFields
<1>5. QED
  BY <1>2, <1>4 DEF a

\* A fresh response gets the status that was noted, or panics when it is none.
LEMMA StatusIsSent ==
  ASSUME NEW v, Usable(v), ~Written(v), v.sent = 0
  PROVE  LET u == WriteHeaderNow(v)
         IN  /\ u.status = v.status /\ u.size = 0 /\ u.raw = v.raw
             /\ v.status \in 200..999 => u.sent = v.status /\ ~u.panicked
             /\ v.status \notin 200..999 => u.panicked
             /\ ~u.hijacked
<1> DEFINE u == WriteHeaderNow(v)
           a == [v EXCEPT !.size = 0]
<1>1. HeaderSent(u, a, v.status, IF v.counting THEN v.status ELSE v.code)
  BY WriteHeaderNowSends
<1>2. /\ a.size = 0 /\ a.status = v.status /\ a.sent = v.sent /\ a.raw = v.raw
      /\ a.hijacked = v.hijacked /\ a.panicked = v.panicked
  BY DEF Usable, Sound, Writers
<1>3. ~v.hijacked /\ ~v.panicked
  BY DEF Usable, Sound
<1> HIDE DEF u, a
<1>4. QED
  BY <1>1, <1>2, <1>3 DEF HeaderSent, u

\* WriteHeaderNow leaves a response written.
LEMMA WriteHeaderNowFollows ==
  ASSUME NEW v, Usable(v)
  PROVE  Follows(v, WriteHeaderNow(v)) /\ Written(WriteHeaderNow(v))
<1>1. Sound(WriteHeaderNow(v)) /\ Written(WriteHeaderNow(v))
  BY WriteHeaderNowSound DEF Usable
<1>2. v.sent # 0 => WriteHeaderNow(v).sent = v.sent
  <2>1. CASE Written(v)
    BY <2>1 DEF WriteHeaderNow
  <2>2. CASE ~Written(v)
    <3> DEFINE a == [v EXCEPT !.size = 0]
    <3>1. HeaderSent(WriteHeaderNow(v), a, v.status, IF v.counting THEN v.status ELSE v.code)
      BY <2>2, WriteHeaderNowSends
    <3>2. a.sent = v.sent
      BY DEF Usable, Sound, Writers
    <3> HIDE DEF a
    <3>3. QED
      BY <3>1, <3>2 DEF HeaderSent
  <2>3. QED
    BY <2>1, <2>2
<1>3. QED
  BY <1>1, <1>2 DEF Follows

\* What Write does after the header: it may only panic over the header.
LEMMA WriteFields ==
  ASSUME NEW v, Usable(v), NEW n \in Nat
  PROVE  LET h == WriteHeaderNow(v)
             u == Write(v, n)
         IN  /\ h.panicked => u = h
             /\ ~h.panicked =>
                  /\ ~u.panicked /\ u.status = h.status
                  /\ h.sent # 0 => u.sent = h.sent
                  /\ u.body = IF ~h.hijacked /\ h.sent \notin NoBody THEN h.body + n ELSE h.body
             /\ h.body \in Nat
<1> DEFINE h == WriteHeaderNow(v)
           a == InterceptWrite(h, n)
           b == [a EXCEPT !.size = a.size + a.body - h.body]
<1>1. h \in Writers /\ h.body \in Nat
  BY WriteHeaderNowFollows DEF Follows, Sound
<1>2. Write(v, n) = IF h.panicked THEN h ELSE b
  BY DEF Write
<1> HIDE DEF h
<1>3. BytesSent(a, h, n)
  BY <1>1, InterceptWriteFields
<1> HIDE DEF a
<1>4. b.sent = a.sent /\ b.panicked = a.panicked /\ b.body = a.body /\ b.status = a.status
  BY <1>3 DEF BytesSent, Writers
<1> HIDE DEF b
<1>5. QED
  BY <1>1, <1>2, <1>3, <1>4 DEF BytesSent, h

\* Write follows.
LEMMA WriteFollows ==
  ASSUME NEW v, Usable(v), NEW n \in Nat
  PROVE  Follows(v, Write(v, n))
<1>1. Sound(Write(v, n))
  BY WriteSound DEF Usable
<1>2. v.sent # 0 => Write(v, n).sent = v.sent
  BY WriteFields, WriteHeaderNowFollows DEF Follows
<1>3. QED
  BY <1>1, <1>2 DEF Follows

\* Flush and Hijack follow.
LEMMA FlushFollows ==
  ASSUME NEW v, Usable(v)
  PROVE  Follows(v, Flush(v)) /\ Follows(v, Hijack(v))
<1>1. Sound(Flush(v)) /\ Sound(Hijack(v))
  BY FlushSound, HijackSound DEF Usable
<1>2. v.sent # 0 => Flush(v).sent = v.sent
  <2> DEFINE h == WriteHeaderNow(v)
  <2>1. Follows(v, h)
    BY WriteHeaderNowFollows
  <2>2. Flush(v) = IF v.counting THEN [h EXCEPT !.panicked = TRUE] ELSE h
    BY DEF Flush
  <2> HIDE DEF h
  <2>3. [h EXCEPT !.panicked = TRUE].sent = h.sent
    BY <2>1 DEF Follows, Sound, Writers
  <2>4. QED
    BY <2>1, <2>2, <2>3 DEF Follows
<1>3. Hijack(v).sent = v.sent
  <2> DEFINE size == IF v.size < 0 THEN 0 ELSE v.size
             h == [v EXCEPT !.size = size]
  <2>1. v \in Writers
    BY DEF Usable, Sound
  <2>2. size \in Int
    BY <2>1, Fields
  <2>3. h \in Writers /\ h.sent = v.sent
    <3>1. h \in Writers
      BY <2>1, <2>2, UpdatesInt
    <3>2. QED
      BY <2>1, <3>1 DEF Writers
  <2>4. Hijack(v) = IF v.counting THEN [h EXCEPT !.panicked = TRUE] ELSE [h EXCEPT !.hijacked = TRUE]
    BY DEF Hijack
  <2> HIDE DEF h
  <2>5. [h EXCEPT !.panicked = TRUE].sent = h.sent /\ [h EXCEPT !.hijacked = TRUE].sent = h.sent
    BY <2>3 DEF Writers
  <2>6. QED
    BY <2>3, <2>4, <2>5
<1>4. QED
  BY <1>1, <1>2, <1>3 DEF Follows

\* Writes past the context.
LEMMA RawFollows ==
  ASSUME NEW v, Usable(v)
  PROVE  /\ \A n \in Nat : Follows(v, RawWrite(v, n)) /\ Usable(RawWrite(v, n))
         /\ \A code \in 200..999 :
              Follows(v, RawWriteHeader(v, code)) /\ Usable(RawWriteHeader(v, code))
<1> DEFINE r == [v EXCEPT !.raw = TRUE]
<1>1. r \in Writers /\ r.sent = v.sent /\ r.panicked = v.panicked /\ r.hijacked = v.hijacked
  <2>1. v \in Writers
    BY DEF Usable, Sound
  <2>2. r \in Writers
    BY <2>1, UpdatesBool
  <2>3. QED
    BY <2>1, <2>2 DEF Writers
<1> HIDE DEF r
<1>2. ASSUME NEW n \in Nat
      PROVE  Follows(v, RawWrite(v, n)) /\ Usable(RawWrite(v, n))
  <2> DEFINE u == InterceptWrite(r, n)
  <2>1. Sound(RawWrite(v, n))
    BY RawWriteSound DEF Usable
  <2>2. BytesSent(u, r, n)
    BY <1>1, InterceptWriteFields
  <2>3. RawWrite(v, n) = u
    BY DEF RawWrite, r
  <2> HIDE DEF u
  <2>4. QED
    BY <1>1, <2>1, <2>2, <2>3 DEF BytesSent, Follows, Usable
<1>3. ASSUME NEW code \in 200..999
      PROVE  Follows(v, RawWriteHeader(v, code)) /\ Usable(RawWriteHeader(v, code))
  <2> DEFINE u == InterceptWriteHeader(r, code)
  <2>1. Sound(RawWriteHeader(v, code))
    BY RawWriteHeaderSound DEF Usable
  <2>2. HeaderSent(u, r, code, IF r.counting THEN code ELSE r.code)
    BY <1>1, InterceptWriteHeaderFields
  <2>3. RawWriteHeader(v, code) = u
    BY DEF RawWriteHeader, r
  <2> HIDE DEF u
  <2>4. QED
    BY <1>1, <2>1, <2>2, <2>3 DEF HeaderSent, Follows, Usable
<1>4. QED
  BY <1>2, <1>3

\* AbortWithStatus notes a status and sends it.
LEMMA AbortFollows ==
  ASSUME NEW v, Usable(v), NEW code \in Int
  PROVE  /\ Follows(v, AbortWithStatus(v, code))
         /\ code \in 200..999 /\ v.sent = 0 /\ ~v.hijacked =>
              /\ AbortWithStatus(v, code).sent = code
              /\ AbortWithStatus(v, code).status = code
              /\ ~AbortWithStatus(v, code).panicked
<1> DEFINE h == WriteHeader(v, code)
<1>1. /\ Usable(h) /\ h.sent = v.sent /\ h.size = v.size
      /\ h.status = IF code > 0 THEN code ELSE v.status
  BY WriteHeaderFollows
<1>2. AbortWithStatus(v, code) = WriteHeaderNow(h)
  BY DEF AbortWithStatus
<1> HIDE DEF h
<1>3. Follows(v, WriteHeaderNow(h))
  BY <1>1, WriteHeaderNowFollows DEF Follows
<1>4. ASSUME code \in 200..999, v.sent = 0, ~v.hijacked
      PROVE  /\ WriteHeaderNow(h).sent = code
             /\ WriteHeaderNow(h).status = code
             /\ ~WriteHeaderNow(h).panicked
  <2>1. ~Written(v)
    BY <1>4 DEF Usable, Sound
  <2>2. ~Written(h)
    BY <1>1, <2>1 DEF Written
  <2>3. h.status = code
    BY <1>1, <1>4
  <2>4. QED
    BY <1>1, <1>4, <2>2, <2>3, StatusIsSent
<1>5. QED
  BY <1>2, <1>3, <1>4

\* A render follows, and if nothing was sent before, it sends the status that is
\* noted, and panics only over data that cannot be serialised or over a number
\* that is no status.
LEMMA RenderDataFollows ==
  ASSUME NEW v, Usable(v), NEW kind, NEW sound \in BOOLEAN
  PROVE  LET u == RenderData(v, kind, sound)
         IN  /\ Follows(v, u)
             /\ ~Written(v) /\ v.sent = 0 /\ sound =>
                  /\ v.status \in (200..999) \ NoBody => ~u.panicked
                  /\ ~u.panicked => u.sent = v.status /\ u.status = v.status
<1> DEFINE h == WriteHeaderNow(v)
           b == Write(v, 1)
           u == RenderData(v, kind, sound)
<1>1. Follows(v, h) /\ Follows(v, b) /\ h.body \in Nat
  BY WriteHeaderNowFollows, WriteFollows DEF Follows, Sound
<1>2. u = IF ~sound THEN [IF kind = "reader" THEN b ELSE v EXCEPT !.panicked = TRUE]
          ELSE [b EXCEPT !.panicked = b.panicked \/ b.body = h.body]
  BY DEF RenderData
<1>3. /\ h.panicked => b = h
      /\ ~h.panicked => /\ ~b.panicked /\ b.status = h.status
                        /\ h.sent # 0 => b.sent = h.sent
                        /\ b.body = IF ~h.hijacked /\ h.sent \notin NoBody
                                    THEN h.body + 1 ELSE h.body
  BY WriteFields
<1>4. ~Written(v) /\ v.sent = 0 =>
        /\ v.status \in 200..999 => h.sent = v.status /\ ~h.panicked
        /\ v.status \notin 200..999 => h.panicked
        /\ ~h.hijacked /\ h.status = v.status
  BY StatusIsSent
<1> HIDE DEF h, b, u
<1>5. CASE ~sound
  <2>1. Follows(v, [v EXCEPT !.panicked = TRUE]) /\ Follows(b, [b EXCEPT !.panicked = TRUE])
    BY <1>1, PanickedFollows DEF Follows, Usable
  <2>2. Follows(v, u)
    BY <1>1, <1>2, <1>5, <2>1 DEF Follows
  <2>3. QED
    BY <1>5, <2>2 DEF u
<1>6. CASE sound
  <2>1. CASE b.panicked \/ b.body = h.body
    <3>1. u = [b EXCEPT !.panicked = TRUE]
      BY <1>2, <1>6, <2>1
    <3>2. Follows(b, u)
      BY <1>1, <3>1, PanickedFollows DEF Follows
    <3>3. u.panicked
      BY <1>1, <3>1 DEF Follows, Sound, Writers
    <3>4. ~Written(v) /\ v.sent = 0 /\ v.status \notin NoBody => v.status \notin 200..999
      BY <1>1, <1>3, <1>4, <2>1
    <3>5. Follows(v, u)
      BY <1>1, <3>2 DEF Follows
    <3>6. QED
      BY <3>3, <3>4, <3>5 DEF u
  <2>2. CASE ~(b.panicked \/ b.body = h.body)
    <3>1. u = [b EXCEPT !.panicked = FALSE]
      BY <1>2, <1>6, <2>2
    <3>2. b \in Writers /\ b.panicked = FALSE
      BY <1>1, <2>2, Fields DEF Follows, Sound
    <3>3. u = b
      BY <3>1, <3>2 DEF Writers
    <3>4. ~Written(v) /\ v.sent = 0 => b.sent = v.status /\ b.status = v.status /\ v.status \in 200..999
      BY <1>3, <1>4, <2>2
    <3>5. QED
      BY <1>1, <2>2, <3>3, <3>4 DEF u
  <2>3. QED
    BY <2>1, <2>2
<1>7. QED
  BY <1>5, <1>6

\* A redirect follows, and does not panic over a code that redirects.
LEMMA RedirectFollows ==
  ASSUME NEW v, Usable(v), NEW code \in Int
  PROVE  LET u == RenderRedirect(v, code)
         IN  /\ Follows(v, u)
             /\ ~Written(v) /\ v.sent = 0 /\ code \in RedirectCodes => ~u.panicked
<1> DEFINE h == WriteHeader(v, code)
<1>1. CASE code \notin RedirectCodes
  BY <1>1, PanickedFollows DEF RenderRedirect, Usable
<1>2. CASE code \in RedirectCodes
  <2>1. /\ Usable(h) /\ Follows(v, h) /\ h.sent = v.sent /\ h.size = v.size /\ h.status = code
    BY <1>2, WriteHeaderFollows DEF RedirectCodes
  <2>2. RenderRedirect(v, code) = IF ct = "" /\ rq.method = "GET" THEN Write(h, 1) ELSE h
    BY <1>2 DEF RenderRedirect
  <2> HIDE DEF h
  <2>3. Follows(h, Write(h, 1))
    BY <2>1, WriteFollows
  <2>4. ~Written(v) /\ v.sent = 0 => ~Write(h, 1).panicked
    <3>1. WriteHeaderNow(h).panicked => Write(h, 1) = WriteHeaderNow(h)
      BY <2>1, WriteFields
    <3>2. ~WriteHeaderNow(h).panicked => ~Write(h, 1).panicked
      BY <2>1, WriteFields
    <3>3. code \in 200..999
      BY <1>2 DEF RedirectCodes
    <3>4. ~Written(v) /\ v.sent = 0 => ~WriteHeaderNow(h).panicked
      BY <2>1, <3>3, StatusIsSent DEF Written
    <3>5. QED
      BY <3>1, <3>2, <3>4
  <2>5. QED
    BY <2>1, <2>2, <2>3, <2>4 DEF Follows, Usable
<1>3. QED
  BY <1>1, <1>2

\* A render of any kind follows, the one of a status without a body included.
LEMMA RenderFollows ==
  ASSUME NEW v, Usable(v), NEW code \in Int, NEW kind, NEW sound \in BOOLEAN
  PROVE  LET u == Render(v, code, kind, sound)
         IN  /\ Follows(v, u)
             /\ ~Written(v) /\ v.sent = 0 /\ sound =>
                  /\ code \in (IF kind = "redirect" THEN RedirectCodes ELSE 200..999) => ~u.panicked
                  /\ kind # "redirect" /\ ~u.panicked => u.sent = u.status
<1>1. CASE kind = "redirect"
  BY <1>1, RedirectFollows DEF Render
<1>2. CASE kind # "redirect"
  <2> DEFINE h == WriteHeader(v, code)
  <2>1. /\ Usable(h) /\ Follows(v, h) /\ h.sent = v.sent /\ h.size = v.size
        /\ h.status = IF code > 0 THEN code ELSE v.status
    BY WriteHeaderFollows
  <2>2. Render(v, code, kind, sound) =
          IF code \in NoBody THEN WriteHeaderNow(h) ELSE RenderData(h, kind, sound)
    BY <1>2 DEF Render
  <2>3. Written(h) <=> Written(v)
    BY <2>1 DEF Written
  <2> HIDE DEF h
  <2>4. CASE code \in NoBody
    <3>1. Follows(h, WriteHeaderNow(h))
      BY <2>1, WriteHeaderNowFollows
    <3>2. h.status = code /\ code \in 200..999
      BY <2>1, <2>4 DEF NoBody
    <3>3. ~Written(v) /\ v.sent = 0 =>
            ~WriteHeaderNow(h).panicked /\ WriteHeaderNow(h).sent = WriteHeaderNow(h).status
      BY <2>1, <2>3, <3>2, StatusIsSent
    <3>4. QED
      BY <1>2, <2>1, <2>2, <2>4, <3>1, <3>3 DEF Follows
  <2>5. CASE code \notin NoBody
    <3> DEFINE u == RenderData(h, kind, sound)
    <3>1. /\ Follows(h, u)
          /\ ~Written(h) /\ h.sent = 0 /\ sound =>
               /\ h.status \in (200..999) \ NoBody => ~u.panicked
               /\ ~u.panicked => u.sent = h.status /\ u.status = h.status
      BY <2>1, RenderDataFollows
    <3> HIDE DEF u
    <3>2. Follows(v, u)
      BY <2>1, <3>1 DEF Follows
    <3>3. code \in 200..999 => h.status = code
      BY <2>1
    <3>4. QED
      BY <1>2, <2>1, <2>2, <2>3, <2>5, <3>1, <3>2, <3>3 DEF u
  <2>6. QED
    BY <2>4, <2>5
<1>3. QED
  BY <1>1, <1>2

-----------------------------------------------------------------------------
(* Negotiation *)

\* The order of the natural numbers as a relation, to which WFMin applies.
LessThan == {p \in Nat \X Nat : p[1] < p[2]}

\* A set of natural numbers that is not empty has a least element, which is its
\* Min.
LEMMA MinIsLeast ==
  ASSUME NEW S, S \subseteq Nat, S # {}
  PROVE  Min(S) \in S /\ \A y \in S : Min(S) <= y
<1>1. IsWellFoundedOn(LessThan, Nat)
  BY NatLessThanWellFounded DEF OpToRel, LessThan
<1>2. PICK x \in S : \A y \in S : ~(<<y, x>> \in LessThan)
  BY <1>1, WFMin
<1>3. \A y \in S : x <= y
  <2> TAKE y \in S
  <2>1. ~(<<y, x>> \in Nat \X Nat /\ <<y, x>>[1] < <<y, x>>[2])
    BY <1>2 DEF LessThan
  <2>2. y \in Nat /\ x \in Nat
    OBVIOUS
  <2>3. QED
    BY <2>1, <2>2
<1>4. QED
  BY <1>3 DEF Min

\* The symbol by symbol comparison says yes exactly if the offer satisfies the
\* accepted format.
LEMMA CompareIs ==
  ASSUME NEW a \in Seq(STRING), NEW o \in Seq(STRING)
  PROVE  Compare(a, o) = "yes" <=> Satisfies(o, a)
<1> DEFINE Stops(i) == a[i] = "*" \/ i > Len(o) \/ o[i] = "*" \/ a[i] # o[i]
           ends == {i \in DOMAIN a : Stops(i)}
           i == Min(ends)
<1>1. /\ Len(a) \in Nat /\ Len(o) \in Nat
      /\ DOMAIN a = 1..Len(a) /\ DOMAIN o = 1..Len(o)
  OBVIOUS
<1>2. Compare(a, o) =
        CASE ends = {} -> "yes"
          [] ends # {} /\ a[i] = "*" -> "yes"
          [] ends # {} /\ a[i] # "*" /\ i > Len(o) -> "panic"
          [] OTHER -> IF o[i] = "*" THEN "yes" ELSE "no"
  BY DEF Compare
<1>3. ASSUME NEW n \in 0..Len(a), n <= Len(o), \A k \in 1..n : a[k] = o[k],
             \/ n = Len(a)
             \/ a[n + 1] = "*"
             \/ n < Len(o) /\ o[n + 1] = "*"
      PROVE  Satisfies(o, a)
  BY <1>3 DEF Satisfies
<1>4. CASE ends = {}
  <2>1. \A k \in 1..Len(a) : ~Stops(k)
    BY <1>1, <1>4
  <2>2. Len(a) <= Len(o)
    <3>1. CASE Len(a) = 0
      BY <1>1, <3>1
    <3>2. CASE Len(a) # 0
      <4>1. ~Stops(Len(a))
        BY <1>1, <2>1, <3>2
      <4>2. QED
        BY <1>1, <4>1
    <3>3. QED
      BY <3>1, <3>2
  <2>3. Len(a) \in 0..Len(a) /\ \A k \in 1..Len(a) : a[k] = o[k]
    BY <1>1, <2>1
  <2>4. Satisfies(o, a)
    BY <1>3, <2>2, <2>3
  <2> HIDE DEF ends
  <2>5. QED
    BY <1>2, <1>4, <2>4
<1>5. CASE ends # {}
  <2>1. i \in ends /\ \A k \in ends : i <= k
    <3>1. ends \subseteq Nat
      BY <1>1
    <3> HIDE DEF ends
    <3>2. QED
      BY <1>5, <3>1, MinIsLeast
  <2>2. PICK m \in 1..Len(a) : m = i /\ Stops(m) /\ \A k \in 1..(m - 1) : ~Stops(k)
    <3>1. i \in 1..Len(a) /\ Stops(i)
      BY <1>1, <2>1
    <3>2. \A k \in 1..(i - 1) : k \in DOMAIN a /\ ~(i <= k)
      <4> HIDE DEF i
      <4>1. QED
        BY <1>1, <3>1
    <3>3. \A k \in 1..(i - 1) : ~Stops(k)
      BY <2>1, <3>2
    <3> HIDE DEF i
    <3>4. QED
      BY <3>1, <3>3
  <2>3. /\ m \in Nat /\ m - 1 \in 0..Len(a) /\ m - 1 # Len(a) /\ (m - 1) + 1 = m
        /\ m - 1 <= Len(o)
    <3>1. m - 1 # 0 => m - 1 \in 1..(m - 1)
      BY <1>1
    <3>2. m - 1 # 0 => m - 1 <= Len(o)
      BY <1>1, <2>2, <3>1
    <3>3. QED
      BY <1>1, <3>2
  <2>4. \A k \in 1..(m - 1) : a[k] = o[k] /\ a[k] # "*" /\ o[k] # "*"
    BY <2>2
  <2>5. Compare(a, o) = IF a[m] = "*" THEN "yes" ELSE IF m > Len(o) THEN "panic"
                        ELSE IF o[m] = "*" THEN "yes" ELSE "no"
    <3> HIDE DEF ends
    <3>1. QED
      BY <1>2, <1>5, <2>2
  <2>6. CASE a[m] = "*" \/ (m <= Len(o) /\ o[m] = "*")
    <3>1. Compare(a, o) = "yes"
      BY <1>1, <2>3, <2>5, <2>6
    <3>2. m <= Len(o) => m - 1 < Len(o)
      BY <1>1, <2>3
    <3>3. a[(m - 1) + 1] = "*" \/ (m - 1 < Len(o) /\ o[(m - 1) + 1] = "*")
      BY <2>3, <2>6, <3>2
    <3>4. Satisfies(o, a)
      BY <1>3, <2>3, <2>4, <3>3
    <3>5. QED
      BY <3>1, <3>4
  <2>7. CASE ~(a[m] = "*" \/ (m <= Len(o) /\ o[m] = "*"))
    <3>1. Compare(a, o) # "yes"
      BY <1>1, <2>3, <2>5, <2>7
    <3>2. ASSUME NEW n \in 0..Len(a), n <= Len(o), \A k \in 1..n : a[k] = o[k],
                 \/ n = Len(a)
                 \/ a[n + 1] = "*"
                 \/ n < Len(o) /\ o[n + 1] = "*"
          PROVE  FALSE
      <4>1. CASE n >= m
        <5>1. n \in Nat /\ n <= Len(o)
          BY <3>2
        <5>2. m \in 1..n /\ m <= Len(o)
          BY <1>1, <2>3, <4>1, <5>1
        <5>3. a[m] = o[m]
          BY <3>2, <5>2
        <5>4. QED
          BY <2>2, <2>3, <2>7, <5>2, <5>3, <1>1
      <4>2. CASE n < m
        <5>1. /\ n # Len(a)
              /\ n + 1 = m \/ n + 1 \in 1..(m - 1)
          <6>1. n \in Nat /\ m \in Nat /\ m <= Len(a) /\ Len(a) \in Nat
            BY <1>1, <2>2
          <6>2. n + 1 <= m
            BY <4>2, <6>1
          <6>3. QED
            BY <4>2, <6>1, <6>2
        <5>2. n < Len(o) => n + 1 <= Len(o)
          BY <1>1
        <5>3. a[n + 1] # "*" /\ (n < Len(o) => o[n + 1] # "*")
          BY <2>4, <2>7, <5>1, <5>2
        <5>4. QED
          BY <3>2, <5>1, <5>3
      <4>3. QED
        BY <1>1, <2>3, <4>1, <4>2
    <3>3. ~Satisfies(o, a)
      BY <3>2 DEF Satisfies
    <3>4. QED
      BY <3>1, <3>3
  <2>8. QED
    BY <2>6, <2>7
<1>6. QED
  BY <1>4, <1>5

\* NegotiateFormat, unless it panics, takes an offer that satisfies the first
\* accepted format that any offer satisfies.
LEMMA NegotiateIs ==
  ASSUME NEW accepted \in Seq(Formats), NEW offered \in Seq(Formats),
         NegotiateFormat(accepted, offered) # "panic"
  PROVE  LET f == NegotiateFormat(accepted, offered)
             Some(a) == \E o \in Range(offered) : Satisfies(Spelling[o], Spelling[a])
             wanted == {i \in DOMAIN accepted : Some(accepted[i])}
         IN  /\ accepted # <<>> /\ wanted = {} => f = ""
             /\ wanted # {} => /\ f \in Range(offered)
                               /\ Satisfies(Spelling[f], Spelling[accepted[Min(wanted)]])
<1> DEFINE f == NegotiateFormat(accepted, offered)
           Some(a) == \E o \in Range(offered) : Satisfies(Spelling[o], Spelling[a])
           wanted == {i \in DOMAIN accepted : Some(accepted[i])}
           hits == {i \in DOMAIN accepted :
                      \E j \in DOMAIN offered : Result(accepted[i], offered[j]) # "no"}
           i == Min(hits)
           near == {n \in DOMAIN offered : Result(accepted[i], offered[n]) # "no"}
           j == Min(near)
<1>1. f = CASE accepted = <<>> -> offered[1]
            [] accepted # <<>> /\ hits = {} -> ""
            [] OTHER -> IF Result(accepted[i], offered[j]) = "yes" THEN offered[j] ELSE "panic"
  BY DEF NegotiateFormat
<1>2. ASSUME NEW m \in DOMAIN accepted, NEW n \in DOMAIN offered
      PROVE  Result(accepted[m], offered[n]) = "yes"
               <=> Satisfies(Spelling[offered[n]], Spelling[accepted[m]])
  <2>1. accepted[m] \in Formats /\ offered[n] \in Formats
    OBVIOUS
  <2>2. Spelling[accepted[m]] \in Seq(STRING) /\ Spelling[offered[n]] \in Seq(STRING)
    BY <2>1, ContextAssumption
  <2>3. QED
    BY <2>2, CompareIs DEF Result
<1>3. DOMAIN accepted \subseteq Nat /\ DOMAIN offered \subseteq Nat
  OBVIOUS
<1>4. wanted \subseteq hits
  <2>1. ASSUME NEW m \in wanted
        PROVE  m \in hits
    <3>1. PICK n \in DOMAIN offered : Satisfies(Spelling[offered[n]], Spelling[accepted[m]])
      BY DEF Range
    <3>2. Result(accepted[m], offered[n]) = "yes"
      BY <1>2, <3>1
    <3>3. QED
      BY <3>2
  <2>2. QED
    BY <2>1
<1>5. accepted = <<>> => wanted = {}
  OBVIOUS
<1>6. CASE hits = {} /\ accepted # <<>>
  <2>1. wanted = {}
    BY <1>4, <1>6
  <2>2. f = ""
    <3> HIDE DEF hits, f
    <3>1. QED
      BY <1>1, <1>6
  <2> HIDE DEF wanted, f
  <2>3. QED
    BY <2>1, <2>2 DEF wanted, f
<1>7. CASE hits # {}
  <2>1. i \in hits /\ \A k \in hits : i <= k
    <3>1. hits \subseteq Nat
      BY <1>3
    <3> HIDE DEF hits
    <3>2. QED
      BY <1>7, <3>1, MinIsLeast
  <2>2. j \in near
    <3>1. near \subseteq Nat /\ near # {}
      <4>1. i \in DOMAIN accepted /\ \E n \in DOMAIN offered : Result(accepted[i], offered[n]) # "no"
        BY <2>1
      <4> HIDE DEF i
      <4>2. QED
        BY <1>3, <4>1
    <3> HIDE DEF near
    <3>2. QED
      BY <3>1, MinIsLeast
  <2>3. i \in DOMAIN accepted /\ j \in DOMAIN offered
    <3>1. i \in DOMAIN accepted
      BY <2>1
    <3>2. j \in DOMAIN offered
      BY <2>2
    <3>3. QED
      BY <3>1, <3>2
  <2> HIDE DEF j, near
  <2>4. accepted # <<>>
    <3> HIDE DEF i
    <3>1. QED
      BY <2>3
  <2>5. Result(accepted[i], offered[j]) = "yes" /\ f = offered[j]
    <3>1. f # "panic"
      OBVIOUS
    <3> HIDE DEF i, hits, f
    <3>2. f = IF Result(accepted[i], offered[j]) = "yes" THEN offered[j] ELSE "panic"
      BY <1>1, <1>7, <2>4
    <3>3. QED
      BY <3>1, <3>2
  <2>6. Satisfies(Spelling[f], Spelling[accepted[i]]) /\ f \in Range(offered)
    <3> HIDE DEF i, f
    <3>1. Satisfies(Spelling[f], Spelling[accepted[i]])
      BY <1>2, <2>3, <2>5
    <3>2. f \in Range(offered)
      BY <2>3, <2>5 DEF Range
    <3>3. QED
      BY <3>1, <3>2
  <2>7. i \in wanted
    <3> HIDE DEF i, f
    <3>1. QED
      BY <2>3, <2>6
  <2>8. Min(wanted) = i
    <3>1. wanted \subseteq Nat
      BY <1>3
    <3>2. \A k \in wanted : i <= k
      <4> HIDE DEF i, wanted, hits
      <4>1. QED
        BY <1>4, <2>1
    <3>3. i \in Nat
      <4> HIDE DEF i
      <4>1. QED
        BY <1>3, <2>3
    <3> HIDE DEF i, wanted
    <3>4. Min(wanted) \in wanted /\ Min(wanted) <= i
      BY <2>7, <3>1, MinIsLeast
    <3>5. i <= Min(wanted) /\ Min(wanted) \in Nat
      BY <3>1, <3>2, <3>4
    <3>6. QED
      BY <3>3, <3>4, <3>5
  <2> HIDE DEF i, f, wanted
  <2>9. wanted # {}
    BY <2>7
  <2>10. QED
    BY <2>6, <2>8, <2>9 DEF f, wanted
<1>8. QED
  BY <1>5, <1>6, <1>7

-----------------------------------------------------------------------------
(* The Mcontext *)

\* The types of the errors that are pushed.
ErrorTypes == {"bind", "private", "public"}

\* A record with the fields of an Mcontext.
IsContext(x) ==
  /\ x = [contentType |-> x.contentType, queries |-> x.queries, accepted |-> x.accepted,
          errors |-> x.errors, aborted |-> x.aborted, useRender |-> x.useRender,
          useWriter |-> x.useWriter]
  /\ x.errors \in Seq(ErrorTypes)
  /\ x.accepted # <<>> => x.accepted[1] \in Seq(Formats)

\* What a call may do to the Mcontext: it stays one, is not un-aborted and
\* loses no error.
Grows(x, y) ==
  /\ IsContext(y)
  /\ x.aborted => y.aborted
  /\ Range(x.errors) \subseteq Range(y.errors)

\* What the calls assign to the Mcontext, field by field.
LEMMA ContextUpdates ==
  ASSUME NEW x, IsContext(x)
  PROVE  /\ Grows(x, x)
         /\ \A b \in BOOLEAN : Grows(x, [x EXCEPT !.useRender = b]) /\ Grows(x, [x EXCEPT !.useWriter = b])
         /\ \A v : Grows(x, [x EXCEPT !.queries = v])
         /\ \A v : Grows(x, [x EXCEPT !.contentType = v])
         /\ Grows(x, [x EXCEPT !.aborted = TRUE]) /\ [x EXCEPT !.aborted = TRUE].aborted
         /\ \A a \in Seq(Formats) : Grows(x, [x EXCEPT !.accepted = <<a>>])
<1>1. Grows(x, x)
  BY DEF Grows
<1>2. \A b \in BOOLEAN : Grows(x, [x EXCEPT !.useRender = b])
  BY DEF IsContext, Grows
<1>3. \A b \in BOOLEAN : Grows(x, [x EXCEPT !.useWriter = b])
  BY DEF IsContext, Grows
<1>4. \A v : Grows(x, [x EXCEPT !.queries = v])
  BY DEF IsContext, Grows
<1>5. \A v : Grows(x, [x EXCEPT !.contentType = v])
  BY DEF IsContext, Grows
<1>6. Grows(x, [x EXCEPT !.aborted = TRUE]) /\ [x EXCEPT !.aborted = TRUE].aborted
  <2>1. ASSUME NEW b
        PROVE  LET y == [x EXCEPT !.aborted = b]
               IN  y.aborted = b /\ y.errors = x.errors /\ IsContext(y)
    BY DEF IsContext
  <2> DEFINE y == [x EXCEPT !.aborted = TRUE]
  <2>2. y.aborted = TRUE /\ y.errors = x.errors /\ IsContext(y)
    BY <2>1
  <2> HIDE DEF y
  <2>3. QED
    BY <2>2 DEF Grows, y
<1>7. \A a \in Seq(Formats) : Grows(x, [x EXCEPT !.accepted = <<a>>])
  BY DEF IsContext, Grows
<1>8. QED
  BY <1>1, <1>2, <1>3, <1>4, <1>5, <1>6, <1>7

\* What Append makes of a sequence and of its range.
LEMMA AppendRange ==
  ASSUME NEW S, NEW s \in Seq(S), NEW e \in S
  PROVE  /\ Append(s, e) \in Seq(S)
         /\ e \in Range(Append(s, e))
         /\ Range(s) \subseteq Range(Append(s, e))
<1> DEFINE t == Append(s, e)
<1>1. t \in Seq(S) /\ DOMAIN t = 1..(Len(s) + 1) /\ DOMAIN s = 1..Len(s) /\ Len(s) \in Nat
  OBVIOUS
<1>2. t[Len(s) + 1] = e /\ \A i \in 1..Len(s) : t[i] = s[i]
  OBVIOUS
<1> HIDE DEF t
<1>3. Len(s) + 1 \in DOMAIN t /\ \A i \in DOMAIN s : i \in DOMAIN t /\ t[i] = s[i]
  BY <1>1, <1>2
<1>4. e \in Range(t) /\ Range(s) \subseteq Range(t)
  BY <1>2, <1>3 DEF Range
<1>5. QED
  BY <1>1, <1>4 DEF t

\* An error that is pushed is among the errors, with those before.
LEMMA PushErrorGrows ==
  ASSUME NEW x, IsContext(x), NEW type \in ErrorTypes
  PROVE  /\ Grows(x, PushError(x, type))
         /\ type \in Range(PushError(x, type).errors)
         /\ PushError(x, type).aborted = x.aborted
<1> DEFINE e == Append(x.errors, type)
           y == PushError(x, type)
<1>1. e \in Seq(ErrorTypes) /\ type \in Range(e) /\ Range(x.errors) \subseteq Range(e)
  <2>1. x.errors \in Seq(ErrorTypes)
    BY DEF IsContext
  <2>2. QED
    BY <2>1, AppendRange
<1>2. y = [x EXCEPT !.errors = e]
  BY DEF PushError
<1> HIDE DEF e
<1>3. /\ y.errors = e /\ y.aborted = x.aborted /\ y.accepted = x.accepted
      /\ y = [contentType |-> y.contentType, queries |-> y.queries, accepted |-> y.accepted,
              errors |-> y.errors, aborted |-> y.aborted, useRender |-> y.useRender,
              useWriter |-> y.useWriter]
  BY <1>2 DEF IsContext
<1>4. x.accepted # <<>> => x.accepted[1] \in Seq(Formats)
  BY DEF IsContext
<1> HIDE DEF y
<1>5. IsContext(y)
  BY <1>1, <1>3, <1>4 DEF IsContext
<1>6. Grows(x, y)
  BY <1>1, <1>3, <1>5 DEF Grows
<1>7. QED
  BY <1>1, <1>3, <1>6 DEF y

-----------------------------------------------------------------------------
(* The invariant *)

\* The writers are sound, nothing goes on after a panic, and a request that was
\* rejected stays so.
ContextInv ==
  /\ rq \in Requests
  /\ Sound(w)
  /\ pc \in {"decode", "encode", "failed"} => ~w.panicked
  /\ pc = "decode" => last = None /\ seen = {}
  /\ IsContext(c)
  /\ BadInputIs400

\* Every step of the request keeps the writers sound and what was sent.
LEMMA StepFollows == ContextInv /\ Next => Follows(w, w')
<1> SUFFICES ASSUME ContextInv, Next PROVE Follows(w, w')
  OBVIOUS
<1>1. Sound(w) /\ (~w.panicked => Usable(w)) /\ Follows(w, w)
  BY DEF ContextInv, Usable, Follows
<1>2. Codes \subseteq Int
  BY WriterAssumption
<1>3. Follows(w, [w EXCEPT !.panicked = TRUE])
  BY <1>1, PanickedFollows
<1>4. Call => Usable(w)
  BY <1>1 DEF Call
<1>5. ASSUME NEW kind, NEW must \in BOOLEAN, BindCall(kind, must)
      PROVE  Follows(w, w')
  <2>1. Follows(w, AbortWithStatus(w, 400))
    BY <1>4, <1>5, AbortFollows DEF BindCall
  <2>2. CASE w' = [w EXCEPT !.panicked = TRUE]
    BY <1>3, <2>2
  <2>3. CASE w' = AbortWithStatus(w, 400)
    BY <2>1, <2>3
  <2>4. CASE w' = w
    BY <1>1, <2>4
  <2>5. w' \in {[w EXCEPT !.panicked = TRUE], AbortWithStatus(w, 400), w}
    BY <1>5, Zenon DEF BindCall
  <2>6. QED
    BY <2>2, <2>3, <2>4, <2>5
<1>6. CASE Bind \/ BindWith
  BY <1>5, <1>6 DEF Bind, BindWith
<1>7. CASE \/ Decode \/ ShouldBindBodyWith \/ GetRawData \/ SetAccepted \/ ChooseWriter
           \/ Return \/ Finished
  <2>1. CASE ShouldBindBodyWith
    <3>1. w' \in {[w EXCEPT !.panicked = TRUE], w}
      BY <2>1, Zenon DEF ShouldBindBodyWith
    <3>2. QED
      BY <1>1, <1>3, <3>1
  <2>2. CASE Decode \/ GetRawData \/ SetAccepted \/ ChooseWriter \/ Return \/ Finished
    <3>1. w' = w
      BY <2>2, Zenon DEF Decode, GetRawData, SetAccepted, ChooseWriter, Return, Finished, vars
    <3>2. QED
      BY <1>1, <3>1
  <2>3. QED
    BY <1>7, <2>1, <2>2
<1>8. CASE RenderCall
  <2>1. PICK kind : \E code \in Codes, sound \in BOOLEAN : w' = Render(w, code, kind, sound)
    BY <1>8, Zenon DEF RenderCall
  <2>2. QED
    BY <1>2, <1>4, <1>8, <2>1, RenderFollows DEF RenderCall
<1>9. CASE AbortCall
  <2>1. Call
    BY <1>9 DEF AbortCall
  <2>2. \/ \E code \in Codes : w' = AbortWithStatus(w, code)
        \/ \E code \in Codes, sound \in BOOLEAN : w' = Render(w, code, "json", sound)
        \/ w' = w
        \/ w' = [w EXCEPT !.panicked = TRUE]
    BY <1>9 DEF AbortCall
  <2>3. CASE \E code \in Codes : w' = AbortWithStatus(w, code)
    BY <1>2, <1>4, <2>1, <2>3, AbortFollows
  <2>4. CASE \E code \in Codes, sound \in BOOLEAN : w' = Render(w, code, "json", sound)
    BY <1>2, <1>4, <2>1, <2>4, RenderFollows
  <2>5. QED
    BY <1>1, <1>3, <2>2, <2>3, <2>4
<1>10. CASE Direct
  <2>1. Usable(w)
    BY <1>4, <1>10 DEF Direct
  <2>2. \/ \E code \in Codes \cup {301} : w' = WriteHeader(w, code)
        \/ w' = WriteHeader(w, 304)
        \/ w' = Write(WriteHeader(w, 200), 1)
        \/ w' = Write(WriteHeader(w, 404), 1)
        \/ w' = Flush(w)
        \/ w' = Hijack(w)
    BY <1>10 DEF Direct
  <2>3. CASE \E code \in Codes \cup {301} : w' = WriteHeader(w, code)
    BY <1>2, <2>1, <2>3, WriteHeaderFollows
  <2>4. CASE w' = WriteHeader(w, 304)
    BY <2>1, <2>4, WriteHeaderFollows
  <2>5. ASSUME NEW code \in Int, w' = Write(WriteHeader(w, code), 1)
        PROVE  Follows(w, w')
    <3>1. Usable(WriteHeader(w, code)) /\ WriteHeader(w, code).sent = w.sent
      BY <2>1, WriteHeaderFollows
    <3>2. Follows(WriteHeader(w, code), w')
      BY <2>5, <3>1, WriteFollows
    <3>3. QED
      BY <3>1, <3>2 DEF Follows
  <2>6. CASE w' = Flush(w) \/ w' = Hijack(w)
    BY <2>1, <2>6, FlushFollows
  <2>7. 200 \in Int /\ 404 \in Int
    OBVIOUS
  <2>8. QED
    BY <2>2, <2>3, <2>4, <2>5, <2>6, <2>7
<1>11. CASE Negotiate
  <2>1. Usable(w)
    BY <1>4, <1>11 DEF Negotiate
  <2>2. PICK format :
          \/ w' = [w EXCEPT !.panicked = TRUE]
          \/ \E code \in Codes : w' = Render(w, code, format, TRUE)
          \/ w' = AbortWithStatus(w, 406)
    BY <1>11, Zenon DEF Negotiate
  <2>3. CASE \E code \in Codes : w' = Render(w, code, format, TRUE)
    BY <1>2, <2>1, <2>3, RenderFollows
  <2>4. CASE w' = AbortWithStatus(w, 406)
    BY <2>1, <2>4, AbortFollows
  <2>5. QED
    BY <1>3, <2>2, <2>3, <2>4
<1>12. CASE EncodeResponse
  <2>1. Usable(w)
    BY <1>1, <1>12 DEF EncodeResponse, ContextInv
  <2>2. \/ w' = RawWrite(w, 1) \/ w' = Render(w, 200, c.contentType, TRUE) \/ w' = w
    BY <1>12 DEF EncodeResponse
  <2>3. CASE w' = RawWrite(w, 1)
    BY <2>1, <2>3, RawFollows
  <2>4. CASE w' = Render(w, 200, c.contentType, TRUE)
    <3>1. 200 \in Int /\ TRUE \in BOOLEAN
      OBVIOUS
    <3>2. Follows(w, Render(w, 200, c.contentType, TRUE))
      BY ONLY <2>1, <3>1, RenderFollows
    <3>3. QED
      BY <2>4, <3>2
  <2>5. QED
    BY <1>1, <2>2, <2>3, <2>4
<1>13. CASE EncodeError
  <2>1. Usable(w)
    BY <1>1, <1>13 DEF EncodeError, ContextInv
  <2>2. \/ w' = RawWrite(w, 1)
        \/ \E code \in {400, 500} : w' = RawWrite(RawWriteHeader(w, code), 1)
    BY <1>13 DEF EncodeError
  <2>3. CASE w' = RawWrite(w, 1)
    BY <2>1, <2>3, RawFollows
  <2>4. CASE \E code \in {400, 500} : w' = RawWrite(RawWriteHeader(w, code), 1)
    <3>1. PICK code \in {400, 500} : w' = RawWrite(RawWriteHeader(w, code), 1)
      BY <2>4
    <3>2. Follows(w, RawWriteHeader(w, code)) /\ Usable(RawWriteHeader(w, code))
      BY <2>1, RawFollows
    <3>3. Follows(RawWriteHeader(w, code), w')
      BY <3>1, <3>2, RawFollows
    <3>4. QED
      BY <3>2, <3>3 DEF Follows
  <2>5. QED
    BY <2>2, <2>3, <2>4
<1>14. QED
  BY <1>6, <1>7, <1>8, <1>9, <1>10, <1>11, <1>12, <1>13 DEF Next

\* Every step leaves an Mcontext that grows.
LEMMA StepGrows == ContextInv /\ Next => Grows(c, c')
<1> SUFFICES ASSUME ContextInv, Next PROVE Grows(c, c')
  OBVIOUS
<1>1. IsContext(c) /\ Grows(c, c)
  BY ContextUpdates DEF ContextInv
<1>2. ASSUME NEW type \in ErrorTypes
      PROVE  /\ Grows(c, PushError(c, type))
             /\ Grows(c, [c EXCEPT !.aborted = TRUE])
             /\ Grows(c, PushError([c EXCEPT !.aborted = TRUE], type))
  <2>1. Grows(c, PushError(c, type))
    BY <1>1, PushErrorGrows
  <2> DEFINE a == [c EXCEPT !.aborted = TRUE]
  <2>2. Grows(c, a)
    BY <1>1, ContextUpdates
  <2> HIDE DEF a
  <2>3. Grows(a, PushError(a, type))
    BY <2>2, PushErrorGrows DEF Grows
  <2>4. Grows(c, PushError(a, type))
    BY <2>2, <2>3 DEF Grows
  <2>5. QED
    BY <2>1, <2>2, <2>4 DEF a
<1>3. "bind" \in ErrorTypes /\ "private" \in ErrorTypes /\ "public" \in ErrorTypes
  BY DEF ErrorTypes
<1>4. Accepted \in Seq(Formats)
  BY <1>1, ContextAssumption DEF ContextInv, IsContext, Accepted
<1>5. ASSUME NEW kind, NEW must \in BOOLEAN, BindCall(kind, must)
      PROVE  Grows(c, c')
  <2>1. c' = PushError([c EXCEPT !.aborted = TRUE], "bind") \/ c' = c
    BY <1>5, Zenon DEF BindCall
  <2>2. QED
    BY <1>1, <1>2, <1>3, <2>1
<1>6. CASE Bind \/ BindWith
  BY <1>5, <1>6 DEF Bind, BindWith
<1>7. CASE GetRawData \/ RenderCall \/ Direct \/ Return \/ EncodeResponse \/ EncodeError \/ Finished
  <2>1. c' = c
    BY <1>7, Zenon DEF GetRawData, RenderCall, Direct, Return, EncodeResponse, EncodeError,
                Finished, vars
  <2>2. QED
    BY <1>1, <2>1
<1>8. CASE Decode
  <2>1. PICK t, q : c' = [c EXCEPT !.contentType = t, !.queries = q]
    BY <1>8, Zenon DEF Decode
  <2> DEFINE a == [c EXCEPT !.contentType = t]
  <2>2. Grows(c, a)
    BY <1>1, ContextUpdates
  <2>3. c' = [a EXCEPT !.queries = q]
    BY <2>1
  <2> HIDE DEF a
  <2>4. Grows(a, c')
    BY <2>2, <2>3, ContextUpdates DEF Grows
  <2>5. QED
    BY <2>2, <2>4 DEF Grows
<1>9. CASE ShouldBindBodyWith
  <2>1. c' = c \/ \E q : c' = [c EXCEPT !.queries = q]
    BY <1>9, Zenon DEF ShouldBindBodyWith, Set
  <2>2. QED
    BY <1>1, <2>1, ContextUpdates
<1>10. CASE AbortCall
  <2>1. \/ c' = [c EXCEPT !.aborted = TRUE]
        \/ c' = PushError([c EXCEPT !.aborted = TRUE], "private")
        \/ c' = PushError(c, "public")
        \/ c' = c
    BY <1>10, Zenon DEF AbortCall
  <2>2. QED
    BY <1>1, <1>2, <1>3, <2>1
<1>11. CASE Negotiate
  <2> DEFINE a == [c EXCEPT !.accepted = <<Accepted>>]
             b == [a EXCEPT !.aborted = TRUE]
  <2>1. c' = a \/ c' = PushError(b, "private")
    <3>1. \/ c' = [c EXCEPT !.accepted = <<Accepted>>]
          \/ c' = PushError([c EXCEPT !.accepted = <<Accepted>>, !.aborted = TRUE], "private")
      BY <1>11, Zenon DEF Negotiate
    <3>2. QED
      BY <3>1
  <2>2. Grows(c, a)
    BY <1>1, <1>4, ContextUpdates
  <2> HIDE DEF a
  <2>3. Grows(a, b)
    BY <2>2, ContextUpdates DEF Grows
  <2> HIDE DEF b
  <2>4. Grows(b, PushError(b, "private"))
    BY <1>3, <2>3, PushErrorGrows DEF Grows
  <2>5. Grows(a, PushError(b, "private"))
    BY <2>3, <2>4 DEF Grows
  <2>6. Grows(c, PushError(b, "private"))
    BY <2>2, <2>5 DEF Grows
  <2>7. QED
    BY <2>1, <2>2, <2>6
<1>12. CASE SetAccepted
  <2>1. c' = [c EXCEPT !.accepted = << <<"yaml", "xml">> >>]
    BY <1>12 DEF SetAccepted
  <2>2. <<"yaml", "xml">> \in Seq(Formats)
    BY ContextAssumption
  <2>3. QED
    BY <1>1, <2>1, <2>2, ContextUpdates
<1>13. CASE ChooseWriter
  <2>1. \E b \in BOOLEAN : c' = [c EXCEPT !.useRender = b] \/ c' = [c EXCEPT !.useWriter = b]
    BY <1>13, Zenon DEF ChooseWriter
  <2>2. QED
    BY <1>1, <2>1, ContextUpdates
<1>14. QED
  BY <1>6, <1>7, <1>8, <1>9, <1>10, <1>11, <1>12, <1>13 DEF Next

\* A binding that rejects the request answers it with 400 and notes the error;
\* nothing takes that back.
LEMMA StepRejects == ContextInv /\ Next => BadInputIs400'
<1> SUFFICES ASSUME ContextInv, Next, rejected' PROVE BadInputIs400'
  BY DEF BadInputIs400
<1>1. Follows(w, w') /\ Grows(c, c')
  BY StepFollows, StepGrows
<1>2. CASE rejected
  <2>1. w.sent = 400 /\ c.aborted /\ "bind" \in Range(c.errors)
    BY <1>2 DEF ContextInv, BadInputIs400
  <2>2. w'.sent = 400 /\ c'.aborted /\ "bind" \in Range(c'.errors)
    BY <1>1, <2>1 DEF Follows, Grows
  <2>3. QED
    BY <2>2 DEF BadInputIs400
<1>3. CASE ~rejected
  <2>1. PICK kind : \E must \in BOOLEAN : BindCall(kind, must)
    <3>1. Bind \/ BindWith
      BY <1>3 DEF Next, Decode, AbortCall, ShouldBindBodyWith, GetRawData, RenderCall, Direct,
                  Negotiate, SetAccepted, ChooseWriter, Return, EncodeResponse, EncodeError,
                  Finished, vars
    <3>2. QED
      BY <3>1, Zenon DEF Bind, BindWith
  <2>2. /\ w.sent = 0 /\ ~w.hijacked
        /\ w' = AbortWithStatus(w, 400)
        /\ c' = PushError([c EXCEPT !.aborted = TRUE], "bind")
    BY <1>3, <2>1 DEF BindCall
  <2>3. Usable(w) /\ 400 \in Int /\ 400 \in 200..999
    BY <2>1 DEF ContextInv, Usable, BindCall, Call
  <2>4. w'.sent = 400
    BY <2>2, <2>3, AbortFollows
  <2> DEFINE a == [c EXCEPT !.aborted = TRUE]
  <2>5. IsContext(a) /\ a.aborted
    BY ContextUpdates DEF ContextInv, Grows
  <2>6. c' = PushError(a, "bind") /\ "bind" \in ErrorTypes
    BY <2>2 DEF ErrorTypes
  <2> HIDE DEF a
  <2>7. c'.aborted /\ "bind" \in Range(c'.errors)
    BY <2>5, <2>6, PushErrorGrows
  <2>8. QED
    BY <2>4, <2>7 DEF BadInputIs400
<1>4. QED
  BY <1>2, <1>3

\* The invariant holds of every request.
LEMMA ContextInvariant == Spec => []ContextInv /\ [][Next]_vars
<1>1. Init => ContextInv
  <2> SUFFICES ASSUME Init PROVE ContextInv
    OBVIOUS
  <2>1. Sound(w) /\ ~w.panicked
    <3>1. PICK f \in BOOLEAN : w = NewWriter(f)
      BY DEF Init, WInit
    <3>2. Sound(w)
      BY <3>1, NewIsSound
    <3>3. QED
      BY <3>1, <3>2 DEF NewWriter
  <2>2. IsContext(c)
    <3>1. c.errors = <<>> /\ c.accepted = <<>>
      BY DEF Init
    <3>2. c.errors \in Seq(ErrorTypes)
      BY <3>1
    <3>3. QED
      BY <3>1, <3>2 DEF Init, IsContext
  <2>3. QED
    BY <2>1, <2>2 DEF Init, ContextInv, BadInputIs400
<1>2. ContextInv /\ [Next]_vars => ContextInv'
  <2> SUFFICES ASSUME ContextInv, [Next]_vars PROVE ContextInv'
    OBVIOUS
  <2>1. CASE Next
    <3>1. Sound(w)' /\ IsContext(c)' /\ BadInputIs400'
      BY <2>1, StepFollows, StepGrows, StepRejects DEF Follows, Grows
    <3>2. (rq \in Requests)'
      BY <2>1 DEF ContextInv, Next, Decode, AbortCall, Bind, BindWith, BindCall, Call, ShouldBindBodyWith,
                  GetRawData, RenderCall, Direct, Negotiate, SetAccepted, ChooseWriter, Return,
                  EncodeResponse, EncodeError, Finished, vars
    <3>3. (pc = "decode" => last = None /\ seen = {})'
      BY <2>1 DEF ContextInv, Next, Decode, AbortCall, Bind, BindWith, BindCall, Call, ShouldBindBodyWith,
                  GetRawData, RenderCall, Direct, Negotiate, SetAccepted, ChooseWriter, Return,
                  EncodeResponse, EncodeError, Finished, vars
    <3>4. (pc \in {"decode", "encode", "failed"} => ~w.panicked)'
      <4>1. CASE UNCHANGED <<pc, w>>
        BY <4>1 DEF ContextInv
      <4>2. CASE ~UNCHANGED <<pc, w>>
        <5>1. pc' \notin {"decode", "encode", "failed"} \/ Return
          BY <2>1, <4>2 DEF Next, Decode, AbortCall, Bind, BindWith, BindCall, Call, ShouldBindBodyWith,
                  GetRawData, RenderCall, Direct, Negotiate, SetAccepted, ChooseWriter,
                  EncodeResponse, EncodeError, Finished, vars
        <5>2. QED
          BY <5>1 DEF Return
      <4>3. QED
        BY <4>1, <4>2
    <3>5. QED
      BY <3>1, <3>2, <3>3, <3>4 DEF ContextInv
  <2>2. CASE UNCHANGED vars
    BY <2>2 DEF ContextInv, vars, Sound, IsContext, BadInputIs400
  <2>3. QED
    BY <2>1, <2>2
<1>3. QED
  BY <1>1, <1>2, PTL DEF Spec

\* Whatever the service method and the encoders do, the status, the size and the
\* body that the three writers have of the response agree (response_writer.go,
\* engine.go).
THEOREM WritersTheorem == Spec => []WriterInv
<1>1. ContextInv => WriterInv
  BY DEF ContextInv, Sound, WriterInv, ContextTruthful, FinalizerTruthful, BodilessIsEmpty
<1>2. QED
  BY <1>1, ContextInvariant, PTL

\* A request whose must-binding failed before anything was sent is answered with
\* 400, aborted and has an error of type bind, whatever comes afterwards
\* (MustBindWith).
THEOREM BadInputTheorem == Spec => []BadInputIs400
<1>1. ContextInv => BadInputIs400
  BY DEF ContextInv
<1>2. QED
  BY <1>1, ContextInvariant, PTL

\* What every step but Decode and Finished leaves in last.
LEMMA LastCalls ==
  /\ Bind \/ BindWith => last'.call = "bind"
  /\ AbortCall => last'.call = "abort"
  /\ Direct => last'.call = "status"
  /\ Negotiate => last'.call = "negotiate"
  /\ ShouldBindBodyWith => last'.call = "bind body"
  /\ GetRawData => last'.call = "raw data"
  /\ RenderCall => last'.call = "render"
  /\ SetAccepted => last'.call = "set accepted"
  /\ ChooseWriter => last'.call = "choose"
  /\ Return => last'.call = "none"
  /\ last = None /\ last' = last => last'.call = "none"
  /\ EncodeResponse \/ EncodeError => last'.call = "encode"
<1>1. Bind \/ BindWith => last'.call = "bind"
  <2>1. ASSUME NEW kind, NEW must, BindCall(kind, must)
        PROVE  last'.call = "bind"
    <3>1. PICK o : last' = [call |-> "bind", kind |-> kind, out |-> o, read |-> rd]
      BY <2>1, Zenon DEF BindCall
    <3>2. QED
      BY <3>1
  <2>2. QED
    BY <2>1 DEF Bind, BindWith
<1>2. Negotiate => last'.call = "negotiate"
  <2> SUFFICES ASSUME Negotiate PROVE last'.call = "negotiate"
    OBVIOUS
  <2>1. PICK a, o, f, n, h : last' = [call |-> "negotiate", accepted |-> a, offered |-> o,
                                      format |-> f, code |-> n, fresh |-> h]
    BY Zenon DEF Negotiate
  <2>2. QED
    BY <2>1
<1>3. ShouldBindBodyWith => last'.call = "bind body"
  <2> SUFFICES ASSUME ShouldBindBodyWith PROVE last'.call = "bind body"
    OBVIOUS
  <2>1. PICK k, e : last' = [call |-> "bind body", kind |-> k, out |-> e]
    BY Zenon DEF ShouldBindBodyWith
  <2>2. QED
    BY <2>1
<1>4. RenderCall => last'.call = "render"
  <2> SUFFICES ASSUME RenderCall PROVE last'.call = "render"
    OBVIOUS
  <2>1. PICK k, n, b : last' = [call |-> "render", kind |-> k, code |-> n, sound |-> b]
    BY Zenon DEF RenderCall
  <2>2. QED
    BY <2>1
<1>5. /\ AbortCall => last' = [call |-> "abort"]
      /\ Direct => last' = [call |-> "status"]
      /\ GetRawData => last' = [call |-> "raw data"]
      /\ SetAccepted => last' = [call |-> "set accepted"]
      /\ ChooseWriter => last' = [call |-> "choose"]
      /\ Return => last' = [call |-> "none"]
      /\ last = None /\ last' = last => last' = [call |-> "none"]
      /\ EncodeResponse \/ EncodeError => last' = [call |-> "encode"]
  BY Zenon DEF AbortCall, Direct, GetRawData, SetAccepted, ChooseWriter, Return, None,
               EncodeResponse, EncodeError
<1>6. \A s : last' = [call |-> s] => last'.call = s
  OBVIOUS
<1>7. QED
  BY <1>1, <1>2, <1>3, <1>4, <1>5, <1>6

\* A render of data that can be serialised, when nothing has been sent yet, does
\* not panic (Render, EncodeResponse).
THEOREM RenderTheorem == Spec => RenderNeverPanics
<1> DEFINE Fresh == w' # w /\ ~Written(w) /\ ~w.raw /\ w.status \in 200..999
           Rendered == /\ last'.call = "render"
                       /\ last'.sound
                       /\ last'.code \in IF last'.kind = "redirect" THEN RedirectCodes ELSE 200..999
<1>1. ASSUME ContextInv, Next, Fresh, last'.call = "encode" \/ Rendered
      PROVE  ~w'.panicked
  <2>1. Usable(w) => w.sent = 0
    BY <1>1 DEF Usable, Sound, Written
  <2>2. CASE RenderCall
    <3>1. PICK kind : \E code \in Codes, sound \in BOOLEAN :
                        /\ w' = Render(w, code, kind, sound)
                        /\ last' = [call |-> "render", kind |-> kind, code |-> code, sound |-> sound]
      BY <2>2, Zenon DEF RenderCall
    <3>2. PICK code \in Codes, sound \in BOOLEAN :
                        /\ w' = Render(w, code, kind, sound)
                        /\ last' = [call |-> "render", kind |-> kind, code |-> code, sound |-> sound]
      BY <3>1
    <3>3. Usable(w) /\ code \in Int
      <4>1. ~w.panicked
        BY <2>2 DEF RenderCall, Call
      <4>2. code \in Int
        BY WriterAssumption
      <4>3. QED
        BY <1>1, <4>1, <4>2 DEF ContextInv, Usable
    <3>4. sound /\ code \in IF kind = "redirect" THEN RedirectCodes ELSE 200..999
      BY <1>1, <3>2
    <3>5. QED
      BY <1>1, <2>1, <3>2, <3>3, <3>4, RenderFollows
  <2>3. CASE EncodeResponse
    <3>1. Usable(w)
      BY <1>1, <2>3 DEF EncodeResponse, ContextInv, Usable
    <3>2. \/ w' = RawWrite(w, 1)
          \/ c.contentType # "redirect" /\ w' = Render(w, 200, c.contentType, TRUE)
          \/ w' = w
      BY <2>3 DEF EncodeResponse
    <3>3. CASE w' = RawWrite(w, 1)
      BY <3>1, <3>3, RawFollows DEF Usable
    <3>4. CASE c.contentType # "redirect" /\ w' = Render(w, 200, c.contentType, TRUE)
      <4>1. 200 \in Int /\ TRUE \in BOOLEAN /\ 200 \in 200..999
        OBVIOUS
      <4>2. 200 \in (IF c.contentType = "redirect" THEN RedirectCodes ELSE 200..999)
        BY <3>4
      <4>3. ~Written(w) /\ w.sent = 0
        BY <1>1, <2>1, <3>1
      <4>4. ~Render(w, 200, c.contentType, TRUE).panicked
        BY ONLY <3>1, <4>1, <4>2, <4>3, RenderFollows
      <4>5. QED
        BY <3>4, <4>4
    <3>5. QED
      BY <1>1, <3>2, <3>3, <3>4
  <2>4. CASE EncodeError
    <3>1. Usable(w)
      BY <1>1, <2>4 DEF EncodeError, ContextInv, Usable
    <3>2. \/ w' = RawWrite(w, 1)
          \/ \E code \in {400, 500} : w' = RawWrite(RawWriteHeader(w, code), 1)
      BY <2>4 DEF EncodeError
    <3>3. \A code \in {400, 500} : Usable(RawWriteHeader(w, code))
      BY <3>1, RawFollows
    <3>4. \A code \in {400, 500} : Usable(RawWrite(RawWriteHeader(w, code), 1))
      <4> TAKE code \in {400, 500}
      <4>1. Usable(RawWriteHeader(w, code)) /\ 1 \in Nat
        BY <3>3
      <4>2. QED
        BY ONLY <4>1, RawFollows
    <3>5. Usable(RawWrite(w, 1))
      BY <3>1, RawFollows
    <3>6. Usable(w')
      BY <3>2, <3>4, <3>5
    <3>7. QED
      BY <3>6 DEF Usable
  <2>5. RenderCall \/ EncodeResponse \/ EncodeError
    <3>1. CASE Decode \/ GetRawData \/ SetAccepted \/ ChooseWriter \/ Return \/ Finished
      <4>1. w' = w
        BY <3>1, Zenon DEF Decode, GetRawData, SetAccepted, ChooseWriter, Return, Finished, vars
      <4>2. QED
        BY <1>1, <4>1
    <3>2. CASE Bind \/ BindWith \/ ShouldBindBodyWith \/ AbortCall \/ Direct \/ Negotiate
      <4>1. last'.call \in {"bind", "bind body", "abort", "status", "negotiate"}
        BY <3>2, LastCalls
      <4>2. QED
        BY <1>1, <4>1
    <3>3. QED
      BY <1>1, <3>1, <3>2 DEF Next
  <2>6. QED
    BY <2>2, <2>3, <2>4, <2>5
<1>2. ContextInv /\ [Next]_vars =>
        [ Fresh /\ (last'.call = "encode" \/ Rendered) => ~w'.panicked ]_vars
  BY <1>1
<1>3. QED
  BY <1>2, ContextInvariant, PTL DEF RenderNeverPanics

\* What the last call remembers of a negotiation.
NegotiationInv ==
  last.call = "negotiate" =>
    /\ last.accepted \in Seq(Formats)
    /\ last.offered \in Seq(Formats)
    /\ last.format = NegotiateFormat(last.accepted, last.offered)
    /\ (last.fresh /\ last.format # "panic" /\ ~w.panicked) =>
         IF last.format \in {"json", "xml", "yaml"}
         THEN ct = last.format /\ w.status = w.sent
         ELSE w.sent = 406 /\ c.aborted

\* Negotiate sends what it chose, or 406.
LEMMA StepNegotiates == ContextInv /\ Negotiate => NegotiationInv'
<1> SUFFICES ASSUME ContextInv, Negotiate PROVE NegotiationInv'
  OBVIOUS
<1>1. PICK offered \in Offers, code \in Codes :
        LET format == NegotiateFormat(Accepted, offered)
            known == format \in {"json", "xml", "yaml"}
        IN /\ w' = CASE format = "panic" -> [w EXCEPT !.panicked = TRUE]
                     [] known -> Render(w, code, format, TRUE)
                     [] OTHER -> AbortWithStatus(w, 406)
           /\ ct' = IF known THEN WriteContentType(ct, format) ELSE ct
           /\ c' = IF known \/ format = "panic" THEN [c EXCEPT !.accepted = <<Accepted>>]
                   ELSE PushError([c EXCEPT !.accepted = <<Accepted>>, !.aborted = TRUE], "private")
           /\ last' = [call |-> "negotiate", accepted |-> Accepted, offered |-> offered,
                       format |-> format, code |-> code,
                       fresh |-> ~Written(w) /\ w.sent = 0 /\ ct = ""]
  BY Zenon DEF Negotiate
<1> DEFINE format == NegotiateFormat(Accepted, offered)
           fresh == ~Written(w) /\ w.sent = 0 /\ ct = ""
<1>2. /\ Accepted \in Seq(Formats) /\ offered \in Seq(Formats)
      /\ Usable(w) /\ IsContext(c) /\ code \in Int
  BY ContextAssumption, WriterAssumption
  DEF ContextInv, IsContext, Accepted, Negotiate, Call, Usable
<1>3. /\ last'.call = "negotiate" /\ last'.accepted = Accepted /\ last'.offered = offered
      /\ last'.format = format /\ last'.fresh = fresh
  BY <1>1
<1>4. ASSUME format \in {"json", "xml", "yaml"}, fresh, ~w'.panicked
      PROVE  ct' = format /\ w'.status = w'.sent
  <2>1. w' = Render(w, code, format, TRUE) /\ ct' = WriteContentType(ct, format)
    BY <1>1, <1>4
  <2> HIDE DEF format
  <2>2. ct' = format
    BY <1>4, <2>1 DEF WriteContentType, ContentTypeOf
  <2>3. format # "redirect" /\ TRUE \in BOOLEAN
    BY <1>4
  <2>4. ~Render(w, code, format, TRUE).panicked =>
          Render(w, code, format, TRUE).sent = Render(w, code, format, TRUE).status
    BY <1>2, <1>4, <2>3, RenderFollows
  <2>5. QED
    BY <1>4, <2>1, <2>2, <2>4
<1>5. ASSUME format \notin {"json", "xml", "yaml"}, format # "panic", fresh
      PROVE  w'.sent = 406 /\ c'.aborted
  <2> DEFINE a == [c EXCEPT !.accepted = <<Accepted>>]
             b == [a EXCEPT !.aborted = TRUE]
  <2>1. w' = AbortWithStatus(w, 406) /\ c' = PushError(b, "private")
    BY <1>1, <1>5
  <2>2. ~w.hijacked
    BY <1>2, <1>5 DEF Usable, Sound
  <2>3. w'.sent = 406
    <3>1. 406 \in Int /\ 406 \in 200..999
      OBVIOUS
    <3>2. w.sent = 0
      BY <1>5
    <3>3. AbortWithStatus(w, 406).sent = 406
      BY <1>2, <2>2, <3>1, <3>2, AbortFollows
    <3>4. QED
      BY <2>1, <3>3
  <2>4. IsContext(a)
    BY <1>2, ContextUpdates DEF Grows
  <2> HIDE DEF a
  <2>5. IsContext(b) /\ b.aborted /\ "private" \in ErrorTypes
    BY <2>4, ContextUpdates DEF Grows, ErrorTypes
  <2> HIDE DEF b
  <2>6. c'.aborted
    BY <2>1, <2>5, PushErrorGrows
  <2>7. QED
    BY <2>3, <2>6
<1> HIDE DEF format, fresh
<1>6. QED
  BY <1>2, <1>3, <1>4, <1>5 DEF NegotiationInv, format

\* Negotiate answers with an offer that satisfies the client's first format that
\* any offer satisfies, and otherwise with 406; what it chose is what is sent
\* (Negotiate, NegotiateFormat).
THEOREM NegotiatedTheorem == Spec => []NegotiatedIsAccepted
<1>1. Init => NegotiationInv
  <2>1. Init => last = [call |-> "none"]
    BY DEF Init, None
  <2>2. QED
    BY <2>1 DEF NegotiationInv
<1>2. ContextInv /\ NegotiationInv /\ [Next]_vars => NegotiationInv'
  <2> SUFFICES ASSUME ContextInv, NegotiationInv, [Next]_vars PROVE NegotiationInv'
    OBVIOUS
  <2>1. CASE Negotiate
    BY <2>1, StepNegotiates
  <2>2. CASE UNCHANGED vars
    BY <2>2 DEF NegotiationInv, vars
  <2>3. CASE Next /\ ~Negotiate /\ ~UNCHANGED vars
    <3>1. last'.call # "negotiate"
      <4>1. CASE Decode
        BY <4>1, LastCalls DEF ContextInv, Decode
      <4>2. CASE ~Decode
        <5>1. ~Finished
          BY <2>3 DEF Finished
        <5>2. \/ AbortCall \/ Bind \/ BindWith \/ ShouldBindBodyWith \/ GetRawData \/ RenderCall
              \/ Direct \/ SetAccepted \/ ChooseWriter \/ Return \/ EncodeResponse \/ EncodeError
          BY <2>3, <4>2, <5>1, Zenon DEF Next
        <5>3. last'.call \in {"abort", "bind", "bind body", "raw data", "render", "status",
                              "set accepted", "choose", "none", "encode"}
          BY <5>2, LastCalls
        <5>4. QED
          BY <5>3
      <4>3. QED
        BY <4>1, <4>2
    <3>2. QED
      BY <3>1 DEF NegotiationInv
  <2>4. QED
    BY <2>1, <2>2, <2>3
<1>3. NegotiationInv => NegotiatedIsAccepted
  <2> SUFFICES ASSUME NegotiationInv, last.call = "negotiate", last.format # "panic"
               PROVE  NegotiatedIsAccepted
    BY DEF NegotiatedIsAccepted
  <2> DEFINE Some(a) == \E o \in Range(last.offered) : Satisfies(Spelling[o], Spelling[a])
             wanted == {i \in DOMAIN last.accepted : Some(last.accepted[i])}
  <2>1. /\ last.accepted # <<>> /\ wanted = {} => last.format = ""
        /\ wanted # {} => /\ last.format \in Range(last.offered)
                          /\ Satisfies(Spelling[last.format], Spelling[last.accepted[Min(wanted)]])
    <3>1. /\ last.accepted \in Seq(Formats) /\ last.offered \in Seq(Formats)
          /\ last.format = NegotiateFormat(last.accepted, last.offered)
          /\ NegotiateFormat(last.accepted, last.offered) # "panic"
      BY DEF NegotiationInv
    <3>2. QED
      BY <3>1, NegotiateIs
  <2>2. (last.fresh /\ ~w.panicked) =>
          IF last.format \in {"json", "xml", "yaml"}
          THEN ct = last.format /\ w.status = w.sent
          ELSE w.sent = 406 /\ c.aborted
    BY DEF NegotiationInv
  <2> HIDE DEF wanted
  <2>3. QED
    BY <2>1, <2>2 DEF NegotiatedIsAccepted, wanted
<1>4. QED
  BY <1>1, <1>2, <1>3, ContextInvariant, PTL DEF Spec

-----------------------------------------------------------------------------
(* Binding again *)

\* The bindings that map values and do not depend on what others read.
Repeatable == {"form", "multipart", "query", "header", "uri"}

\* What was read of a request: left and parts are truth values.
IsReading(r) ==
  /\ r = [left |-> r.left, post |-> r.post, parts |-> r.parts]
  /\ r.left \in BOOLEAN /\ r.parts \in BOOLEAN

\* ParseMultipartForm has nothing to find any more.
Parsed(r) ==
  /\ r.post # <<>>
  /\ rq.format = "multipart" => r.parts \/ ~(r.left /\ rq.sound)

\* A later reading of the same request: what ParseForm and ParseMultipartForm
\* found stays.
Later(r, s) ==
  /\ IsReading(s)
  /\ r.post # <<>> => s.post # <<>>
  /\ Parsed(r) => Parsed(s) /\ s.post = r.post /\ s.parts = r.parts

\* The body that ShouldBindBodyWith keeps in the Mcontext.
Kept(x) == GetAs(x, BodyBytesKey, "bytes")

\* ParseForm and ParseMultipartForm leave a later reading, and the second one
\* leaves nothing to find.
LEMMA ParsedForm ==
  ASSUME NEW r, IsReading(r)
  PROVE  /\ Later(r, [r EXCEPT !.left = FALSE])
         /\ Later(r, ParseForm(r)) /\ ParseForm(r).post # <<>>
         /\ Later(r, ParseMultipartForm(r)) /\ Parsed(ParseMultipartForm(r))
<1>a. ASSUME NEW s, IsReading(s), NEW q
      PROVE  LET t == [s EXCEPT !.post = q]
             IN  IsReading(t) /\ t.left = s.left /\ t.post = q /\ t.parts = s.parts
  BY <1>a DEF IsReading
<1>1. ASSUME NEW s, IsReading(s), NEW b \in BOOLEAN
      PROVE  /\ IsReading([s EXCEPT !.left = b]) /\ [s EXCEPT !.left = b].left = b
             /\ [s EXCEPT !.left = b].post = s.post /\ [s EXCEPT !.left = b].parts = s.parts
             /\ IsReading([s EXCEPT !.parts = b]) /\ [s EXCEPT !.parts = b].left = s.left
             /\ [s EXCEPT !.parts = b].post = s.post /\ [s EXCEPT !.parts = b].parts = b
  BY <1>1 DEF IsReading
<1>2. \A v : <<v>> # <<>>
  OBVIOUS
<1>3. FALSE \in BOOLEAN /\ TRUE \in BOOLEAN
  OBVIOUS
<1>4. Later(r, [r EXCEPT !.left = FALSE])
  <2> DEFINE s == [r EXCEPT !.left = FALSE]
  <2>1. IsReading(s) /\ s.left = FALSE /\ s.post = r.post /\ s.parts = r.parts
    BY <1>1, <1>3
  <2> HIDE DEF s
  <2>2. QED
    BY <2>1 DEF Later, Parsed, s
<1> DEFINE p == ParseForm(r)
<1>5. IsReading(p) /\ p.post # <<>> /\ p.parts = r.parts /\ (r.post # <<>> => p = r)
  <2>1. CASE r.post # <<>>
    BY <2>1 DEF ParseForm
  <2>2. CASE r.post = <<>>
    <3> DEFINE s == [r EXCEPT !.left = FALSE]
    <3>1. IsReading(s) /\ s.parts = r.parts
      BY <1>1, <1>3
    <3>2. \E q : \/ p = [r EXCEPT !.left = FALSE, !.post = <<q>>]
                 \/ p = [r EXCEPT !.post = <<q>>]
      BY <2>2, Zenon DEF ParseForm
    <3>3. PICK q : p = [s EXCEPT !.post = <<q>>] \/ p = [r EXCEPT !.post = <<q>>]
      BY <3>2
    <3> HIDE DEF s, p
    <3>4. CASE p = [s EXCEPT !.post = <<q>>]
      BY <1>a, <1>2, <3>1, <3>4, <2>2
    <3>5. CASE p = [r EXCEPT !.post = <<q>>]
      BY <1>a, <1>2, <3>5, <2>2
    <3>6. QED
      BY <3>3, <3>4, <3>5
  <2>3. QED
    BY <2>1, <2>2
<1> DEFINE m == ParseMultipartForm(r)
           l == [p EXCEPT !.left = FALSE]
           lp == [l EXCEPT !.parts = TRUE]
           lpp == [lp EXCEPT !.post = <<rq.fields>>]
<1>6. m = IF p.parts \/ rq.format # "multipart" THEN p
          ELSE IF p.left /\ rq.sound THEN lpp ELSE l
  BY DEF ParseMultipartForm
<1> HIDE DEF p, m
<1>7. /\ IsReading(l) /\ l.left = FALSE /\ l.post = p.post /\ l.parts = p.parts
  BY <1>1, <1>3, <1>5
<1> HIDE DEF l
<1>8. IsReading(lp) /\ lp.parts = TRUE
  BY <1>1, <1>3, <1>7
<1> HIDE DEF lp
<1>9. IsReading(lpp) /\ lpp.parts = TRUE /\ lpp.post = <<rq.fields>>
  BY <1>a, <1>8
<1> HIDE DEF lpp
<1>10. Later(r, p)
  BY <1>5 DEF Later, Parsed
<1>11. Parsed(m)
  <2>1. CASE p.parts \/ rq.format # "multipart"
    BY <1>5, <1>6, <2>1 DEF Parsed
  <2>2. CASE ~(p.parts \/ rq.format # "multipart") /\ p.left /\ rq.sound
    BY <1>2, <1>6, <1>9, <2>2 DEF Parsed
  <2>3. CASE ~(p.parts \/ rq.format # "multipart") /\ ~(p.left /\ rq.sound)
    BY <1>5, <1>6, <1>7, <2>3 DEF Parsed
  <2>4. QED
    BY <2>1, <2>2, <2>3
<1>12. Later(r, m)
  <2>1. IsReading(m)
    BY <1>5, <1>6, <1>7, <1>9
  <2>2. ASSUME Parsed(r)
        PROVE  m.post = r.post /\ m.parts = r.parts
    <3>1. p = r /\ (rq.format = "multipart" => p.parts \/ ~(p.left /\ rq.sound))
      BY <1>5, <2>2 DEF Parsed
    <3>2. m = p \/ m = l
      BY <1>6, <3>1
    <3>3. QED
      BY <1>7, <3>1, <3>2
  <2>3. m.post # <<>>
    BY <1>11 DEF Parsed
  <2>4. QED
    BY <1>11, <2>1, <2>2, <2>3 DEF Later
<1>13. QED
  BY <1>4, <1>5, <1>10, <1>11, <1>12 DEF p, m

\* Binding again from a later reading has the outcome it had.
LEMMA OutcomeStays ==
  ASSUME NEW r, IsReading(r), NEW s, Later(r, s), NEW kind \in Repeatable,
         kind \in {"form", "multipart"} => Parsed(r)
  PROVE  Outcome(s, kind) = Outcome(r, kind)
<1> DEFINE mr == ParseMultipartForm(r)
           ms == ParseMultipartForm(s)
<1>1. kind \in {"form", "multipart"} => mr.post = ms.post /\ mr.parts = ms.parts
  BY ParsedForm DEF Later
<1>2. kind \notin Codecs /\ kind # "form post"
  BY DEF Repeatable, Codecs
<1>3. BadParts(s, kind) <=> BadParts(r, kind)
  <2> HIDE DEF mr, ms
  <2>1. QED
    BY <1>1 DEF BadParts, mr, ms
<1>4. SourceOf(s, kind) = SourceOf(r, kind)
  <2>1. CASE kind = "form"
    <3>1. FormOf(ms) = FormOf(mr)
      BY <1>1, <2>1 DEF FormOf
    <3>2. QED
      BY <2>1, <3>1 DEF SourceOf
  <2>2. CASE kind = "multipart"
    BY <2>2 DEF SourceOf
  <2>3. CASE kind = "query"
    BY <2>3 DEF SourceOf
  <2>4. CASE kind = "header"
    BY <2>4 DEF SourceOf
  <2>5. CASE kind = "uri"
    BY <2>5 DEF SourceOf
  <2>6. QED
    BY <2>1, <2>2, <2>3, <2>4, <2>5 DEF Repeatable
<1>5. ~Malformed(s, kind) /\ ~Malformed(r, kind)
  BY DEF Malformed, Parsed, Later, Repeatable
<1>6. QED
  BY <1>2, <1>3, <1>4, <1>5 DEF Outcome

\* What was remembered of the bindings is what they would give again, but for a
\* form that could not be parsed, which was the first and is not parsed again.
SeenInv ==
  /\ IsReading(rd)
  /\ calls \in Nat
  /\ \A s \in seen :
       \/ /\ s.how = "bind"
          /\ s.kind \in Repeatable \cup Codecs \cup {"form post"}
          /\ s.unparsed # 0 => rd.post # <<>> /\ ~rq.parses
          /\ s.kind \in Repeatable /\ s.unparsed = 0 =>
               /\ s.out = Outcome(rd, s.kind)
               /\ s.kind \in {"form", "multipart"} => Parsed(rd)
       \/ /\ s.how = "bind body"
          /\ Kept(c) # <<>>
          /\ s.unparsed = 0
          /\ s.out = Decoded(s.kind, Kept(c)[1])
  /\ \A s, u \in seen : s.unparsed # 0 /\ u.unparsed # 0 => s = u

\* The request does not change, so that what is derived from it does not.
LEMMA SameRequest ==
  ASSUME rq' = rq
  PROVE  /\ Parsed(rd)' <=> Parsed(rd')
         /\ \A kind \in Repeatable : Outcome(rd, kind)' = Outcome(rd', kind)
         /\ \A kind, full : Decoded(kind, full)' = Decoded(kind, full)
<1>1. Parsed(rd)' <=> Parsed(rd')
  BY DEF Parsed
<1>2. \A kind, full : Decoded(kind, full)' = Decoded(kind, full)
  <2>1. \A kind, full : Decodes(kind, full)' <=> Decodes(kind, full)
    BY DEF Decodes
  <2>2. QED
    BY <2>1 DEF Decoded
<1>3. ParseMultipartForm(rd)' = ParseMultipartForm(rd')
  BY DEF ParseMultipartForm, ParseForm
<1>4. FormOf(ParseMultipartForm(rd))' = FormOf(ParseMultipartForm(rd'))
  BY <1>3 DEF FormOf
<1>5. ASSUME NEW kind \in Repeatable
      PROVE  Outcome(rd, kind)' = Outcome(rd', kind)
  <2>1. BadParts(rd, kind)' <=> BadParts(rd', kind)
    BY <1>3 DEF BadParts
  <2>2. SourceOf(rd, kind)' = SourceOf(rd', kind)
    BY <1>4 DEF SourceOf, Repeatable
  <2>3. kind \notin Codecs
    BY DEF Repeatable, Codecs
  <2>4. Malformed(rd, kind)' <=> Malformed(rd', kind)
    BY DEF Malformed
  <2>5. QED
    BY <2>1, <2>2, <2>3, <2>4 DEF Outcome, Failure
<1>6. QED
  BY <1>1, <1>2, <1>5

\* A binding reads on, by what its kind reads; after a form that cannot be parsed
\* Form is set.
LEMMA BindReads ==
  ASSUME NEW r, IsReading(r), NEW kind \in Repeatable \cup Codecs \cup {"form post"}
  PROVE  /\ Later(r, AfterBind(r, kind))
         /\ Malformed(r, kind) => AfterBind(r, kind).post # <<>>
         /\ ~Malformed(r, kind) =>
              /\ kind \in {"form", "multipart"} => Parsed(AfterBind(r, kind))
              /\ kind \in Repeatable => Outcome(AfterBind(r, kind), kind) = Outcome(r, kind)
<1>1. Later(r, r)
  BY DEF Later
<1>2. CASE kind \in Codecs
  <2>1. AfterBind(r, kind) = [r EXCEPT !.left = FALSE]
    BY <1>2 DEF AfterBind, Codecs
  <2>2. kind \notin Repeatable /\ kind \notin {"form", "form post", "multipart"}
    BY <1>2 DEF Codecs, Repeatable
  <2>3. QED
    BY <2>1, <2>2, ParsedForm DEF Malformed
<1>3. CASE kind \in {"form", "multipart"} /\ ~Malformed(r, kind)
  <2> DEFINE m == ParseMultipartForm(r)
  <2>1. AfterBind(r, kind) = m
    BY <1>3 DEF AfterBind, Codecs
  <2>2. Later(r, m) /\ Parsed(m) /\ IsReading(m)
    BY ParsedForm DEF Later
  <2>3. ParseMultipartForm(m).post = m.post /\ ParseMultipartForm(m).parts = m.parts
    BY <2>2, ParsedForm DEF Later
  <2>4. BadParts(m, kind) <=> BadParts(r, kind)
    <3> HIDE DEF m
    <3>1. QED
      BY <1>3, <2>3 DEF BadParts, m
  <2>5. SourceOf(m, kind) = SourceOf(r, kind)
    <3>1. FormOf(ParseMultipartForm(m)) = FormOf(m)
      BY <2>3 DEF FormOf
    <3>2. QED
      BY <1>3, <3>1 DEF SourceOf
  <2>6. kind \notin Codecs
    BY <1>3 DEF Codecs
  <2> HIDE DEF m
  <2>7. ~Malformed(m, kind)
    BY <2>2 DEF Malformed, Parsed
  <2>8. Outcome(m, kind) = Outcome(r, kind)
    BY <1>3, <2>4, <2>5, <2>6, <2>7 DEF Outcome
  <2>9. QED
    BY <1>3, <2>1, <2>2, <2>8
<1>4. CASE kind \in {"form", "multipart"} /\ Malformed(r, kind)
  <2>1. AfterBind(r, kind) \in {ParseForm(r), ParseMultipartForm(r)}
    BY <1>4 DEF AfterBind, Codecs
  <2>2. Parsed(ParseMultipartForm(r)) => ParseMultipartForm(r).post # <<>>
    BY DEF Parsed
  <2>3. QED
    BY <1>4, <2>1, <2>2, ParsedForm
<1>5. CASE kind = "form post"
  BY <1>5, ParsedForm DEF AfterBind, Codecs, Repeatable
<1>6. CASE kind \in {"query", "header", "uri"}
  BY <1>1, <1>6 DEF AfterBind, Codecs, Malformed
<1>7. QED
  BY <1>2, <1>3, <1>4, <1>5, <1>6 DEF Repeatable

\* The kinds of bindings that the calls of the method choose from.
LEMMA BindKinds ==
  Bind \/ BindWith =>
    \E kind \in Repeatable \cup Codecs \cup {"form post"} :
      \E must \in BOOLEAN : BindCall(kind, must)
<1>1. Default(rq.method, rq.format) \in Repeatable \cup Codecs
  BY DEF Default, Repeatable
<1>2. {"json", "protobuf", "form post", "query", "header", "uri"}
        \subseteq Repeatable \cup Codecs \cup {"form post"}
  BY DEF Repeatable, Codecs
<1>3. QED
  BY <1>1, <1>2 DEF Bind, BindWith

\* The body that ShouldBindBodyWith keeps is what it finds the next time.
LEMMA KeptBody ==
  ASSUME NEW x, IsContext(x), NEW full
  PROVE  Kept(Set(x, BodyBytesKey, "bytes", full)) = <<full>>
<1> DEFINE e == [kind |-> "bytes", val |-> full]
           q == [k \in DOMAIN x.queries \cup {BodyBytesKey} |->
                   IF k = BodyBytesKey THEN e ELSE x.queries[k]]
           y == [x EXCEPT !.queries = q]
<1>1. BodyBytesKey \in DOMAIN q /\ q[BodyBytesKey] = e /\ e.kind = "bytes" /\ e.val = full
  OBVIOUS
<1> HIDE DEF e
<1> HIDE DEF q
<1>2. y.queries = q
  BY DEF IsContext
<1> HIDE DEF y
<1>3. Kept(y) = <<full>>
  BY <1>1, <1>2 DEF Kept, GetAs
<1>4. QED
  BY <1>3 DEF Set, y, q, e

\* The calls that assign to other fields leave the queries alone.
LEMMA QueriesStay ==
  ASSUME NEW x, IsContext(x)
  PROVE  /\ \A type \in ErrorTypes : PushError(x, type).queries = x.queries
         /\ [x EXCEPT !.aborted = TRUE].queries = x.queries
         /\ \A v : /\ [x EXCEPT !.accepted = v].queries = x.queries
                   /\ [x EXCEPT !.useRender = v].queries = x.queries
                   /\ [x EXCEPT !.useWriter = v].queries = x.queries
<1>1. ASSUME NEW v
      PROVE  /\ [x EXCEPT !.accepted = v].queries = x.queries
             /\ [x EXCEPT !.useRender = v].queries = x.queries
             /\ [x EXCEPT !.useWriter = v].queries = x.queries
             /\ [x EXCEPT !.aborted = v].queries = x.queries
             /\ [x EXCEPT !.errors = v].queries = x.queries
  BY DEF IsContext
<1>2. [x EXCEPT !.aborted = TRUE].queries = x.queries
  BY <1>1, Zenon
<1>3. \A type \in ErrorTypes : PushError(x, type).queries = x.queries
  BY <1>1, Zenon DEF PushError
<1>4. QED
  BY <1>1, <1>2, <1>3

\* After Decode the reading goes on, and a body that is kept stays.
LEMMA StepReads ==
  ContextInv /\ IsReading(rd) /\ Next /\ ~Decode =>
    /\ Later(rd, rd')
    /\ Kept(c) # <<>> => Kept(c') = Kept(c)
    /\ rq' = rq
<1> SUFFICES ASSUME ContextInv, IsReading(rd), Next, ~Decode
             PROVE  /\ Later(rd, rd')
                    /\ Kept(c) # <<>> => Kept(c') = Kept(c)
                    /\ rq' = rq
  OBVIOUS
<1>1. Later(rd, rd) /\ Later(rd, [rd EXCEPT !.left = FALSE])
  BY ParsedForm DEF Later
<1>2. IsContext(c)
  BY DEF ContextInv
<1>3. rq' = rq
  BY DEF Next, AbortCall, Bind, BindWith, BindCall, Call, ShouldBindBodyWith, GetRawData, RenderCall,
         Direct, Negotiate, SetAccepted, ChooseWriter, Return, EncodeResponse, EncodeError,
         Finished, vars
<1>4. c'.queries = c.queries => (Kept(c) # <<>> => Kept(c') = Kept(c))
  BY DEF Kept, GetAs
<1>5. ASSUME NEW type \in ErrorTypes
      PROVE  PushError([c EXCEPT !.aborted = TRUE], type).queries = c.queries
  <2> DEFINE a == [c EXCEPT !.aborted = TRUE]
  <2>1. IsContext(a) /\ a.queries = c.queries
    BY <1>2, ContextUpdates, QueriesStay DEF Grows
  <2> HIDE DEF a
  <2>2. PushError(a, type).queries = c.queries
    BY <2>1, QueriesStay
  <2>3. QED
    BY <2>2 DEF a
<1>6. ASSUME NEW kind \in Repeatable \cup Codecs \cup {"form post"}, NEW must \in BOOLEAN,
             BindCall(kind, must)
      PROVE  Later(rd, rd') /\ c'.queries = c.queries
  <2>1. rd' = AfterBind(rd, kind)
    BY <1>6 DEF BindCall
  <2>2. c' = PushError([c EXCEPT !.aborted = TRUE], "bind") \/ c' = c
    BY <1>6, Zenon DEF BindCall
  <2>3. Later(rd, rd')
    BY <2>1, BindReads
  <2>4. c'.queries = c.queries
    BY <1>5, <2>2 DEF ErrorTypes
  <2>5. QED
    BY <2>3, <2>4
<1>7. CASE Bind \/ BindWith
  <2>1. PICK kind \in Repeatable \cup Codecs \cup {"form post"} :
          \E must \in BOOLEAN : BindCall(kind, must)
    BY <1>7, BindKinds
  <2>2. QED
    BY <1>3, <1>4, <1>6, <2>1
<1>8. CASE ShouldBindBodyWith
  <2>1. rd' = rd \/ rd' = [rd EXCEPT !.left = FALSE]
    BY <1>8, Zenon DEF ShouldBindBodyWith
  <2>2. Kept(c) # <<>> => c' = c
    BY <1>8 DEF ShouldBindBodyWith, Kept
  <2>3. QED
    BY <1>1, <1>3, <2>1, <2>2
<1>9. CASE GetRawData
  BY <1>1, <1>3, <1>9, Zenon DEF GetRawData
<1>10. CASE RenderCall \/ Direct \/ Return \/ EncodeResponse \/ EncodeError \/ Finished
  <2>1. rd' = rd /\ c' = c
    BY <1>10, Zenon DEF RenderCall, Direct, Return, EncodeResponse, EncodeError, Finished, vars
  <2>2. QED
    BY <1>1, <1>3, <2>1
<1>11. CASE AbortCall
  <2>1. /\ rd' = rd
        /\ \/ c' = [c EXCEPT !.aborted = TRUE]
           \/ c' = PushError([c EXCEPT !.aborted = TRUE], "private")
           \/ c' = PushError(c, "public")
           \/ c' = c
    BY <1>11, Zenon DEF AbortCall
  <2>2. "private" \in ErrorTypes /\ "public" \in ErrorTypes
    BY DEF ErrorTypes
  <2>3. c'.queries = c.queries
    <3>1. CASE c' = [c EXCEPT !.aborted = TRUE]
      BY <1>2, <3>1, QueriesStay, Zenon
    <3>2. CASE c' = PushError([c EXCEPT !.aborted = TRUE], "private")
      BY <1>5, <2>2, <3>2, Zenon
    <3>3. CASE c' = PushError(c, "public")
      BY <1>2, <2>2, <3>3, QueriesStay, Zenon
    <3>4. QED
      BY <2>1, <3>1, <3>2, <3>3, Zenon
  <2>4. QED
    BY <1>1, <1>3, <1>4, <2>1, <2>3
<1>12. CASE Negotiate
  <2> DEFINE a == [c EXCEPT !.accepted = <<Accepted>>]
             b == [a EXCEPT !.aborted = TRUE]
  <2>1. /\ rd' = rd
        /\ c' = a \/ c' = PushError(b, "private")
    <3>1. \/ c' = [c EXCEPT !.accepted = <<Accepted>>]
          \/ c' = PushError([c EXCEPT !.accepted = <<Accepted>>, !.aborted = TRUE], "private")
      BY <1>12, Zenon DEF Negotiate
    <3>2. rd' = rd
      BY <1>12 DEF Negotiate
    <3>3. QED
      BY <3>1, <3>2
  <2>2. Accepted \in Seq(Formats)
    BY <1>2, ContextAssumption DEF ContextInv, IsContext, Accepted
  <2>3. IsContext(a) /\ a.queries = c.queries
    BY <1>2, <2>2, ContextUpdates, QueriesStay DEF Grows
  <2> HIDE DEF a
  <2>4. IsContext(b) /\ b.queries = c.queries
    BY <2>3, ContextUpdates, QueriesStay DEF Grows
  <2> HIDE DEF b
  <2>5. PushError(b, "private").queries = c.queries
    BY <2>4, QueriesStay DEF ErrorTypes
  <2>6. QED
    BY <1>1, <1>3, <1>4, <2>1, <2>3, <2>5
<1>13. CASE SetAccepted \/ ChooseWriter
  <2>1. /\ rd' = rd
        /\ \E v : \/ c' = [c EXCEPT !.accepted = v] \/ c' = [c EXCEPT !.useRender = v]
                  \/ c' = [c EXCEPT !.useWriter = v]
    BY <1>13, Zenon DEF SetAccepted, ChooseWriter
  <2>2. c'.queries = c.queries
    <3>1. ASSUME NEW v
          PROVE  /\ [c EXCEPT !.accepted = v].queries = c.queries
                 /\ [c EXCEPT !.useRender = v].queries = c.queries
                 /\ [c EXCEPT !.useWriter = v].queries = c.queries
      BY <1>2, QueriesStay, Zenon
    <3>2. PICK v : \/ c' = [c EXCEPT !.accepted = v] \/ c' = [c EXCEPT !.useRender = v]
                   \/ c' = [c EXCEPT !.useWriter = v]
      BY <2>1
    <3>3. CASE c' = [c EXCEPT !.accepted = v]
      BY <3>1, <3>3, Zenon
    <3>4. CASE c' = [c EXCEPT !.useRender = v]
      BY <3>1, <3>4, Zenon
    <3>5. CASE c' = [c EXCEPT !.useWriter = v]
      BY <3>1, <3>5, Zenon
    <3>6. QED
      BY <3>2, <3>3, <3>4, <3>5, Zenon
  <2>3. QED
    BY <1>1, <1>3, <1>4, <2>1, <2>2
<1>14. QED
  BY <1>7, <1>8, <1>9, <1>10, <1>11, <1>12, <1>13 DEF Next

\* What a step adds to the bindings that are remembered.
LEMMA StepRemembers ==
  ContextInv /\ IsReading(rd) /\ Next /\ ~Decode =>
    \/ seen' = seen
    \/ \E kind \in Repeatable \cup Codecs \cup {"form post"} :
         /\ seen' = seen \cup {[how |-> "bind", kind |-> kind, out |-> Outcome(rd, kind),
                                unparsed |-> Unparsed(kind)]}
         /\ rd' = AfterBind(rd, kind)
    \/ \E codec :
         /\ Kept(c') # <<>>
         /\ seen' = seen \cup {[how |-> "bind body", kind |-> codec, unparsed |-> 0,
                                out |-> Decoded(codec, Kept(c')[1])]}
<1> SUFFICES ASSUME ContextInv, Next, ~Decode
             PROVE  \/ seen' = seen
                    \/ \E kind \in Repeatable \cup Codecs \cup {"form post"} :
                         /\ seen' = seen \cup
                              {[how |-> "bind", kind |-> kind, out |-> Outcome(rd, kind),
                                unparsed |-> Unparsed(kind)]}
                         /\ rd' = AfterBind(rd, kind)
                    \/ \E codec :
                         /\ Kept(c') # <<>>
                         /\ seen' = seen \cup {[how |-> "bind body", kind |-> codec, unparsed |-> 0,
                                out |-> Decoded(codec, Kept(c')[1])]}
  OBVIOUS
<1>1. CASE Bind \/ BindWith
  <2>1. PICK kind \in Repeatable \cup Codecs \cup {"form post"} :
          \E must \in BOOLEAN : BindCall(kind, must)
    BY <1>1, BindKinds
  <2>2. /\ seen' = seen \cup {[how |-> "bind", kind |-> kind, out |-> Outcome(rd, kind),
                                unparsed |-> Unparsed(kind)]}
        /\ rd' = AfterBind(rd, kind)
    BY <2>1, Zenon DEF BindCall
  <2>3. QED
    BY <2>2
<1>2. CASE ShouldBindBodyWith
  <2> DEFINE full == IF Kept(c) = <<>> THEN rd.left ELSE Kept(c)[1]
  <2>1. PICK codec :
          /\ seen' = seen \cup
               {[how |-> "bind body", kind |-> codec, unparsed |-> 0,
                 out |-> Decoded(codec, full)]}
          /\ c' = IF Kept(c) = <<>> THEN Set(c, BodyBytesKey, "bytes", full) ELSE c
    BY <1>2, Zenon DEF ShouldBindBodyWith, Kept
  <2>2. Kept(c') # <<>> /\ Kept(c')[1] = full
    <3>1. CASE Kept(c) = <<>>
      <4>1. Kept(c') = <<full>>
        BY <2>1, <3>1, KeptBody DEF ContextInv
      <4>2. QED
        BY <4>1
    <3>2. CASE Kept(c) # <<>>
      BY <2>1, <3>2
    <3>3. QED
      BY <3>1, <3>2
  <2> HIDE DEF full
  <2>3. QED
    BY <2>1, <2>2
<1>3. CASE ~(Bind \/ BindWith \/ ShouldBindBodyWith)
  <2>1. seen' = seen
    BY <1>3 DEF Next, AbortCall, GetRawData, RenderCall, Direct, Negotiate, SetAccepted,
                ChooseWriter, Return, EncodeResponse, EncodeError, Finished, vars
  <2>2. QED
    BY <2>1
<1>4. QED
  BY <1>1, <1>2, <1>3

\* The number of a call is not 0.
LEMMA NextCall == \A n \in Nat : n + 1 # 0
  OBVIOUS

\* What is remembered stays what the bindings would give.
LEMMA StepSeen == ContextInv /\ SeenInv /\ [Next]_vars => SeenInv'
<1> SUFFICES ASSUME ContextInv, SeenInv, [Next]_vars PROVE SeenInv'
  OBVIOUS
<1>1. CASE UNCHANGED vars
  <2>1. rd' = rd /\ seen' = seen /\ c' = c /\ rq' = rq /\ calls' = calls
    BY <1>1 DEF vars
  <2>2. QED
    BY <2>1, SameRequest DEF SeenInv, IsReading, Kept, GetAs
<1>2. CASE Decode
  <2>1. seen' = {} /\ \E b \in BOOLEAN : rd' = [rd EXCEPT !.left = b]
    <3>1. seen' = {}
      BY <1>2 DEF ContextInv, Decode
    <3>2. rd' = [rd EXCEPT !.left = (rq.format = "multipart")]
      BY <1>2 DEF Decode
    <3>3. (rq.format = "multipart") \in BOOLEAN
      OBVIOUS
    <3>4. QED
      BY <3>1, <3>2, <3>3, Zenon
  <2>2. IsReading(rd)'
    BY <2>1 DEF SeenInv, IsReading
  <2>3. calls' \in Nat
    BY <1>2 DEF SeenInv, Decode
  <2>4. QED
    BY <2>1, <2>2, <2>3 DEF SeenInv
<1>3. CASE Next /\ ~Decode
  <2>1. IsReading(rd)
    BY DEF SeenInv
  <2>2. Later(rd, rd') /\ (Kept(c) # <<>> => Kept(c') = Kept(c)) /\ rq' = rq
    BY <1>3, <2>1, StepReads
  <2>3. /\ Parsed(rd)' <=> Parsed(rd')
        /\ \A kind \in Repeatable : Outcome(rd, kind)' = Outcome(rd', kind)
        /\ \A kind, full : Decoded(kind, full)' = Decoded(kind, full)
    BY <2>2, SameRequest
  <2> DEFINE Holds(s) ==
        \/ /\ s.how = "bind"
           /\ s.kind \in Repeatable \cup Codecs \cup {"form post"}
           /\ s.unparsed # 0 => rd'.post # <<>> /\ ~rq.parses
           /\ s.kind \in Repeatable /\ s.unparsed = 0 =>
                /\ s.out = Outcome(rd', s.kind)
                /\ s.kind \in {"form", "multipart"} => Parsed(rd')
        \/ /\ s.how = "bind body"
           /\ Kept(c') # <<>>
           /\ s.unparsed = 0
           /\ s.out = Decoded(s.kind, Kept(c')[1])
  <2>4. ASSUME NEW s \in seen
        PROVE  Holds(s)
    <3>1. CASE s.how = "bind"
      <4>1. /\ s.kind \in Repeatable \cup Codecs \cup {"form post"}
            /\ s.unparsed # 0 => rd.post # <<>> /\ ~rq.parses
            /\ s.kind \in Repeatable /\ s.unparsed = 0 =>
                 /\ s.out = Outcome(rd, s.kind)
                 /\ s.kind \in {"form", "multipart"} => Parsed(rd)
        BY <3>1 DEF SeenInv
      <4>2. s.kind \in Repeatable /\ s.unparsed = 0 => Outcome(rd', s.kind) = Outcome(rd, s.kind)
        BY <2>1, <2>2, <4>1, OutcomeStays
      <4>3. /\ Parsed(rd) => Parsed(rd')
            /\ rd.post # <<>> => rd'.post # <<>>
        BY <2>2 DEF Later
      <4>4. QED
        BY <3>1, <4>1, <4>2, <4>3
    <3>2. CASE s.how # "bind"
      <4>1. /\ s.how = "bind body" /\ Kept(c) # <<>> /\ s.unparsed = 0
            /\ s.out = Decoded(s.kind, Kept(c)[1])
        BY <3>2 DEF SeenInv
      <4>2. Kept(c') = Kept(c)
        BY <2>2, <4>1
      <4>3. QED
        BY <4>1, <4>2
    <3>3. QED
      BY <3>1, <3>2
  <2>5. ASSUME NEW s \in seen', s \notin seen
        PROVE  /\ Holds(s)
               /\ s.unparsed # 0 => rd.post = <<>>
               /\ seen' = seen \cup {s}
    <3>1. CASE \E kind \in Repeatable \cup Codecs \cup {"form post"} :
                 /\ seen' = seen \cup
                      {[how |-> "bind", kind |-> kind, out |-> Outcome(rd, kind),
                        unparsed |-> Unparsed(kind)]}
                 /\ rd' = AfterBind(rd, kind)
      <4>1. PICK kind \in Repeatable \cup Codecs \cup {"form post"} :
              /\ s = [how |-> "bind", kind |-> kind, out |-> Outcome(rd, kind),
                      unparsed |-> Unparsed(kind)]
              /\ rd' = AfterBind(rd, kind)
              /\ seen' = seen \cup {s}
        BY <2>5, <3>1
      <4>2. /\ s.how = "bind" /\ s.kind = kind /\ s.out = Outcome(rd, kind)
            /\ s.unparsed = Unparsed(kind)
        BY <4>1
      <4>3. CASE Malformed(rd, kind)
        <5>1. rd.post = <<>> /\ ~rq.parses /\ rd'.post # <<>>
          BY <2>1, <4>1, <4>3, BindReads DEF Malformed
        <5>2. s.unparsed # 0
          <6>1. calls \in Nat
            BY DEF SeenInv
          <6>2. s.unparsed = calls + 1
            BY <4>2, <4>3 DEF Unparsed
          <6>3. calls + 1 # 0
            BY <6>1, NextCall, Zenon
          <6>4. QED
            BY ONLY <6>2, <6>3
        <5>3. QED
          BY <4>1, <4>2, <5>1, <5>2
      <4>4. CASE ~Malformed(rd, kind)
        <5>1. /\ kind \in {"form", "multipart"} => Parsed(rd')
              /\ kind \in Repeatable => Outcome(rd', kind) = Outcome(rd, kind)
          BY <2>1, <4>1, <4>4, BindReads
        <5>2. s.unparsed = 0
          BY <4>2, <4>4 DEF Unparsed
        <5>3. QED
          BY <4>1, <4>2, <5>1, <5>2
      <4>5. QED
        BY <4>3, <4>4
    <3>2. CASE \E codec :
                 /\ Kept(c') # <<>>
                 /\ seen' = seen \cup {[how |-> "bind body", kind |-> codec, unparsed |-> 0,
                                        out |-> Decoded(codec, Kept(c')[1])]}
      <4>1. PICK codec :
              /\ Kept(c') # <<>>
              /\ s = [how |-> "bind body", kind |-> codec, unparsed |-> 0,
                      out |-> Decoded(codec, Kept(c')[1])]
              /\ seen' = seen \cup {s}
        BY <2>5, <3>2
      <4>2. /\ s.how = "bind body" /\ s.kind = codec /\ s.unparsed = 0
            /\ s.out = Decoded(codec, Kept(c')[1])
        BY <4>1
      <4>3. QED
        BY <4>1, <4>2
    <3>3. seen' # seen
      BY <2>5
    <3>4. QED
      BY <1>3, <2>1, <3>1, <3>2, <3>3, StepRemembers
  <2>6. ASSUME NEW s \in seen', NEW u \in seen', s.unparsed # 0, u.unparsed # 0
        PROVE  s = u
    <3>1. \A v \in seen : v.unparsed # 0 => rd.post # <<>>
      BY DEF SeenInv
    <3>2. CASE s \in seen /\ u \in seen
      BY <2>6, <3>2 DEF SeenInv
    <3>3. CASE s \notin seen
      BY <2>5, <2>6, <3>1, <3>3
    <3>4. CASE u \notin seen
      BY <2>5, <2>6, <3>1, <3>4
    <3>5. QED
      BY <3>2, <3>3, <3>4
  <2>7. Kept(c)' = Kept(c')
    BY DEF Kept, GetAs
  <2>8. IsReading(rd)'
    BY <2>2 DEF Later, IsReading
  <2>9. \A s \in seen' : Holds(s)
    BY <2>4, <2>5
  <2>10. calls' \in Nat
    <3>1. calls' = calls \/ calls' = calls + 1
      BY <1>3, Zenon DEF Next, AbortCall, Bind, BindWith, BindCall, Call, ShouldBindBodyWith,
                         GetRawData, RenderCall, Direct, Negotiate, SetAccepted, ChooseWriter,
                         Return, EncodeResponse, EncodeError, Finished, vars
    <3>2. calls \in Nat
      BY DEF SeenInv
    <3>3. QED
      BY ONLY <3>1, <3>2
  <2>11. QED
    BY <2>2, <2>3, <2>6, <2>7, <2>8, <2>9, <2>10 DEF SeenInv
<1>4. QED
  BY <1>1, <1>2, <1>3

\* Binding again gives the same value and error, whatever was called in between;
\* a form that cannot be parsed fails once (ShouldBindWith, ShouldBindBodyWith,
\* net/http's ParseForm and ParseMultipartForm).
THEOREM BindsRepeatTheorem == Spec => []BindsRepeat
<1>1. Init => SeenInv
  <2> SUFFICES ASSUME Init PROVE SeenInv
    OBVIOUS
  <2>1. calls = 0 /\ rd.left = TRUE /\ rd.parts = FALSE /\ rd = [left |-> rd.left, post |-> rd.post, parts |-> rd.parts]
    BY DEF Init
  <2>2. seen = {}
    BY DEF Init
  <2>3. QED
    BY <2>1, <2>2 DEF SeenInv, IsReading
<1>2. ContextInv /\ SeenInv /\ [Next]_vars => SeenInv'
  BY StepSeen
<1>3. SeenInv => BindsRepeat
  <2> SUFFICES ASSUME SeenInv, NEW s \in seen, NEW t \in seen
               PROVE  /\ ( /\ s.how = t.how /\ s.kind = t.kind
                           /\ s.how = "bind" => s.kind \notin Codecs \cup {"form post"} )
                         => s.out = t.out \/ (~rq.parses /\ s.unparsed # t.unparsed)
                      /\ s.unparsed # 0 /\ t.unparsed # 0 => s = t
    BY DEF BindsRepeat
  <2> SUFFICES ASSUME s.how = t.how, s.kind = t.kind,
                      s.how = "bind" => s.kind \notin Codecs \cup {"form post"},
                      s.out # t.out
               PROVE  ~rq.parses /\ s.unparsed # t.unparsed
    BY DEF SeenInv
  <2>1. CASE s.how = "bind"
    <3>1. s.kind \in Repeatable
      BY <2>1 DEF SeenInv
    <3>2. /\ s.unparsed # 0 => ~rq.parses
          /\ t.unparsed # 0 => ~rq.parses
          /\ s.unparsed = 0 => s.out = Outcome(rd, s.kind)
          /\ t.unparsed = 0 => t.out = Outcome(rd, t.kind)
          /\ s.unparsed # 0 /\ t.unparsed # 0 => s = t
      BY <2>1, <3>1 DEF SeenInv
    <3>3. QED
      BY <3>2
  <2>2. CASE s.how # "bind"
    <3>1. s.out = Decoded(s.kind, Kept(c)[1]) /\ t.out = Decoded(t.kind, Kept(c)[1])
      BY <2>2 DEF SeenInv
    <3>2. QED
      BY <3>1
  <2>3. QED
    BY <2>1, <2>2
<1>4. QED
  BY <1>1, <1>2, <1>3, ContextInvariant, PTL DEF Spec
=============================================================================
