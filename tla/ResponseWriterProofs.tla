------------------------ MODULE ResponseWriterProofs ------------------------
(***************************************************************************)
(* The records of a response agree, whatever sequence of operations the    *)
(* three writers see, for all codes and sizes.                             *)
(*                                                                         *)
(* WriterInv is not inductive: a status without a body must not be sent    *)
(* after a body, and a hijacked connection must have no interceptingWriter *)
(* that misses what happens.  Sound adds that.                             *)
(***************************************************************************)
EXTENDS ResponseWriter, TLAPS

\* What the operations preserve of a writer record.
Sound(v) ==
  /\ v \in Writers
  /\ v.body \in Nat
  /\ v.sent = 0 => v.body = 0
  /\ v.hijacked => ~v.counting /\ Written(v)
  /\ v.sent \in NoBody => v.body = 0
  /\ ~v.panicked /\ v.counting =>
       /\ v.written = v.body
       /\ ~v.raw /\ v.sent # 0 => v.code = v.sent
  /\ ~v.hijacked /\ ~v.panicked =>
       /\ Written(v) => v.sent # 0 /\ v.size <= v.body /\ v.size >= 0
       /\ ~v.raw => /\ Written(v) /\ ~v.late => v.status = v.sent
                    /\ Written(v) => v.size = v.body
                    /\ ~Written(v) => v.sent = 0 /\ v.body = 0

\* A new response is sound, with finalizers or without.
LEMMA NewIsSound == ASSUME NEW f \in BOOLEAN PROVE Sound(NewWriter(f))
BY DEF Sound, NewWriter, Writers, Written, noWritten, defaultStatus, NoBody

\* Changing one field of a writer record gives a writer record.
LEMMA UpdatesInt ==
  ASSUME NEW v \in Writers, NEW i \in Int
  PROVE  /\ [v EXCEPT !.size = i] \in Writers
         /\ [v EXCEPT !.status = i] \in Writers
         /\ [v EXCEPT !.code = i] \in Writers
         /\ [v EXCEPT !.written = i] \in Writers
         /\ [v EXCEPT !.sent = i] \in Writers
         /\ [v EXCEPT !.body = i] \in Writers
BY Zenon DEF Writers

\* A writer with another truth value is a writer.
LEMMA UpdatesBool ==
  ASSUME NEW v \in Writers, NEW b \in BOOLEAN
  PROVE  /\ [v EXCEPT !.hijacked = b] \in Writers
         /\ [v EXCEPT !.panicked = b] \in Writers
         /\ [v EXCEPT !.late = b] \in Writers
         /\ [v EXCEPT !.raw = b] \in Writers
BY Zenon DEF Writers

\* The types of the fields of a writer.
LEMMA Fields ==
  ASSUME NEW v \in Writers
  PROVE  /\ v.size \in Int /\ v.status \in Int /\ v.code \in Int /\ v.written \in Int
         /\ v.sent \in Int /\ v.body \in Int /\ v.counting \in BOOLEAN
         /\ v.hijacked \in BOOLEAN /\ v.panicked \in BOOLEAN
         /\ v.late \in BOOLEAN /\ v.raw \in BOOLEAN
BY DEF Writers

\* net/http sends the first status, and panics when it is none.  h is v after
\* that, k the code that interceptingWriter has then.
HeaderSent(h, v, c, k) ==
  /\ h \in Writers
  /\ h.size = v.size /\ h.status = v.status /\ h.counting = v.counting
  /\ h.code = k /\ h.written = v.written /\ h.body = v.body
  /\ h.hijacked = v.hijacked /\ h.late = v.late /\ h.raw = v.raw
  /\ v.hijacked \/ v.sent # 0 => h.sent = v.sent /\ h.panicked = v.panicked
  /\ ~v.hijacked /\ v.sent = 0 =>
       \/ h.sent = c /\ c \in 200..999 /\ h.panicked = v.panicked
       \/ h.sent = 0 /\ h.panicked /\ c \notin 200..999

\* The header of net/http, field by field.
LEMMA NetWriteHeaderFields ==
  ASSUME NEW v \in Writers, NEW c \in Int
  PROVE  HeaderSent(NetWriteHeader(v, c), v, c, v.code)
<1> DEFINE s == [v EXCEPT !.sent = c]
           p == [v EXCEPT !.panicked = TRUE]
<1>1. s \in Writers /\ p \in Writers
  BY UpdatesInt, UpdatesBool
<1>2. /\ s.size = v.size /\ s.status = v.status /\ s.counting = v.counting
      /\ s.code = v.code /\ s.written = v.written /\ s.body = v.body
      /\ s.hijacked = v.hijacked /\ s.late = v.late /\ s.raw = v.raw
      /\ s.sent = c /\ s.panicked = v.panicked
  BY DEF Writers
<1>3. /\ p.size = v.size /\ p.status = v.status /\ p.counting = v.counting
      /\ p.code = v.code /\ p.written = v.written /\ p.body = v.body
      /\ p.hijacked = v.hijacked /\ p.late = v.late /\ p.raw = v.raw
      /\ p.sent = v.sent /\ p.panicked = TRUE
  BY DEF Writers
<1>4. NetWriteHeader(v, c) = IF v.hijacked \/ v.sent # 0 THEN v
                             ELSE IF c \in 200..999 THEN s ELSE p
  BY DEF NetWriteHeader
<1> HIDE DEF s, p
<1> QED BY <1>1, <1>2, <1>3, <1>4 DEF HeaderSent

\* The interceptingWriter, when there is one, keeps the last status.
LEMMA InterceptWriteHeaderFields ==
  ASSUME NEW v \in Writers, NEW c \in Int
  PROVE  HeaderSent(InterceptWriteHeader(v, c), v, c, IF v.counting THEN c ELSE v.code)
<1> DEFINE k == [v EXCEPT !.code = c]
           b == IF v.counting THEN k ELSE v
<1>1. k \in Writers
  BY UpdatesInt
<1>2. /\ k.size = v.size /\ k.status = v.status /\ k.counting = v.counting
      /\ k.code = c /\ k.written = v.written /\ k.body = v.body
      /\ k.hijacked = v.hijacked /\ k.late = v.late /\ k.raw = v.raw
      /\ k.sent = v.sent /\ k.panicked = v.panicked
  BY DEF Writers
<1> HIDE DEF k
<1>3. b \in Writers
  BY <1>1
<1>4. InterceptWriteHeader(v, c) = NetWriteHeader(b, c)
  BY DEF InterceptWriteHeader, k
<1>5. HeaderSent(NetWriteHeader(b, c), b, c, b.code)
  BY <1>3, NetWriteHeaderFields
<1>6. HeaderSent(NetWriteHeader(b, c), v, c, b.code)
  BY <1>2, <1>5 DEF HeaderSent
<1>7. b.code = IF v.counting THEN c ELSE v.code
  BY <1>2
<1> QED BY <1>4, <1>6, <1>7

\* Bytes count for the interceptingWriter when net/http accepts them.  h is v
\* after n bytes.
BytesSent(h, v, n) ==
  /\ h \in Writers
  /\ h.size = v.size /\ h.status = v.status /\ h.counting = v.counting
  /\ h.code = v.code /\ h.hijacked = v.hijacked /\ h.late = v.late
  /\ h.raw = v.raw /\ h.panicked = v.panicked
  /\ h.sent = (IF v.hijacked \/ v.sent # 0 THEN v.sent ELSE 200)
  /\ h.body = (IF ~v.hijacked /\ v.sent \notin NoBody THEN v.body + n ELSE v.body)
  /\ h.written = (IF v.counting THEN v.written + (h.body - v.body) ELSE v.written)

\* The bytes of interceptingWriter, field by field.
LEMMA InterceptWriteFields ==
  ASSUME NEW v \in Writers, NEW n \in Nat
  PROVE  BytesSent(InterceptWrite(v, n), v, n)
<1> DEFINE s == NetWriteHeader(v, 200)
           b == [s EXCEPT !.body = s.body + n]
           m == NetWrite(v, n)
           k == [m EXCEPT !.written = m.written + m.body - v.body]
<1>1. /\ s \in Writers
      /\ s.size = v.size /\ s.status = v.status /\ s.counting = v.counting
      /\ s.code = v.code /\ s.hijacked = v.hijacked /\ s.late = v.late
      /\ s.raw = v.raw /\ s.panicked = v.panicked /\ s.body = v.body
      /\ s.written = v.written
      /\ s.sent = IF v.hijacked \/ v.sent # 0 THEN v.sent ELSE 200
  <2>1. HeaderSent(s, v, 200, v.code)
    BY NetWriteHeaderFields
  <2> HIDE DEF s
  <2> QED BY <2>1 DEF HeaderSent
<1> HIDE DEF s
<1>2. /\ b \in Writers
      /\ b.size = s.size /\ b.status = s.status /\ b.counting = s.counting
      /\ b.code = s.code /\ b.hijacked = s.hijacked /\ b.late = s.late
      /\ b.raw = s.raw /\ b.panicked = s.panicked /\ b.body = s.body + n
      /\ b.written = s.written /\ b.sent = s.sent
  <2>1. b \in Writers
    <3>1. s.body + n \in Int
      BY <1>1, Fields
    <3> QED BY <1>1, <3>1, UpdatesInt
  <2> QED BY <2>1, <1>1 DEF Writers
<1>3. m = IF ~s.hijacked /\ s.sent \notin NoBody THEN b ELSE s
  BY DEF NetWrite, Accepts, s
<1> HIDE DEF b, m
<1>4. /\ m \in Writers
      /\ m.size = v.size /\ m.status = v.status /\ m.counting = v.counting
      /\ m.code = v.code /\ m.hijacked = v.hijacked /\ m.late = v.late
      /\ m.raw = v.raw /\ m.panicked = v.panicked /\ m.written = v.written
      /\ m.sent = (IF v.hijacked \/ v.sent # 0 THEN v.sent ELSE 200)
      /\ m.body = (IF ~v.hijacked /\ v.sent \notin NoBody THEN v.body + n ELSE v.body)
  BY <1>1, <1>2, <1>3 DEF NoBody
<1>5. /\ k \in Writers
      /\ k.size = m.size /\ k.status = m.status /\ k.counting = m.counting
      /\ k.code = m.code /\ k.hijacked = m.hijacked /\ k.late = m.late
      /\ k.raw = m.raw /\ k.panicked = m.panicked /\ k.body = m.body
      /\ k.written = m.written + m.body - v.body /\ k.sent = m.sent
  <2>1. k \in Writers
    <3>1. m.written + m.body - v.body \in Int
      BY <1>4, Fields
    <3> QED BY <1>4, <3>1, UpdatesInt
  <2> QED BY <2>1, <1>4 DEF Writers
<1>6. InterceptWrite(v, n) = IF v.counting THEN k ELSE m
  BY DEF InterceptWrite, m
<1> HIDE DEF k
<1>7. m.written + m.body - v.body = v.written + (m.body - v.body)
  BY <1>4, Fields
<1> QED BY <1>4, <1>5, <1>6, <1>7 DEF BytesSent

\* responseWriter.WriteHeader only notes the status, and warns when it is late.
LEMMA WriteHeaderSound ==
  ASSUME NEW v, Sound(v), ~v.panicked, NEW code \in Int
  PROVE  Sound(WriteHeader(v, code))
<1> DEFINE a == [v EXCEPT !.status = code]
           b == [a EXCEPT !.late = v.late \/ Written(v)]
<1>1. v \in Writers /\ (v.late \/ Written(v)) \in BOOLEAN
  BY Fields DEF Sound, Written
<1>2. a \in Writers
  BY <1>1, UpdatesInt
<1>3. b \in Writers
  BY <1>1, <1>2, UpdatesBool
<1>4. /\ b.size = v.size /\ b.status = code /\ b.counting = v.counting
      /\ b.code = v.code /\ b.written = v.written /\ b.body = v.body
      /\ b.hijacked = v.hijacked /\ b.late = (v.late \/ Written(v)) /\ b.raw = v.raw
      /\ b.sent = v.sent /\ b.panicked = v.panicked
  BY <1>1 DEF Writers
<1>5. WriteHeader(v, code) = IF code > 0 /\ v.status # code THEN b ELSE v
  BY <1>1 DEF WriteHeader, Writers
<1> HIDE DEF a, b
<1> QED BY <1>3, <1>4, <1>5 DEF Sound, Written

\* WriteHeaderNow sends the status once.
LEMMA WriteHeaderNowSound ==
  ASSUME NEW v, Sound(v), ~v.panicked
  PROVE  /\ Sound(WriteHeaderNow(v))
         /\ Written(WriteHeaderNow(v))
<1> DEFINE a == [v EXCEPT !.size = 0]
           h == InterceptWriteHeader(a, v.status)
<1>1. v \in Writers /\ a \in Writers /\ v.status \in Int
  <2>1. v \in Writers
    BY DEF Sound
  <2>2. 0 \in Int /\ v.status \in Int
    BY <2>1, Fields
  <2> QED BY <2>1, <2>2, UpdatesInt
<1>2. /\ a.size = 0 /\ a.status = v.status /\ a.counting = v.counting
      /\ a.code = v.code /\ a.written = v.written /\ a.body = v.body
      /\ a.hijacked = v.hijacked /\ a.late = v.late /\ a.raw = v.raw
      /\ a.sent = v.sent /\ a.panicked = v.panicked
  BY <1>1 DEF Writers
<1>3. WriteHeaderNow(v) = IF Written(v) THEN v ELSE h
  BY DEF WriteHeaderNow
<1> HIDE DEF a
<1>4. HeaderSent(h, a, v.status, IF v.counting THEN v.status ELSE v.code)
  <2>1. HeaderSent(h, a, v.status, IF a.counting THEN v.status ELSE a.code)
    BY <1>1, InterceptWriteHeaderFields
  <2> QED BY <2>1, <1>2
<1> HIDE DEF h
<1> QED BY <1>1, <1>2, <1>3, <1>4, Fields DEF Sound, HeaderSent, Written, noWritten, NoBody

\* A write after the header.
LEMMA WriteSound ==
  ASSUME NEW v, Sound(v), ~v.panicked, NEW n \in Nat
  PROVE  Sound(Write(v, n))
<1> DEFINE h == WriteHeaderNow(v)
           a == InterceptWrite(h, n)
           b == [a EXCEPT !.size = a.size + a.body - h.body]
<1>1. Sound(h) /\ Written(h) /\ h \in Writers
  BY WriteHeaderNowSound DEF Sound
<1>2. Write(v, n) = IF h.panicked THEN h ELSE b
  BY DEF Write
<1> HIDE DEF h
<1>3. BytesSent(a, h, n)
  BY <1>1, InterceptWriteFields
<1> HIDE DEF a
<1>4. /\ b \in Writers
      /\ b.size = a.size + a.body - h.body /\ b.status = a.status
      /\ b.counting = a.counting /\ b.code = a.code /\ b.written = a.written
      /\ b.body = a.body /\ b.hijacked = a.hijacked /\ b.late = a.late
      /\ b.raw = a.raw /\ b.sent = a.sent /\ b.panicked = a.panicked
  <2>1. a \in Writers /\ a.size + a.body - h.body \in Int
    BY <1>1, <1>3, Fields DEF BytesSent
  <2>2. b \in Writers
    BY <2>1, UpdatesInt
  <2> QED BY <2>1, <2>2 DEF Writers
<1> HIDE DEF b
<1>5. CASE h.panicked
  BY <1>1, <1>2, <1>5
<1>6. CASE ~h.panicked
  BY <1>1, <1>2, <1>3, <1>4, <1>6, Fields DEF Sound, BytesSent, Written, noWritten, NoBody
<1> QED BY <1>5, <1>6

\* A record that only differs in having panicked is sound.
LEMMA PanickedSound ==
  ASSUME NEW v, v \in Writers, v.body \in Nat, v.sent = 0 => v.body = 0,
         v.hijacked => ~v.counting /\ Written(v), v.sent \in NoBody => v.body = 0
  PROVE  Sound([v EXCEPT !.panicked = TRUE])
<1> DEFINE p == [v EXCEPT !.panicked = TRUE]
<1>1. p \in Writers
  BY UpdatesBool
<1>2. /\ p.size = v.size /\ p.counting = v.counting /\ p.body = v.body
      /\ p.hijacked = v.hijacked /\ p.sent = v.sent /\ p.panicked = TRUE
  BY DEF Writers
<1> HIDE DEF p
<1>3. Sound(p)
  BY <1>1, <1>2 DEF Sound, Written
<1> QED BY <1>3 DEF p

\* Flush and Hijack panic when the engine has finalizers.
LEMMA FlushSound == ASSUME NEW v, Sound(v), ~v.panicked PROVE Sound(Flush(v))
<1>1. Sound(WriteHeaderNow(v))
  BY WriteHeaderNowSound
<1>2. Sound([WriteHeaderNow(v) EXCEPT !.panicked = TRUE])
  BY <1>1, PanickedSound DEF Sound
<1> QED BY <1>1, <1>2 DEF Flush

\* Hijack, which panics over a counting writer.
LEMMA HijackSound == ASSUME NEW v, Sound(v), ~v.panicked PROVE Sound(Hijack(v))
<1> DEFINE size == IF v.size < 0 THEN 0 ELSE v.size
           h == [v EXCEPT !.size = size]
           j == [h EXCEPT !.hijacked = TRUE]
           p == [h EXCEPT !.panicked = TRUE]
<1>1. v \in Writers /\ size \in Int /\ size >= 0
  BY Fields DEF Sound
<1>2. h \in Writers
  BY <1>1, UpdatesInt
<1>3. /\ h.size = size /\ h.counting = v.counting /\ h.body = v.body
      /\ h.hijacked = v.hijacked /\ h.sent = v.sent /\ h.panicked = v.panicked
      /\ h.code = v.code /\ h.written = v.written /\ h.raw = v.raw
  BY <1>1 DEF Writers
<1>4. Hijack(v) = IF v.counting THEN p ELSE j
  BY DEF Hijack
<1> HIDE DEF h, size
<1>5. j \in Writers
  BY <1>2, UpdatesBool
<1>6. /\ j.size = h.size /\ j.counting = h.counting /\ j.body = h.body
      /\ j.hijacked = TRUE /\ j.sent = h.sent /\ j.panicked = h.panicked
  BY <1>2 DEF Writers
<1>7. Sound(p)
  BY <1>1, <1>2, <1>3, PanickedSound DEF Sound, Written, noWritten
<1> HIDE DEF j, p
<1>8. CASE v.counting
  BY <1>4, <1>7, <1>8
<1>9. CASE ~v.counting
  <2>1. Sound(j)
    BY <1>1, <1>3, <1>5, <1>6, <1>9 DEF Sound, Written, noWritten
  <2> QED BY <2>1, <1>4, <1>9
<1> QED BY <1>8, <1>9

\* Writing past the context.
LEMMA RawSound ==
  ASSUME NEW v, Sound(v), ~v.panicked
  PROVE  LET r == [v EXCEPT !.raw = TRUE] IN
         r \in Writers /\ Sound(r) /\ ~r.panicked /\ r.raw
<1> DEFINE r == [v EXCEPT !.raw = TRUE]
<1>1. v \in Writers /\ r \in Writers
  <2>1. v \in Writers
    BY DEF Sound
  <2> QED BY <2>1, UpdatesBool
<1>2. /\ r.size = v.size /\ r.status = v.status /\ r.counting = v.counting
      /\ r.code = v.code /\ r.written = v.written /\ r.body = v.body
      /\ r.hijacked = v.hijacked /\ r.raw = TRUE
      /\ r.sent = v.sent /\ r.panicked = v.panicked
  BY <1>1 DEF Writers
<1> HIDE DEF r
<1>3. Sound(r) /\ ~r.panicked /\ r.raw
  BY <1>1, <1>2 DEF Sound, Written
<1> QED BY <1>1, <1>3 DEF r

\* Bytes written past the context.
LEMMA RawWriteSound ==
  ASSUME NEW v, Sound(v), ~v.panicked, NEW n \in Nat
  PROVE  Sound(RawWrite(v, n))
<1> DEFINE r == [v EXCEPT !.raw = TRUE]
           h == InterceptWrite(r, n)
<1>1. r \in Writers /\ Sound(r) /\ ~r.panicked /\ r.raw
  BY RawSound
<1> HIDE DEF r
<1>2. BytesSent(h, r, n)
  BY <1>1, InterceptWriteFields
<1> HIDE DEF h
<1>3. Sound(h)
  BY <1>1, <1>2, Fields DEF Sound, BytesSent, Written, noWritten, NoBody
<1> QED BY <1>3 DEF RawWrite, h, r

\* A header written past the context.
LEMMA RawWriteHeaderSound ==
  ASSUME NEW v, Sound(v), ~v.panicked, NEW code \in Int
  PROVE  Sound(RawWriteHeader(v, code))
<1> DEFINE r == [v EXCEPT !.raw = TRUE]
           h == InterceptWriteHeader(r, code)
<1>1. r \in Writers /\ Sound(r) /\ ~r.panicked /\ r.raw
  BY RawSound
<1> HIDE DEF r
<1>2. HeaderSent(h, r, code, IF r.counting THEN code ELSE r.code)
  BY <1>1, InterceptWriteHeaderFields
<1> HIDE DEF h
<1>3. Sound(h)
  BY <1>1, <1>2, Fields DEF Sound, HeaderSent, Written, noWritten, NoBody
<1> QED BY <1>3 DEF RawWriteHeader, h, r

\* Every sequence of operations leaves the writers sound.
LEMMA WriterSound == WSpec => []Sound(w)
<1>1. WInit => Sound(w)
  BY NewIsSound DEF WInit
<1>2. Sound(w) /\ [WNext]_w => Sound(w)'
  <2> SUFFICES ASSUME Sound(w), WNext PROVE Sound(w')
    OBVIOUS
  <2> USE WriterAssumption
  <2>1. CASE \E code \in Codes : w' = WriteHeader(w, code)
    BY <2>1, WriteHeaderSound DEF WNext
  <2>2. CASE w' = WriteHeaderNow(w)
    BY <2>2, WriteHeaderNowSound DEF WNext
  <2>3. CASE \E n \in Sizes : w' = Write(w, n)
    BY <2>3, WriteSound DEF WNext
  <2>4. CASE w' = Flush(w)
    BY <2>4, FlushSound DEF WNext
  <2>5. CASE w' = Hijack(w)
    BY <2>5, HijackSound DEF WNext
  <2>6. CASE \E n \in Sizes : w' = RawWrite(w, n)
    BY <2>6, RawWriteSound DEF WNext
  <2>7. CASE \E code \in Codes : w' = RawWriteHeader(w, code)
    BY <2>7, RawWriteHeaderSound DEF WNext
  <2> QED BY <2>1, <2>2, <2>3, <2>4, <2>5, <2>6, <2>7 DEF WNext
<1> QED BY <1>1, <1>2, PTL DEF WSpec

\* Status(), Size() and what the finalizers get are what the client got, for
\* every sequence of writes through the context and past it.
THEOREM WritersAgree == WSpec => []WriterInv
<1>1. Sound(w) => WriterInv
  BY DEF Sound, WriterInv, ContextTruthful, FinalizerTruthful, BodilessIsEmpty
<1> QED BY <1>1, WriterSound, PTL
=============================================================================
