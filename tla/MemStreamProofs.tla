-------------------------- MODULE MemStreamProofs ---------------------------
(***************************************************************************)
(* A memory stream is a queue of bytes, for every set of streams, size and *)
(* number of bytes.  What a stream holds is the window of its buffer       *)
(* between RPos and WPos; the lemmas say what memcpy behind a window does  *)
(* to it (AppendToWindow) and that MemStreamMove keeps it (MoveKeeps).     *)
(***************************************************************************)
EXTENDS MemStream, SequenceTheorems, TLAPS

Buffers == [1 .. Size -> Bytes]
Window(b, r, w) == SubSeq(b, r + 1, w)

\* A window has the bytes between its ends.
LEMMA WindowBytes ==
    ASSUME NEW b \in Buffers, NEW r \in 0 .. Size, NEW w \in r .. Size
    PROVE  /\ Window(b, r, w) \in Seq(Bytes)
           /\ Len(Window(b, r, w)) = w - r
           /\ \A i \in 1 .. w - r : Window(b, r, w)[i] = b[r + i]
<1>1. \A i \in r + 1 .. w : b[i] \in Bytes
  BY SizeAssumption DEF Buffers
<1>2. r + 1 \in Int /\ w \in Int
  BY SizeAssumption
<1>3. /\ Window(b, r, w) \in Seq(Bytes)
      /\ Len(Window(b, r, w)) = IF r + 1 <= w THEN w - (r + 1) + 1 ELSE 0
      /\ \A i \in 1 .. w - (r + 1) + 1 : Window(b, r, w)[i] = b[r + 1 + i - 1]
  BY <1>1, <1>2, SubSeqProperties DEF Window
<1> QED BY <1>3, SizeAssumption

\* A buffer copied into stays a buffer.
LEMMA PutBuffer ==
    ASSUME NEW b \in Buffers, NEW p \in 0 .. Size, NEW data \in Seq(Bytes)
    PROVE  Put(b, p, data) \in Buffers
  BY SizeAssumption DEF Put, Buffers

\* The bytes that are copied behind a window lengthen it by as many of them as
\* WPos is moved over.
LEMMA AppendToWindow ==
    ASSUME NEW b \in Buffers, NEW r \in 0 .. Size, NEW w \in r .. Size,
           NEW data \in Seq(Bytes), NEW e \in w .. Size, e - w <= Len(data)
    PROVE  Window(Put(b, w, data), r, e) = Window(b, r, w) \o SubSeq(data, 1, e - w)
<1> DEFINE n == e - w
           c == Put(b, w, data)
           s == Window(c, r, e)
           old == Window(b, r, w)
           d == SubSeq(data, 1, n)
           t == old \o d
<1>1. c \in Buffers /\ e \in r .. Size /\ n \in 0 .. Len(data) /\ n \in Nat /\ e = w + n
  BY PutBuffer, LenProperties, SizeAssumption
<1>2. \A i \in r + 1 .. w + n : c[i] = IF w < i THEN data[i - w] ELSE b[i]
  BY LenProperties, SizeAssumption DEF Put
<1> HIDE DEF c, n
<1>3. /\ s \in Seq(Bytes) /\ Len(s) = e - r
      /\ \A i \in 1 .. e - r : s[i] = c[r + i]
  BY <1>1, WindowBytes
<1>4. /\ d \in Seq(Bytes) /\ Len(d) = n /\ \A i \in 1 .. n : d[i] = data[i]
  <2>1. \A i \in 1 .. n : data[i] \in Bytes
    BY <1>1, ElementOfSeq
  <2>2. /\ d \in Seq(Bytes) /\ Len(d) = (IF 1 <= n THEN n - 1 + 1 ELSE 0)
        /\ \A i \in 1 .. n - 1 + 1 : d[i] = data[1 + i - 1]
    BY <1>1, <2>1, SubSeqProperties
  <2> HIDE DEF d
  <2> QED BY <1>1, <2>2
<1>5. /\ old \in Seq(Bytes) /\ Len(old) = w - r
      /\ \A i \in 1 .. w - r : old[i] = b[r + i]
  BY WindowBytes
<1> HIDE DEF old, d
<1>6. /\ t \in Seq(Bytes) /\ Len(t) = Len(old) + Len(d)
      /\ \A i \in 1 .. Len(old) + Len(d) : t[i] = IF i <= Len(old) THEN old[i] ELSE d[i - Len(old)]
  BY <1>4, <1>5, ConcatProperties
<1> HIDE DEF s, t
<1>7. Len(s) = Len(t) /\ Len(s) = w - r + n
  <2>1. /\ r \in Int /\ w \in Int /\ n \in Int
        /\ Len(s) = e - r /\ Len(t) = Len(old) + Len(d) /\ Len(old) = w - r /\ Len(d) = n
    BY <1>1, <1>3, <1>4, <1>5, <1>6, SizeAssumption
  <2> QED BY <1>1, <2>1
<1>8. ASSUME NEW i \in 1 .. Len(s)
      PROVE  s[i] = t[i]
  <2>1. i \in 1 .. e - r /\ r + i \in r + 1 .. w + n /\ i \in 1 .. Len(old) + Len(d)
    BY <1>1, <1>4, <1>5, <1>7, SizeAssumption
  <2>2. s[i] = IF w < r + i THEN data[r + i - w] ELSE b[r + i]
    BY <1>2, <1>3, <2>1
  <2>3. CASE i <= w - r
    BY <1>5, <1>6, <2>1, <2>2, <2>3, SizeAssumption
  <2>4. CASE ~(i <= w - r)
    <3>1. t[i] = d[i - (w - r)] /\ i - (w - r) \in 1 .. n
      BY <1>1, <1>5, <1>6, <2>1, <2>4, SizeAssumption
    <3>2. i - (w - r) = r + i - w /\ w < r + i
      BY <2>4, SizeAssumption
    <3> QED BY <1>4, <2>2, <3>1, <3>2
  <2> QED BY <2>3, <2>4
<1>9. s = t
  BY <1>3, <1>6, <1>7, <1>8, SeqEqual
<1> QED BY <1>9 DEF s, t, old, d, c, n

\* MemStreamMove keeps what a stream holds, and puts it at the front.
LEMMA MoveKeeps ==
    ASSUME TypeOK, NEW s \in Streams
    PROVE  /\ Moved(s).buf \in Buffers
           /\ Moved(s).r = 0 /\ Moved(s).w = StreamLen(s)
           /\ StreamLen(s) \in 0 .. Size
           /\ Window(Moved(s).buf, 0, StreamLen(s)) = Content(s)
<1> DEFINE b == Buffer[s]
           r == RPos[s]
           w == WPos[s]
<1>1. b \in Buffers /\ r \in 0 .. Size /\ w \in r .. Size /\ StreamLen(s) \in 0 .. Size
  <2>1. b \in Buffers
    BY DEF TypeOK, Buffers
  <2>2. r \in 0 .. Size /\ w \in 0 .. Size /\ r <= w
    BY DEF TypeOK
  <2>3. StreamLen(s) = w - r
    BY DEF StreamLen
  <2> HIDE DEF b, r, w
  <2> QED BY <2>1, <2>2, <2>3, SizeAssumption
<1>2. Content(s) = Window(b, r, w)
  BY DEF Content, Window
<1>3. Content(s) \in Seq(Bytes) /\ Len(Content(s)) = StreamLen(s)
  <2> HIDE DEF b, r, w
  <2>1. Window(b, r, w) \in Seq(Bytes) /\ Len(Window(b, r, w)) = w - r
    BY <1>1, WindowBytes
  <2> QED BY <1>2, <2>1 DEF StreamLen, r, w
<1>4. CASE r = 0
  BY <1>1, <1>2, <1>4 DEF Moved, StreamLen
<1>5. CASE r # 0
  <2> DEFINE c == Put(b, 0, Content(s))
  <2>1. Moved(s) = [buf |-> c, r |-> 0, w |-> StreamLen(s)]
    BY <1>5 DEF Moved
  <2>2. c \in Buffers
    BY <1>1, <1>3, PutBuffer, SizeAssumption
  <2>3. Window(c, 0, StreamLen(s)) = Window(b, 0, 0) \o SubSeq(Content(s), 1, StreamLen(s))
    <3> HIDE DEF b, r, w
    <3>1. /\ 0 \in 0 .. Size /\ 0 \in 0 .. Size
          /\ StreamLen(s) \in 0 .. Len(Content(s)) /\ StreamLen(s) = 0 + StreamLen(s)
      BY <1>1, <1>3, SizeAssumption
    <3> DEFINE data == Content(s)
               n == StreamLen(s)
    <3> HIDE DEF data, n
    <3>2. /\ b \in Buffers /\ 0 \in 0 .. Size /\ data \in Seq(Bytes)
          /\ n \in 0 .. Size /\ n - 0 <= Len(data) /\ n - 0 = n
      BY <1>1, <1>3, <3>1 DEF data, n
    <3>3. Window(Put(b, 0, data), 0, n) = Window(b, 0, 0) \o SubSeq(data, 1, n - 0)
      BY <3>2, AppendToWindow
    <3> QED BY <3>2, <3>3 DEF data, n
  <2>4. SubSeq(Content(s), 1, StreamLen(s)) = Content(s)
    BY <1>3, SubSeqFull
  <2>5. Window(b, 0, 0) = <<>>
    BY SubSeqEmpty DEF Window
  <2> HIDE DEF c
  <2>6. Window(c, 0, StreamLen(s)) = Content(s)
    BY <1>3, <2>3, <2>4, <2>5, ConcatEmptySeq
  <2> QED BY <1>1, <2>1, <2>2, <2>6
<1> QED BY <1>4, <1>5

\* What is left of a window after its first n bytes have been read.
LEMMA DropFromWindow ==
    ASSUME NEW b \in Buffers, NEW r \in 0 .. Size, NEW w \in r .. Size,
           NEW n \in 0 .. w - r
    PROVE  Window(b, r + n, w) = SubSeq(Window(b, r, w), n + 1, w - r)
<1> DEFINE old == Window(b, r, w)
           s == Window(b, r + n, w)
           t == SubSeq(old, n + 1, w - r)
<1>1. /\ old \in Seq(Bytes) /\ Len(old) = w - r
      /\ \A i \in 1 .. w - r : old[i] = b[r + i]
  BY WindowBytes
<1>2. n \in Nat /\ r + n \in 0 .. Size /\ w \in r + n .. Size
  BY SizeAssumption
<1>3. /\ s \in Seq(Bytes) /\ Len(s) = w - (r + n)
      /\ \A i \in 1 .. w - (r + n) : s[i] = b[(r + n) + i]
  BY <1>2, WindowBytes
<1> HIDE DEF old, s
<1>4. \A i \in n + 1 .. w - r : old[i] \in Bytes
  BY <1>1, <1>2, ElementOfSeq, SizeAssumption
<1>5. /\ t \in Seq(Bytes) /\ Len(t) = (IF n + 1 <= w - r THEN w - r - (n + 1) + 1 ELSE 0)
      /\ \A i \in 1 .. w - r - (n + 1) + 1 : t[i] = old[n + 1 + i - 1]
  <2>1. n + 1 \in Int /\ w - r \in Int
    BY <1>2, SizeAssumption
  <2> QED BY <1>4, <2>1, SubSeqProperties
<1> HIDE DEF t
<1>6. Len(s) = Len(t)
  BY <1>2, <1>3, <1>5, SizeAssumption
<1>7. ASSUME NEW i \in 1 .. Len(s)
      PROVE  s[i] = t[i]
  <2>1. i \in 1 .. w - (r + n) /\ i \in 1 .. w - r - (n + 1) + 1 /\ n + i \in 1 .. w - r
    BY <1>2, <1>3, SizeAssumption
  <2>2. n + 1 + i - 1 = n + i /\ (r + n) + i = r + (n + i)
    BY <1>2, <2>1, SizeAssumption
  <2> QED BY <1>1, <1>3, <1>5, <2>1, <2>2
<1>8. s = t
  BY <1>3, <1>5, <1>6, <1>7, SeqEqual
<1> QED BY <1>8 DEF s, t, old

\* What a stream holds.
LEMMA ContentBytes ==
    ASSUME TypeOK, NEW s \in Streams
    PROVE  /\ Buffer[s] \in Buffers /\ RPos[s] \in 0 .. Size /\ WPos[s] \in RPos[s] .. Size
           /\ Content(s) = Window(Buffer[s], RPos[s], WPos[s])
           /\ Content(s) \in Seq(Bytes) /\ Len(Content(s)) = StreamLen(s)
           /\ StreamLen(s) \in 0 .. Size /\ StreamLen(s) = WPos[s] - RPos[s]
           /\ StreamEmptyLen(s) = Size - StreamLen(s)
<1>1. Buffer[s] \in Buffers
  BY DEF TypeOK, Buffers
<1>2. RPos[s] \in 0 .. Size /\ WPos[s] \in 0 .. Size /\ RPos[s] <= WPos[s]
  BY DEF TypeOK
<1>3. WPos[s] \in RPos[s] .. Size
  BY <1>2, SizeAssumption
<1>4. Content(s) = Window(Buffer[s], RPos[s], WPos[s])
  BY DEF Content, Window
<1>5. /\ Window(Buffer[s], RPos[s], WPos[s]) \in Seq(Bytes)
      /\ Len(Window(Buffer[s], RPos[s], WPos[s])) = WPos[s] - RPos[s]
  BY <1>1, <1>2, <1>3, WindowBytes
<1>6. StreamLen(s) = WPos[s] - RPos[s] /\ StreamEmptyLen(s) = Size - StreamLen(s)
  BY DEF StreamLen, StreamEmptyLen
<1> QED BY <1>1, <1>2, <1>3, <1>4, <1>5, <1>6, SizeAssumption

\* The bytes of a write.
LEMMA NewBytes ==
    ASSUME TypeOK, NEW n \in 1 .. Size + 1, next + n - 1 <= MaxByte
    PROVE  /\ New(n) \in Seq(Bytes) /\ Len(New(n)) = n
           /\ next + n \in 1 .. MaxByte + 1
<1>1. next \in 1 .. MaxByte + 1 /\ n \in Nat /\ MaxByte \in Nat
  <2>1. next \in 1 .. MaxByte + 1
    BY DEF TypeOK
  <2> QED BY <2>1, SizeAssumption, MaxByteAssumption
<1>2. \A k \in 1 .. n : next + k - 1 \in Bytes
  BY <1>1 DEF Bytes
<1>3. New(n) \in [1 .. n -> Bytes]
  BY <1>2 DEF New
<1>4. New(n) \in Seq(Bytes) /\ Len(New(n)) = n
  BY <1>1, <1>3
<1> QED BY <1>1, <1>4

-----------------------------------------------------------------------------
(* One stream changes: what the others hold stays *)

\* A call that puts data behind the window of one stream, moved or not.
LEMMA AppendStep ==
    ASSUME TypeOK, NEW s \in Streams, NEW buf \in Buffers, NEW r \in 0 .. Size,
           NEW w \in r .. Size, Window(buf, r, w) = Content(s),
           NEW data \in Seq(Bytes), NEW e \in w .. Size, e - w <= Len(data),
           Buffer' = [Buffer EXCEPT ![s] = Put(buf, w, data)],
           RPos' = [RPos EXCEPT ![s] = r], WPos' = [WPos EXCEPT ![s] = e]
    PROVE  /\ Buffer' \in [Streams -> [1 .. Size -> Bytes]]
           /\ RPos' \in [Streams -> 0 .. Size] /\ WPos' \in [Streams -> 0 .. Size]
           /\ \A x \in Streams : RPos'[x] <= WPos'[x]
           /\ \A x \in Streams : Content(x)' =
                 IF x = s THEN Content(s) \o SubSeq(data, 1, e - w) ELSE Content(x)
<1>1. /\ Buffer \in [Streams -> Buffers] /\ RPos \in [Streams -> 0 .. Size]
      /\ WPos \in [Streams -> 0 .. Size] /\ \A x \in Streams : RPos[x] <= WPos[x]
  BY DEF TypeOK, Buffers
<1>2. w \in 0 .. Size /\ Put(buf, w, data) \in Buffers /\ r <= e
  <2>1. w \in 0 .. Size /\ r <= w
    BY SizeAssumption
  <2>2. Put(buf, w, data) \in Buffers
    BY <2>1, PutBuffer
  <2> QED BY <2>1, <2>2, SizeAssumption
<1>3. /\ Buffer' \in [Streams -> Buffers] /\ RPos' \in [Streams -> 0 .. Size]
      /\ WPos' \in [Streams -> 0 .. Size]
  BY <1>1, <1>2
<1>4. \A x \in Streams : RPos'[x] <= WPos'[x]
  BY <1>1, <1>2
<1>5. ASSUME NEW x \in Streams
      PROVE  Content(x)' = IF x = s THEN Content(s) \o SubSeq(data, 1, e - w) ELSE Content(x)
  <2>1. Content(x)' = Window(Buffer'[x], RPos'[x], WPos'[x])
    BY DEF Content, Window
  <2>2. CASE x = s
    <3>1. Buffer'[x] = Put(buf, w, data) /\ RPos'[x] = r /\ WPos'[x] = e
      BY <1>1, <2>2
    <3>2. Window(Put(buf, w, data), r, e) = Window(buf, r, w) \o SubSeq(data, 1, e - w)
      BY AppendToWindow
    <3> QED BY <2>1, <2>2, <3>1, <3>2
  <2>3. CASE x # s
    BY <1>1, <2>1, <2>3 DEF Content, Window
  <2> QED BY <2>2, <2>3
<1> QED BY <1>3, <1>4, <1>5 DEF Buffers

\* A refused call changes nothing.
LEMMA RefuseStep ==
    ASSUME TypeOK, NEW code \in {"eof", "short source", "short destination"}, Refuse(code)
    PROVE  TypeOK' /\ Queues!Refuse(code)
<1>1. TypeOK'
  <2>1. UNCHANGED <<Buffer, RPos, WPos, next>> /\ got' = <<>> /\ ret' = code
    BY DEF Refuse
  <2>2. got' \in Seq(Bytes)
    BY <2>1, EmptySeq
  <2> QED BY <2>1, <2>2 DEF TypeOK
<1>2. \A x \in Streams : Content(x)' = Content(x)
  BY DEF Refuse, Content
<1> QED BY <1>1, <1>2 DEF Refuse, Queues!Refuse

\* MemStreamMove changes what no stream holds; where it leaves room, it is all there is.
LEMMA WriteStep ==
    ASSUME TypeOK, NEW s \in Streams, NEW n \in 1 .. Size + 1, next + n - 1 <= MaxByte,
           MemStreamWrite(s, n)
    PROVE  TypeOK' /\ Queues!Write(s, n)
<1> DEFINE m == IF n > Size - WPos[s] THEN Moved(s)
                ELSE [buf |-> Buffer[s], r |-> RPos[s], w |-> WPos[s]]
<1>1. /\ Buffer[s] \in Buffers /\ RPos[s] \in 0 .. Size /\ WPos[s] \in RPos[s] .. Size
      /\ Content(s) = Window(Buffer[s], RPos[s], WPos[s])
      /\ Len(Content(s)) = StreamLen(s) /\ StreamLen(s) \in 0 .. Size
      /\ StreamLen(s) = WPos[s] - RPos[s]
  BY ContentBytes
<1>2. /\ Moved(s).buf \in Buffers /\ Moved(s).r = 0 /\ Moved(s).w = StreamLen(s)
      /\ Window(Moved(s).buf, 0, StreamLen(s)) = Content(s)
  BY MoveKeeps
<1>3. Queues!Room(s) = Size - StreamLen(s)
  BY <1>1 DEF Queues!Room
<1>4. CASE n > RPos[s] + (Size - WPos[s])
  <2>1. Refuse("eof")
    BY <1>4 DEF MemStreamWrite
  <2>2. n > Queues!Room(s)
    BY <1>1, <1>3, <1>4, SizeAssumption
  <2>3. TypeOK' /\ Queues!Refuse("eof")
    BY <2>1, RefuseStep
  <2> QED BY <2>2, <2>3 DEF Queues!Write
<1>5. CASE ~(n > RPos[s] + (Size - WPos[s]))
  <2>1. /\ Buffer' = [Buffer EXCEPT ![s] = Put(m.buf, m.w, New(n))]
        /\ RPos' = [RPos EXCEPT ![s] = m.r] /\ WPos' = [WPos EXCEPT ![s] = m.w + n]
        /\ next' = next + n /\ got' = <<>> /\ ret' = "ok"
    BY <1>5 DEF MemStreamWrite
  <2>2. /\ m.buf \in Buffers /\ m.r \in 0 .. Size /\ m.w \in m.r .. Size
        /\ Window(m.buf, m.r, m.w) = Content(s)
    BY <1>1, <1>2, SizeAssumption
  <2>3. m.w + n \in 0 .. Size
    <3>1. CASE n > Size - WPos[s]
      BY <1>1, <1>2, <1>5, <3>1, SizeAssumption
    <3>2. CASE ~(n > Size - WPos[s])
      BY <1>1, <3>2, SizeAssumption
    <3> QED BY <3>1, <3>2
  <2>4. /\ New(n) \in Seq(Bytes) /\ Len(New(n)) = n /\ n \in 0 .. Len(New(n))
        /\ SubSeq(New(n), 1, n) = New(n) /\ next + n \in 1 .. MaxByte + 1
    BY NewBytes, SubSeqFull, SizeAssumption
  <2> HIDE DEF m
  <2> DEFINE b == m.buf
             r == m.r
             w == m.w
             e == m.w + n
             data == New(n)
  <2>5. /\ Buffer' \in [Streams -> [1 .. Size -> Bytes]]
        /\ RPos' \in [Streams -> 0 .. Size] /\ WPos' \in [Streams -> 0 .. Size]
        /\ \A x \in Streams : RPos'[x] <= WPos'[x]
        /\ \A x \in Streams : Content(x)' =
              IF x = s THEN Content(s) \o SubSeq(data, 1, e - w) ELSE Content(x)
    <3>1. /\ b \in Buffers /\ r \in 0 .. Size /\ w \in r .. Size
          /\ Window(b, r, w) = Content(s)
          /\ data \in Seq(Bytes) /\ e \in w .. Size /\ e - w <= Len(data)
          /\ Buffer' = [Buffer EXCEPT ![s] = Put(b, w, data)]
          /\ RPos' = [RPos EXCEPT ![s] = r] /\ WPos' = [WPos EXCEPT ![s] = e]
      <4>1. w \in Nat /\ n \in Nat
        BY <2>2, SizeAssumption
      <4>2. e \in w .. Size /\ e - w = n
        BY <2>3, <4>1, SizeAssumption
      <4> HIDE DEF e
      <4> QED BY <2>1, <2>2, <2>4, <4>2 DEF e
    <3> HIDE DEF b, r, w, e, data
    <3> QED BY <3>1, AppendStep
  <2>6. TypeOK'
    <3>1. next' \in 1 .. MaxByte + 1 /\ got' \in Seq(Bytes) /\ ret' = "ok"
      BY <2>1, <2>4
    <3> QED BY <2>5, <3>1 DEF TypeOK
  <2>7. [x \in Streams |-> Content(x)]' =
           [[x \in Streams |-> Content(x)] EXCEPT ![s] = @ \o [k \in 1 .. n |-> next + k - 1]]
    <3>1. e - w = n
      BY <2>2, SizeAssumption
    <3> QED BY <2>4, <2>5, <3>1 DEF New
  <2>8. ~(n > Queues!Room(s))
    BY <1>1, <1>3, <1>5, SizeAssumption
  <2> QED BY <2>1, <2>6, <2>7, <2>8 DEF Queues!Write
<1> QED BY <1>4, <1>5

\* A text that is refused may move the stream, and may leave bytes behind its window.
LEMMA WriteFormatStep ==
    ASSUME Formats = "short", TypeOK, NEW s \in Streams, NEW n \in 1 .. Size + 1,
           next + n - 1 <= MaxByte, MemStreamWriteFormat(s, n)
    PROVE  TypeOK' /\ Queues!Write(s, n)
<1> DEFINE m == Moved(s)
           len == StreamLen(s)
           free == Size - m.w
           fits == IF n < free - 1 THEN n ELSE free - 2
           text == IF free < 2 THEN <<>> ELSE SubSeq(New(n), 1, fits) \o <<0>>
<1>1. /\ Len(Content(s)) = len /\ len \in 0 .. Size /\ Content(s) \in Seq(Bytes)
      /\ m.buf \in Buffers /\ m.w = len /\ Window(m.buf, 0, len) = Content(s)
      /\ free = Size - len /\ free \in Nat
  BY ContentBytes, MoveKeeps, SizeAssumption
<1>2. Queues!Room(s) = free
  BY <1>1 DEF Queues!Room
<1>3. n <= free - 2 \/ n > free
  BY DEF MemStreamWriteFormat
<1>4. RPos' = [RPos EXCEPT ![s] = 0] /\ got' = <<>>
  BY DEF MemStreamWriteFormat
<1>5. /\ New(n) \in Seq(Bytes) /\ Len(New(n)) = n /\ next + n \in 1 .. MaxByte + 1
      /\ SubSeq(New(n), 1, n) = New(n)
  BY NewBytes, SubSeqFull
<1>6. <<0>> \in Seq(Bytes) /\ Len(<<0>>) = 1 /\ <<>> \in Seq(Bytes) /\ Len(<<>>) = 0
  BY MaxByteAssumption DEF Bytes
<1>7. CASE n > free
  <2>1. /\ Buffer' = [Buffer EXCEPT ![s] = IF free = 0 THEN m.buf ELSE Put(m.buf, len, text)]
        /\ WPos' = [WPos EXCEPT ![s] = len]
        /\ ret' = "eof" /\ next' = next
    <3>1. free = 0 \/ free < n
      BY <1>1, <1>7
    <3> QED BY <1>1, <3>1 DEF MemStreamWriteFormat
  <2>2. text \in Seq(Bytes)
    <3>1. CASE free < 2
      BY <1>6, <3>1
    <3>2. CASE ~(free < 2)
      <4>1. fits \in Int /\ \A i \in 1 .. fits : New(n)[i] \in Bytes
        BY <1>1, <1>5, <1>7, <3>2, ElementOfSeq
      <4>2. SubSeq(New(n), 1, fits) \in Seq(Bytes)
        <5> HIDE DEF fits
        <5> QED BY <4>1, SubSeqProperties
      <4> QED BY <1>6, <3>2, <4>2, ConcatProperties
    <3> QED BY <3>1, <3>2
  <2> DEFINE data == IF free = 0 THEN <<>> ELSE text
  <2>3. /\ data \in Seq(Bytes)
        /\ Buffer' = [Buffer EXCEPT ![s] = Put(m.buf, len, data)]
    <3>1. CASE free = 0
      <4>1. Put(m.buf, len, <<>>) = m.buf
        BY <1>1, SizeAssumption DEF Put, Buffers
      <4> QED BY <1>6, <2>1, <3>1, <4>1
    <3>2. CASE free # 0
      <4> HIDE DEF text
      <4> QED BY <2>1, <2>2, <3>2
    <3> QED BY <3>1, <3>2
  <2> HIDE DEF data, m, len
  <2>4. /\ Buffer' \in [Streams -> [1 .. Size -> Bytes]]
        /\ RPos' \in [Streams -> 0 .. Size] /\ WPos' \in [Streams -> 0 .. Size]
        /\ \A x \in Streams : RPos'[x] <= WPos'[x]
        /\ \A x \in Streams : Content(x)' =
              IF x = s THEN Content(s) \o SubSeq(data, 1, len - len) ELSE Content(x)
    <3>1. /\ m.buf \in Buffers /\ 0 \in 0 .. Size /\ len \in 0 .. Size /\ len \in len .. Size
          /\ len - len <= Len(data)
      BY <1>1, <2>3, LenProperties, SizeAssumption
    <3> QED BY <1>1, <1>4, <2>1, <2>3, <3>1, AppendStep
  <2>5. \A x \in Streams : Content(x)' = Content(x)
    <3>1. SubSeq(data, 1, len - len) = <<>>
      BY <1>1, SubSeqEmpty, SizeAssumption
    <3> QED BY <1>1, <2>4, <3>1, ConcatEmptySeq
  <2>6. TypeOK'
    <3>1. next' \in 1 .. MaxByte + 1 /\ got' \in Seq(Bytes) /\ ret' = "eof"
      BY <1>4, <1>6, <2>1 DEF TypeOK
    <3> QED BY <2>4, <3>1 DEF TypeOK
  <2>7. Queues!Refuse("eof")
    BY <1>4, <2>1, <2>5 DEF Queues!Refuse
  <2> QED BY <1>2, <1>7, <2>6, <2>7 DEF Queues!Write
<1>8. CASE n <= free - 2
  <2>1. text = New(n) \o <<0>>
    BY <1>1, <1>5, <1>8
  <2>2. /\ Buffer' = [Buffer EXCEPT ![s] = Put(m.buf, len, text)]
        /\ WPos' = [WPos EXCEPT ![s] = len + n]
        /\ next' = next + n /\ ret' = "ok"
    <3>1. ~(free = 0 \/ free < n)
      BY <1>1, <1>8
    <3> QED BY <1>1, <3>1 DEF MemStreamWriteFormat
  <2> HIDE DEF text, m, len, fits
  <2>3. /\ text \in Seq(Bytes) /\ Len(text) = n + 1 /\ SubSeq(text, 1, n) = New(n)
    <3>1. /\ text \in Seq(Bytes) /\ Len(text) = n + 1
          /\ \A i \in 1 .. n + 1 : text[i] = IF i <= n THEN New(n)[i] ELSE <<0>>[i - n]
      BY <1>5, <1>6, <2>1, ConcatProperties
    <3>2. /\ SubSeq(text, 1, n) \in Seq(Bytes) /\ Len(SubSeq(text, 1, n)) = n
          /\ \A i \in 1 .. n : SubSeq(text, 1, n)[i] = text[i]
      <4>1. \A i \in 1 .. n : text[i] \in Bytes
        BY <3>1, ElementOfSeq
      <4>2. /\ SubSeq(text, 1, n) \in Seq(Bytes)
            /\ Len(SubSeq(text, 1, n)) = (IF 1 <= n THEN n - 1 + 1 ELSE 0)
            /\ \A i \in 1 .. n - 1 + 1 : SubSeq(text, 1, n)[i] = text[1 + i - 1]
        BY <4>1, SubSeqProperties, SizeAssumption
      <4> QED BY <4>2, SizeAssumption
    <3>3. \A i \in 1 .. n : SubSeq(text, 1, n)[i] = New(n)[i]
      BY <3>1, <3>2
    <3>4. SubSeq(text, 1, n) = New(n)
      BY <1>5, <3>2, <3>3, SeqEqual
    <3> QED BY <3>1, <3>4
  <2> DEFINE e == len + n
  <2>4. e \in len .. Size /\ e - len = n /\ e - len <= Len(text)
    BY <1>1, <1>8, <2>3, SizeAssumption
  <2>5. /\ Buffer' \in [Streams -> [1 .. Size -> Bytes]]
        /\ RPos' \in [Streams -> 0 .. Size] /\ WPos' \in [Streams -> 0 .. Size]
        /\ \A x \in Streams : RPos'[x] <= WPos'[x]
        /\ \A x \in Streams : Content(x)' =
              IF x = s THEN Content(s) \o SubSeq(text, 1, e - len) ELSE Content(x)
    <3>1. WPos' = [WPos EXCEPT ![s] = e] /\ 0 \in 0 .. Size
      BY <2>2, SizeAssumption
    <3> HIDE DEF e
    <3> QED BY <1>1, <1>4, <2>2, <2>3, <2>4, <3>1, AppendStep
  <2>6. TypeOK'
    <3>1. next' \in 1 .. MaxByte + 1 /\ got' \in Seq(Bytes) /\ ret' = "ok"
      BY <1>4, <1>5, <1>6, <2>2
    <3> QED BY <2>5, <3>1 DEF TypeOK
  <2>7. [x \in Streams |-> Content(x)]' =
           [[x \in Streams |-> Content(x)] EXCEPT ![s] = @ \o [k \in 1 .. n |-> next + k - 1]]
    BY <2>3, <2>4, <2>5 DEF New
  <2>8. ~(n > Queues!Room(s))
    BY <1>1, <1>2, <1>8
  <2> QED BY <1>4, <2>2, <2>6, <2>7, <2>8 DEF Queues!Write
<1> QED BY <1>3, <1>7, <1>8

\* The first bytes of what a stream holds are a sequence of them.
LEMMA FrontBytes ==
    ASSUME TypeOK, NEW s \in Streams, NEW n \in 0 .. StreamLen(s)
    PROVE  /\ SubSeq(Content(s), 1, n) \in Seq(Bytes)
           /\ Len(SubSeq(Content(s), 1, n)) = n
<1> DEFINE c == Content(s)
<1>1. c \in Seq(Bytes) /\ Len(c) = StreamLen(s) /\ StreamLen(s) \in Nat
  BY ContentBytes
<1> HIDE DEF c
<1>2. n \in Nat /\ \A i \in 1 .. n : c[i] \in Bytes
  BY <1>1, ElementOfSeq
<1>3. SubSeq(c, 1, n) \in Seq(Bytes) /\ Len(SubSeq(c, 1, n)) = IF 1 <= n THEN n - 1 + 1 ELSE 0
  BY <1>2, SubSeqProperties
<1> QED BY <1>2, <1>3 DEF c

\* A read takes the first bytes of what a stream holds, or is refused.
LEMMA ReadStep ==
    ASSUME TypeOK, NEW s \in Streams, NEW n \in 1 .. Size + 1, MemStreamRead(s, n)
    PROVE  TypeOK' /\ Queues!Read(s, n)
<1>1. /\ Buffer[s] \in Buffers /\ RPos[s] \in 0 .. Size /\ WPos[s] \in RPos[s] .. Size
      /\ Content(s) = Window(Buffer[s], RPos[s], WPos[s])
      /\ Len(Content(s)) = StreamLen(s) /\ StreamLen(s) \in 0 .. Size
      /\ StreamLen(s) = WPos[s] - RPos[s]
  BY ContentBytes
<1>2. CASE n > StreamLen(s)
  <2>1. TypeOK' /\ Queues!Refuse("eof")
    BY <1>2, RefuseStep DEF MemStreamRead
  <2> QED BY <1>1, <1>2, <2>1 DEF Queues!Read
<1>3. CASE ~(n > StreamLen(s))
  <2>1. /\ got' = SubSeq(Content(s), 1, n) /\ RPos' = [RPos EXCEPT ![s] = RPos[s] + n]
        /\ ret' = "ok" /\ UNCHANGED <<Buffer, WPos, next>>
    BY <1>3 DEF MemStreamRead
  <2>2. n \in 0 .. StreamLen(s) /\ n \in 0 .. WPos[s] - RPos[s]
    BY <1>1, <1>3, SizeAssumption
  <2>3. RPos[s] + n \in 0 .. Size /\ RPos[s] + n <= WPos[s]
    BY <1>1, <2>2, SizeAssumption
  <2>4. TypeOK'
    <3>1. /\ RPos' \in [Streams -> 0 .. Size] /\ \A x \in Streams : RPos'[x] <= WPos'[x]
      BY <2>1, <2>3 DEF TypeOK
    <3>2. got' \in Seq(Bytes)
      BY <2>1, <2>2, FrontBytes
    <3> QED BY <2>1, <3>1, <3>2 DEF TypeOK
  <2>5. ASSUME NEW x \in Streams
        PROVE  Content(x)' = IF x = s THEN SubSeq(Content(s), n + 1, Len(Content(s))) ELSE Content(x)
    <3>1. Content(x)' = Window(Buffer[x], RPos'[x], WPos[x])
      BY <2>1 DEF Content, Window
    <3>2. CASE x = s
      <4>1. RPos'[x] = RPos[s] + n
        BY <2>1, <3>2 DEF TypeOK
      <4>2. Window(Buffer[s], RPos[s] + n, WPos[s]) =
               SubSeq(Window(Buffer[s], RPos[s], WPos[s]), n + 1, WPos[s] - RPos[s])
        BY <1>1, <2>2, DropFromWindow
      <4> QED BY <1>1, <3>1, <3>2, <4>1, <4>2
    <3>3. CASE x # s
      BY <2>1, <3>1, <3>3 DEF TypeOK, Content, Window
    <3> QED BY <3>2, <3>3
  <2>6. [x \in Streams |-> Content(x)]' =
           [[x \in Streams |-> Content(x)] EXCEPT ![s] = SubSeq(@, n + 1, Len(@))]
    BY <2>5
  <2>7. ~(n > Len(Content(s)))
    BY <1>1, <1>3
  <2> QED BY <2>1, <2>4, <2>6, <2>7 DEF Queues!Read
<1> QED BY <1>2, <1>3

\* StreamCpy between two streams.
LEMMA CopyStep ==
    ASSUME TypeOK, NEW s \in Streams, NEW d \in Streams, <<s, d>> \in Copies,
           NEW n \in 1 .. Size + 1, StreamCpy(s, d, n)
    PROVE  TypeOK' /\ Queues!Copy(s, d, n)
<1>1. /\ Buffer[s] \in Buffers /\ RPos[s] \in 0 .. Size /\ WPos[s] \in RPos[s] .. Size
      /\ Content(s) = Window(Buffer[s], RPos[s], WPos[s])
      /\ Len(Content(s)) = StreamLen(s) /\ StreamLen(s) \in 0 .. Size
      /\ StreamLen(s) = WPos[s] - RPos[s]
  BY ContentBytes
<1>2. /\ Len(Content(d)) = StreamLen(d) /\ StreamLen(d) \in 0 .. Size
      /\ StreamEmptyLen(d) = Size - StreamLen(d)
  BY ContentBytes
<1>3. /\ Moved(d).buf \in Buffers /\ Moved(d).r = 0 /\ Moved(d).w = StreamLen(d)
      /\ Window(Moved(d).buf, 0, StreamLen(d)) = Content(d)
  BY MoveKeeps
<1>4. s # d
  BY CopiesAssumption
<1>5. Queues!Room(d) = Size - StreamLen(d)
  BY <1>2 DEF Queues!Room
<1>6. CASE StreamLen(s) < n
  <2>1. TypeOK' /\ Queues!Refuse("short source")
    BY <1>6, RefuseStep DEF StreamCpy
  <2>2. n > Len(Content(s))
    BY <1>1, <1>6
  <2> QED BY <2>1, <2>2 DEF Queues!Copy
<1>7. CASE ~(StreamLen(s) < n) /\ StreamEmptyLen(d) < n
  <2>1. TypeOK' /\ Queues!Refuse("short destination")
    BY <1>7, RefuseStep DEF StreamCpy
  <2>2. ~(n > Len(Content(s))) /\ n > Queues!Room(d)
    BY <1>1, <1>2, <1>5, <1>7
  <2> QED BY <2>1, <2>2 DEF Queues!Copy
<1>8. CASE ~(StreamLen(s) < n) /\ ~(StreamEmptyLen(d) < n)
  <2> DEFINE buf == Moved(d).buf
             w == StreamLen(d)
             e == StreamLen(d) + n
             data == SubSeq(Content(s), 1, n)
  <2>1. /\ Buffer' = [Buffer EXCEPT ![d] = Put(buf, w, data)]
        /\ RPos' = [RPos EXCEPT ![d] = 0, ![s] = RPos[s] + n]
        /\ WPos' = [WPos EXCEPT ![d] = e]
        /\ got' = <<>> /\ ret' = "ok" /\ UNCHANGED next
    BY <1>3, <1>4, <1>8 DEF StreamCpy, TypeOK
  <2>2. n \in 0 .. StreamLen(s) /\ n \in 0 .. WPos[s] - RPos[s] /\ n \in Nat
    BY <1>1, <1>8, SizeAssumption
  <2>3. data \in Seq(Bytes) /\ Len(data) = n
    BY <2>2, FrontBytes
  <2>4. w \in 0 .. Size /\ e \in w .. Size /\ e \in 0 .. Size /\ e - w = n /\ e - w <= Len(data)
    BY <1>2, <1>8, <2>2, <2>3, SizeAssumption
  <2>5. RPos[s] + n \in 0 .. Size /\ RPos[s] + n <= WPos[s]
    BY <1>1, <2>2, SizeAssumption
  <2>6. Put(buf, w, data) \in Buffers
    BY <1>3, <2>3, <2>4, PutBuffer
  <2> HIDE DEF buf, w, e, data
  <2>7. TypeOK'
    <3>1. 0 <= e /\ 0 \in 0 .. Size
      BY <2>4, SizeAssumption
    <3>2. /\ Buffer' \in [Streams -> [1 .. Size -> Bytes]]
          /\ RPos' \in [Streams -> 0 .. Size] /\ WPos' \in [Streams -> 0 .. Size]
      BY <2>1, <2>4, <2>5, <2>6, <3>1 DEF TypeOK, Buffers
    <3>3. \A x \in Streams : RPos'[x] <= WPos'[x]
      BY <1>4, <2>1, <2>5, <3>1 DEF TypeOK
    <3>4. got' \in Seq(Bytes)
      BY <2>1, EmptySeq
    <3> QED BY <2>1, <3>2, <3>3, <3>4 DEF TypeOK
  <2>8. ASSUME NEW x \in Streams
        PROVE  Content(x)' = IF x = d THEN Content(d) \o data
                             ELSE IF x = s THEN SubSeq(Content(s), n + 1, Len(Content(s)))
                             ELSE Content(x)
    <3>1. Content(x)' = Window(Buffer'[x], RPos'[x], WPos'[x])
      BY DEF Content, Window
    <3>2. CASE x = d
      <4>1. Buffer'[x] = Put(buf, w, data) /\ RPos'[x] = 0 /\ WPos'[x] = e
        BY <1>4, <2>1, <3>2 DEF TypeOK
      <4>2. Window(Put(buf, w, data), 0, e) = Window(buf, 0, w) \o SubSeq(data, 1, e - w)
        <5>1. buf \in Buffers /\ 0 \in 0 .. Size
          BY <1>3, SizeAssumption DEF buf
        <5> QED BY <2>3, <2>4, <5>1, AppendToWindow
      <4>3. Window(buf, 0, w) = Content(d)
        BY <1>3 DEF buf, w
      <4>4. SubSeq(data, 1, e - w) = data
        BY <2>3, <2>4, SubSeqFull
      <4>5. Window(Put(buf, w, data), 0, e) = Content(d) \o data
        BY <4>2, <4>3, <4>4
      <4> QED BY <3>1, <3>2, <4>1, <4>5
    <3>3. CASE x = s
      <4>1. Buffer'[x] = Buffer[s] /\ RPos'[x] = RPos[s] + n /\ WPos'[x] = WPos[s]
        BY <1>4, <2>1, <3>3 DEF TypeOK
      <4>2. Window(Buffer[s], RPos[s] + n, WPos[s]) =
               SubSeq(Window(Buffer[s], RPos[s], WPos[s]), n + 1, WPos[s] - RPos[s])
        BY <1>1, <2>2, DropFromWindow
      <4> QED BY <1>1, <1>4, <3>1, <3>3, <4>1, <4>2
    <3>4. CASE x # s /\ x # d
      BY <2>1, <3>1, <3>4 DEF TypeOK, Content, Window
    <3> QED BY <3>2, <3>3, <3>4
  <2>9. [x \in Streams |-> Content(x)]' =
           [[x \in Streams |-> Content(x)] EXCEPT ![s] = SubSeq(@, n + 1, Len(@)),
                                                  ![d] = @ \o SubSeq(Content(s), 1, n)]
    BY <1>4, <2>8 DEF data
  <2>10. ~(n > Len(Content(s))) /\ ~(n > Queues!Room(d))
    BY <1>1, <1>2, <1>5, <1>8
  <2> QED BY <2>1, <2>7, <2>9, <2>10 DEF Queues!Copy
<1> QED BY <1>6, <1>7, <1>8

-----------------------------------------------------------------------------
(* The theorems *)

\* The streams begin empty, and each of their steps is one of the queues.
LEMMA InitMaps == Init => TypeOK /\ Queues!Init
<1> SUFFICES ASSUME Init
             PROVE  TypeOK /\ Queues!Init
  OBVIOUS
<1>1. 0 \in Bytes /\ 0 \in 0 .. Size /\ next = 1 /\ 1 \in 1 .. MaxByte + 1
  BY SizeAssumption, MaxByteAssumption DEF Bytes, Init
<1>2. TypeOK
  BY <1>1, EmptySeq DEF Init, TypeOK
<1>3. \A s \in Streams : Content(s) = <<>>
  <2>1. \A s \in Streams : RPos[s] = 0 /\ WPos[s] = 0
    BY DEF Init
  <2> QED BY <2>1, SubSeqEmpty DEF Content
<1> QED BY <1>2, <1>3 DEF Init, Queues!Init

\* Every step of the streams is a step of the queues, or changes no queue.
LEMMA NextMaps ==
    ASSUME Formats = "short", TypeOK, [Next]_vars
    PROVE  TypeOK' /\ [Queues!Next]_<<[s \in Streams |-> Content(s)], next, got, ret>>
<1>1. CASE Next
  <2>1. ASSUME NEW s \in Streams, NEW n \in 1 .. Size + 1,
               next + n - 1 <= MaxByte, MemStreamWrite(s, n)
        PROVE  TypeOK' /\ Queues!Next
    BY <2>1, WriteStep DEF Queues!Next
  <2>2. ASSUME NEW s \in Streams, NEW n \in 1 .. Size + 1,
               next + n - 1 <= MaxByte, MemStreamWriteFormat(s, n)
        PROVE  TypeOK' /\ Queues!Next
    BY <2>2, WriteFormatStep DEF Queues!Next
  <2>3. ASSUME NEW s \in Streams, NEW n \in 1 .. Size + 1, MemStreamRead(s, n)
        PROVE  TypeOK' /\ Queues!Next
    BY <2>3, ReadStep DEF Queues!Next
  <2>4. ASSUME NEW s \in Streams, NEW n \in 1 .. Size + 1, NEW d \in Streams,
               <<s, d>> \in Copies, StreamCpy(s, d, n)
        PROVE  TypeOK' /\ Queues!Next
    BY <2>4, CopyStep DEF Queues!Next
  <2> QED BY <1>1, <2>1, <2>2, <2>3, <2>4 DEF Next
<1>2. CASE UNCHANGED vars
  BY <1>2 DEF vars, TypeOK, Content
<1> QED BY <1>1, <1>2

\* The positions of every stream stay in order and in its buffer, whatever is
\* written, read and copied.
THEOREM TypeCorrect == ASSUME Formats = "short" PROVE Spec => []TypeOK
<1>1. Init => TypeOK
  BY InitMaps
<1>2. TypeOK /\ [Next]_vars => TypeOK'
  BY NextMaps
<1> QED BY <1>1, <1>2, PTL DEF Spec

\* The streams of MemStream.c implement queues of bytes, if no text is formatted
\* that is one or two bytes longer than MemStreamWriteFormatImpl can store.
THEOREM Refinement == ASSUME Formats = "short" PROVE Spec => StreamsAreQueues
<1>1. Init => TypeOK /\ Queues!Init
  BY InitMaps
<1>2. TypeOK /\ [Next]_vars =>
        TypeOK' /\ [Queues!Next]_<<[s \in Streams |-> Content(s)], next, got, ret>>
  BY NextMaps
<1> QED BY <1>1, <1>2, PTL DEF Spec, StreamsAreQueues, Queues!Spec
=============================================================================
