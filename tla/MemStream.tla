----------------------------- MODULE MemStream ------------------------------
(***************************************************************************)
(* The memory stream of MemStream.c, opened "rw": a buffer of Size bytes,  *)
(* of which those from RPos up to WPos have been written and not read.     *)
(* Bytes are moved to the front of the buffer only when a write needs the  *)
(* room that reading has made.                                             *)
(***************************************************************************)
EXTENDS Integers, Sequences, SequencesExt

CONSTANTS
    Streams,  \* the streams
    Copies,   \* the pairs of streams that StreamCpy is called with
    Size,     \* Size of each
    Formats,  \* "short": a formatted text is shorter by two than the room for
              \* it; "any"
    MaxByte   \* bound on the bytes written: they are numbered 1, 2, ...

ASSUME SizeAssumption == Size \in Nat \ {0}
ASSUME MaxByteAssumption == MaxByte \in Nat
ASSUME CopiesAssumption == \A c \in Copies : c \in Streams \X Streams /\ c[1] # c[2]

VARIABLES
    Buffer, RPos, WPos,  \* of each stream; a byte never written is 0
    next,                \* the number of the next byte to be written
    got,                 \* the bytes of the last read
    ret                  \* the code of the last call

vars == <<Buffer, RPos, WPos, next, got, ret>>

Bytes == 0 .. MaxByte

Init ==
    /\ Buffer = [s \in Streams |-> [k \in 1 .. Size |-> 0]]
    /\ RPos = [s \in Streams |-> 0] /\ WPos = [s \in Streams |-> 0]
    /\ next = 1 /\ got = <<>> /\ ret = "ok"

\* memcpy of data to place p of buffer b.
Put(b, p, data) ==
    [k \in 1 .. Size |-> IF p < k /\ k <= p + Len(data) THEN data[k - p] ELSE b[k]]

StreamLen(s) == WPos[s] - RPos[s]
StreamEmptyLen(s) == Size - StreamLen(s)
Content(s) == SubSeq(Buffer[s], RPos[s] + 1, WPos[s])
New(n) == [k \in 1 .. n |-> next + k - 1]

\* A mistaken MemStreamMove: the positions move and the bytes do not.
MovedUncopied(s) == [buf |-> Buffer[s], r |-> 0, w |-> StreamLen(s)]

\* MemStreamMove: buffer, RPos and WPos after it.  The ranges of its memcpy may
\* overlap; the outcome taken is that of a memcpy that copies upwards.
Moved(s) ==
    IF RPos[s] = 0 THEN [buf |-> Buffer[s], r |-> 0, w |-> WPos[s]]
    ELSE [buf |-> Put(Buffer[s], 0, Content(s)), r |-> 0, w |-> StreamLen(s)]

Refuse(code) == ret' = code /\ got' = <<>> /\ UNCHANGED <<Buffer, RPos, WPos, next>>

\* MemStreamWriteImpl.
MemStreamWrite(s, n) ==
    LET rempty == RPos[s]
        wempty == Size - WPos[s]
        m == IF n > wempty THEN Moved(s)
             ELSE [buf |-> Buffer[s], r |-> RPos[s], w |-> WPos[s]]
    IN  IF n > rempty + wempty THEN Refuse("eof")
        ELSE /\ Buffer' = [Buffer EXCEPT ![s] = Put(m.buf, m.w, New(n))]
             /\ RPos' = [RPos EXCEPT ![s] = m.r] /\ WPos' = [WPos EXCEPT ![s] = m.w + n]
             /\ next' = next + n /\ got' = <<>> /\ ret' = "ok"

\* MemStreamWriteFormatImpl of a text of n characters.  vsnprintf is told of one
\* byte less than there is and ends with a NUL (it writes nothing into a room of
\* 0), but returns n; the stream is moved also when the text is refused.
MemStreamWriteFormat(s, n) ==
    LET m == Moved(s)
        bufFreeLen == Size - m.w
        fits == IF n < bufFreeLen - 1 THEN n ELSE bufFreeLen - 2
        text == IF bufFreeLen < 2 THEN <<>> ELSE SubSeq(New(n), 1, fits) \o <<0>>
        buf == [Buffer EXCEPT ![s] = Put(m.buf, m.w, text)]
    IN  /\ Formats = "short" => (n <= bufFreeLen - 2 \/ n > bufFreeLen)
        /\ RPos' = [RPos EXCEPT ![s] = 0]
        /\ got' = <<>>
        /\ IF bufFreeLen = 0 \/ bufFreeLen < n
           THEN /\ Buffer' = (IF bufFreeLen = 0 THEN [Buffer EXCEPT ![s] = m.buf] ELSE buf)
                /\ WPos' = [WPos EXCEPT ![s] = m.w]
                /\ ret' = "eof" /\ UNCHANGED next
           ELSE /\ Buffer' = buf
                /\ WPos' = [WPos EXCEPT ![s] = m.w + n]
                /\ next' = next + n /\ ret' = "ok"

\* MemStreamReadImpl.
MemStreamRead(s, n) ==
    IF n > StreamLen(s) THEN Refuse("eof")
    ELSE /\ got' = SubSeq(Content(s), 1, n)
         /\ RPos' = [RPos EXCEPT ![s] = @ + n]
         /\ ret' = "ok" /\ UNCHANGED <<Buffer, WPos, next>>

\* A mistaken StreamCpy: the destination is not moved first.
StreamCpyUnmoved(src, dst, n) ==
    IF StreamLen(src) < n THEN Refuse("short source")
    ELSE IF StreamEmptyLen(dst) < n THEN Refuse("short destination")
    ELSE /\ Buffer' = [Buffer EXCEPT ![dst] = Put(@, WPos[dst], SubSeq(Content(src), 1, n))]
         /\ RPos' = [RPos EXCEPT ![src] = @ + n]
         /\ WPos' = [WPos EXCEPT ![dst] = @ + n]
         /\ got' = <<>> /\ ret' = "ok" /\ UNCHANGED next

\* StreamCpy.
StreamCpy(src, dst, n) ==
    LET m == Moved(dst)
    IN  IF StreamLen(src) < n THEN Refuse("short source")
        ELSE IF StreamEmptyLen(dst) < n THEN Refuse("short destination")
        ELSE /\ Buffer' = [Buffer EXCEPT ![dst] = Put(m.buf, m.w, SubSeq(Content(src), 1, n))]
             /\ RPos' = [RPos EXCEPT ![dst] = m.r, ![src] = @ + n]
             /\ WPos' = [WPos EXCEPT ![dst] = m.w + n]
             /\ got' = <<>> /\ ret' = "ok" /\ UNCHANGED next

Next ==
    \E s \in Streams, n \in 1 .. Size + 1 :
        \/ next + n - 1 <= MaxByte /\ MemStreamWrite(s, n)
        \/ next + n - 1 <= MaxByte /\ MemStreamWriteFormat(s, n)
        \/ MemStreamRead(s, n)
        \/ \E d \in Streams : <<s, d>> \in Copies /\ StreamCpy(s, d, n)

Spec == Init /\ [][Next]_vars

-----------------------------------------------------------------------------
(* Properties *)

\* The variables keep their types: RPos is never behind WPos, WPos never behind
\* the end of the buffer.
TypeOK ==
    /\ Buffer \in [Streams -> [1 .. Size -> Bytes]]
    /\ RPos \in [Streams -> 0 .. Size] /\ WPos \in [Streams -> 0 .. Size]
    /\ \A s \in Streams : RPos[s] <= WPos[s]
    /\ next \in 1 .. MaxByte + 1
    /\ got \in Seq(Bytes)
    /\ ret \in {"ok", "eof", "short source", "short destination"}

\* Memory streams are queues of bytes (Test.c:63-74): whatever was written by
\* StreamWrite, StreamWriteFmt and StreamCpy is read once, in order, a call is
\* refused only for want of bytes or of room, and a refused one changes nothing.
Queues == INSTANCE ByteQueue WITH queue <- [s \in Streams |-> Content(s)]
StreamsAreQueues == Queues!Spec
=============================================================================
