------------------------- MODULE EdfDataWriterProofs -------------------------
(***************************************************************************)
(* EdfWriteDataBlock for every record type and every size of Block and     *)
(* Buf, for the cuts of CopiedChunk: nothing is lost, written twice or out *)
(* of order, and the code returned tells what is missing.                  *)
(***************************************************************************)
EXTENDS EdfDataWriter, SequenceProofs

-----------------------------------------------------------------------------
(* The inductive invariant *)

\* A record has Items items, and Offset[k] source bytes in the first k of them.
Items == Len(schema)
Offset == Sums(Srcs)

\* The source bytes written.
Taken == Records!TakenBy(out)

\* The place in the record that has been reached, in items; Start is where the
\* record begins, in source bytes.
Cur == IF pc \in {"idle", "fill"} THEN Skip ELSE pos - 1 + skip
Start == Taken - Offset[Cur]

InCall == pc \in {"walk", "settle"}

\* The tokens written end at that place, and whole records are before it.
PlaceOK ==
    /\ Len(out) % Items = Cur % Items /\ Cur <= Items
    /\ Start \in Nat /\ Start % RecordSize = 0

\* A walk starts at the front, steps over Skip items and counts the others; a
\* primitive it has just put has left the room it asked for and did not take.
WalkOK ==
    /\ Skip < Items
    /\ ~InCall => skip = 0 /\ pos = 1 /\ wqty = 0 /\ r = 0
    /\ InCall => /\ wqty = Cur - Skip /\ r = Offset[Cur] - Offset[Skip]
                 /\ skip > 0 => Cur = Skip
                 /\ wqty > 0 /\ schema[pos - 1].kind = "prim"
                      => schema[pos - 1].need - schema[pos - 1].out <= Room

\* A Char array is the first primitive of its record, so that it is never stepped
\* over.
CharOK ==
    \A n \in 1 .. Items : schema[n].kind = "char"
        => Skip < n /\ (Cur < n => r = 0)

\* s holds the bytes that follow the first n.
Follows(s, n) == \A k \in 1 .. Len(s) : s[k] = n + k

\* The bytes given and not written are in Buf between two calls, in Buf and xsrc
\* before a walk, and in src during it.
BytesOK ==
    /\ pc = "idle" => Follows(Buf, Taken) /\ given = Taken + Len(Buf)
    /\ pc = "fill" => /\ Follows(Buf, Taken) /\ Follows(xsrc, Taken + Len(Buf))
                      /\ given = Taken + Len(Buf) + Len(xsrc) /\ given > Taken
    /\ InCall => Follows(src, Taken) /\ given = Taken + Len(src)

\* What the walk reads is all of Buf, which took all of xsrc, or all of xsrc.
SourceOK ==
    /\ pc = "fill" /\ Buf # <<>> =>
         Len(Buf) + Len(xsrc) <= BufSize /\ (xsrc = <<>> => src = Buf)
    /\ InCall =>
         /\ r + Len(src) > 0
         /\ IF Buf # <<>>
            THEN xsrc = <<>> /\ r + Len(src) = Len(Buf)
            ELSE r + Len(src) = Len(xsrc) /\ Follows(xsrc, Taken - r)

\* Bytes that are carried end inside the next primitive, or, in the call that
\* brings the rest of it, at the end of a primitive: of that one, unless the walk
\* cannot stop before a further one.
Inside == given < Start + Offset[Skip + 1]
ToEnd ==
    /\ AtEnd(given) /\ given <= Start + RecordSize
    /\ Binary \/ Single \/ given <= Start + Offset[Skip + 1]
CutOK == Buf # <<>> => Inside \/ (pc # "idle" /\ ToEnd)

\* Where a walk stops, and why.
StopOK ==
    pc = "settle" =>
        /\ wr = "no" => pos = Items + 1
        /\ wr # "no" => pos <= Items /\ skip = 0
        /\ wr = "src" => Len(src) < schema[pos].src
        /\ wr = "dst" => /\ schema[pos].need > Room
                         /\ schema[pos].kind # "prim"
                         /\ schema[pos].kind = "char" => Len(src) >= schema[pos].src

\* What the code of a call tells.
IdleOK ==
    pc = "idle" =>
        /\ wr # "dst"
        /\ wr = "no" => Buf = <<>> /\ (Binary => Skip = 0)
        /\ wr = "src" => Start < given /\ given < Start + RecordSize

IInv ==
    /\ TypeOK /\ BlocksFit
    /\ PlaceOK /\ WalkOK /\ CharOK /\ BytesOK /\ SourceOK /\ CutOK /\ StopOK /\ IdleOK

-----------------------------------------------------------------------------
(* Record types *)

\* What an item of a record type may be.
LEMMA ItemsOf ==
    ASSUME NEW s \in Schemas
    PROVE  /\ Len(s) \in Nat \ {0} /\ DOMAIN s = 1 .. Len(s)
           /\ \A n \in 1 .. Len(s) :
                /\ s[n].kind \in {"sep", "prim", "char"}
                /\ s[n].src \in 0 .. BufSize
                /\ s[n].out \in 0 .. BlockSize /\ s[n].need \in 0 .. BlockSize
                /\ s[n].out <= s[n].need
                /\ s[n].kind = "sep" => s[n].out = s[n].need
                /\ s[n].kind = "sep" <=> s[n].src = 0
           /\ \E n \in 1 .. Len(s) : s[n].kind # "sep"
<1> DEFINE Item == [kind : {"sep", "prim", "char"}, src : 0 .. BufSize,
                    out : 0 .. BlockSize, need : 0 .. BlockSize]
<1>1. /\ s \in Seq(Item)
      /\ \A n \in 1 .. Len(s) :
           /\ s[n].out <= s[n].need
           /\ s[n].kind = "sep" => s[n].out = s[n].need
           /\ s[n].kind = "sep" <=> s[n].src = 0
      /\ \E n \in 1 .. Len(s) : s[n].kind # "sep"
  BY SchemaAssumption
<1>2. Len(s) \in Nat /\ DOMAIN s = 1 .. Len(s) /\ \A n \in 1 .. Len(s) : s[n] \in Item
  <2> HIDE DEF Item
  <2> QED BY <1>1, LenProperties, ElementOfSeq
<1>3. \A n \in 1 .. Len(s) :
        /\ s[n].kind \in {"sep", "prim", "char"}
        /\ s[n].src \in 0 .. BufSize
        /\ s[n].out \in 0 .. BlockSize /\ s[n].need \in 0 .. BlockSize
  BY <1>2
<1>4. Len(s) # 0
  BY <1>1, <1>2
<1> QED BY <1>1, <1>2, <1>3, <1>4

\* The same of the current type.
LEMMA ItemFacts ==
    ASSUME TypeOK
    PROVE  /\ Items \in Nat \ {0}
           /\ BlockSize \in Nat \ {0} /\ BufSize \in Nat \ {0} /\ MaxBytes \in Nat
           /\ \A n \in 1 .. Items :
                /\ schema[n].kind \in {"sep", "prim", "char"}
                /\ schema[n].src \in 0 .. BufSize
                /\ schema[n].out \in 0 .. BlockSize /\ schema[n].need \in 0 .. BlockSize
                /\ schema[n].out <= schema[n].need
                /\ schema[n].kind = "sep" => schema[n].out = schema[n].need
                /\ schema[n].kind = "sep" <=> schema[n].src = 0
<1>1. schema \in Schemas
  BY DEF TypeOK
<1> QED BY <1>1, ItemsOf, SizeAssumption DEF Items

\* A Char array is alone among separators that write nothing.
LEMMA CharFacts ==
    ASSUME TypeOK, NEW n \in 1 .. Items, schema[n].kind = "char"
    PROVE  /\ schema[n].need = schema[n].src
           /\ \A m \in 1 .. Items : m # n => schema[m].kind = "sep"
<1>1. schema \in Schemas
  BY DEF TypeOK
<1> QED BY <1>1, CharAssumption DEF Items

\* In binary, separators ask for no room.
LEMMA BinaryFacts ==
    ASSUME TypeOK, NEW n \in 1 .. Items
    PROVE  /\ Binary /\ schema[n].kind = "sep" => schema[n].need = 0
           /\ schema[n].kind = "char" => Binary
<1>1. Binary /\ schema[n].kind = "sep" => schema[n].need = 0
  BY ItemFacts DEF Binary, Items
<1>2. ASSUME schema[n].kind = "char" PROVE Binary
  <2>1. schema \in Schemas
    BY DEF TypeOK
  <2>2. \A m \in 1 .. Items : m # n => schema[m].out = 0
    BY <1>2, <2>1, CharAssumption DEF Items
  <2> QED BY <1>2, <2>2 DEF Binary, Items
<1> QED BY <1>1, <1>2

\* The offsets of the items of a record type.
LEMMA OffsetsOf ==
    ASSUME NEW s \in Schemas, NEW f, f = [n \in DOMAIN s |-> s[n].src]
    PROVE  /\ Sums(f)[0] = 0 /\ Total(f) = Sums(f)[Len(s)] /\ Total(f) \in Nat \ {0}
           /\ \A n \in 1 .. Len(s) : Sums(f)[n] = Sums(f)[n - 1] + s[n].src
           /\ \A k \in 0 .. Len(s) : Sums(f)[k] \in Nat
           /\ \A k \in 0 .. Len(s), j \in 0 .. Len(s) : j <= k => Sums(f)[j] <= Sums(f)[k]
<1>1. /\ Len(s) \in Nat \ {0} /\ DOMAIN s = 1 .. Len(s)
      /\ \A n \in 1 .. Len(s) : s[n].src \in Nat
      /\ \E n \in 1 .. Len(s) : s[n].src # 0
  <2>1. \A n \in 1 .. Len(s) : s[n].src \in 0 .. BufSize /\ BufSize \in Nat
    BY ItemsOf, SizeAssumption
  <2> QED BY <2>1, ItemsOf
<1>2. f \in Seq(Nat) /\ Len(f) = Len(s) /\ \A n \in 1 .. Len(s) : f[n] = s[n].src
  <2>1. f = [n \in 1 .. Len(s) |-> s[n].src]
    BY <1>1
  <2>2. f \in Seq(Nat)
    BY <1>1, <2>1
  <2> QED BY <1>1, <2>1, <2>2
<1>3. /\ Sums(f)[0] = 0
      /\ \A n \in 1 .. Len(s) : Sums(f)[n] = Sums(f)[n - 1] + s[n].src
  BY <1>2, SumsIs
<1>4. /\ \A k \in 0 .. Len(s) : Sums(f)[k] \in Nat
      /\ \A k \in 0 .. Len(s), j \in 0 .. Len(s) : j <= k => Sums(f)[j] <= Sums(f)[k]
  BY <1>2, SumsGrow
<1>5. Total(f) = Sums(f)[Len(s)]
  BY <1>2 DEF Total
<1>6. Total(f) \in Nat \ {0}
  <2>1. PICK n \in 1 .. Len(s) : s[n].src # 0
    BY <1>1
  <2>2. n \in 0 .. Len(s) /\ n - 1 \in 0 .. Len(s) /\ Len(s) \in 0 .. Len(s) /\ n <= Len(s)
    BY <1>1
  <2>3. /\ Sums(f)[n] = Sums(f)[n - 1] + s[n].src /\ s[n].src \in Nat
        /\ Sums(f)[n] \in Nat /\ Sums(f)[n - 1] \in Nat /\ Sums(f)[Len(s)] \in Nat
    BY <1>1, <1>3, <1>4, <2>2
  <2>4. Sums(f)[n] <= Sums(f)[Len(s)]
    BY <1>4, <2>2
  <2> QED BY <1>5, <2>1, <2>3, <2>4
<1> QED BY <1>3, <1>4, <1>5, <1>6

\* The same of the current type.
LEMMA OffsetFacts ==
    ASSUME TypeOK
    PROVE  /\ Offset[0] = 0 /\ RecordSize = Offset[Items] /\ RecordSize \in Nat \ {0}
           /\ \A n \in 1 .. Items : Offset[n] = Offset[n - 1] + schema[n].src
           /\ \A k \in 0 .. Items : Offset[k] \in Nat
           /\ \A k \in 0 .. Items, j \in 0 .. Items : j <= k => Offset[j] <= Offset[k]
<1>1. schema \in Schemas /\ Srcs = [n \in DOMAIN schema |-> schema[n].src]
  BY DEF TypeOK, Srcs
<1> QED BY <1>1, OffsetsOf DEF Offset, RecordSize, Items

\* The place after item n.
LEMMA NextOffset ==
    ASSUME TypeOK, NEW n \in 0 .. Items, n < Items
    PROVE  /\ n + 1 \in 1 .. Items /\ Offset[n + 1] = Offset[n] + schema[n + 1].src
           /\ Offset[n] \in Nat /\ Offset[n + 1] \in Nat /\ Offset[n + 1] <= RecordSize
<1>1. Items \in Nat \ {0}
  BY ItemFacts
<1>2. n + 1 \in 1 .. Items /\ n + 1 \in 0 .. Items /\ Items \in 0 .. Items /\ (n + 1) - 1 = n
  BY <1>1
<1>3. Offset[n + 1] = Offset[(n + 1) - 1] + schema[n + 1].src
  BY <1>2, OffsetFacts
<1> QED BY <1>1, <1>2, <1>3, OffsetFacts

\* The places where a primitive ends.
LEMMA EndFacts ==
    ASSUME TypeOK
    PROVE  /\ \A k \in 0 .. Items : Offset[k] \in PrimitiveEnds
           /\ \A e \in PrimitiveEnds : \E k \in 0 .. Items : e = Offset[k]
BY DEF PrimitiveEnds, Offset, Items

-----------------------------------------------------------------------------
(* Sequences *)

\* Dropped without the first n elements.
LEMMA DroppedIs ==
    ASSUME NEW T, NEW s \in Seq(T), NEW n \in 0 .. Len(s)
    PROVE  /\ Dropped(s, n) \in Seq(T) /\ Len(Dropped(s, n)) = Len(s) - n
           /\ \A k \in 1 .. Len(s) - n : Dropped(s, n)[k] = s[n + k]
<1>1. Len(s) \in Nat /\ \A k \in 1 .. Len(s) : s[k] \in T
  BY LenProperties, ElementOfSeq
<1>2. n + 1 \in 1 .. Len(s) + 1
  BY <1>1
<1>3. SubSeq(s, n + 1, Len(s)) = [k \in 1 .. Len(s) - n |-> s[n + k]]
  <2>1. (n + 1) .. Len(s) = (n + 1) .. Len(s) /\ (1 + Len(s)) - (n + 1) = Len(s) - n
    BY <1>1
  <2> QED BY <1>1, <2>1
<1>4. \A k \in 1 .. Len(s) - n : s[n + k] \in T
  BY <1>1
<1>5. Len(s) - n \in Nat
  BY <1>1
<1> QED BY <1>3, <1>4, <1>5 DEF Dropped

\* The bytes copied.
LEMMA BytesIs ==
    ASSUME NEW N \in Nat, NEW s \in Seq(0 .. N), NEW k \in Nat, NEW n \in Nat
    PROVE  Bytes(s, k, n) \in Seq(0 .. N) /\ Len(Bytes(s, k, n)) = n
<1>1. Len(s) \in Nat /\ \A m \in 1 .. Len(s) : s[m] \in 0 .. N
  BY LenProperties, ElementOfSeq
<1>2. \A m \in 1 .. n : (IF k + m <= Len(s) THEN s[k + m] ELSE 0) \in 0 .. N
  <2> TAKE m \in 1 .. n
  <2>1. k + m <= Len(s) => k + m \in 1 .. Len(s)
    BY <1>1
  <2> QED BY <1>1, <2>1
<1> QED BY <1>2 DEF Bytes

-----------------------------------------------------------------------------
(* The tokens written *)

LEMMA TotalsAreTotals == \A ns : Records!Total(ns) = Total(ns)
BY DEF Records!Total, Records!Sums, Total, Sums

\* A token more, and its bytes and its size.
LEMMA TokenMore ==
    ASSUME TypeOK, NEW o \in Seq(Tokens), NEW t \in Tokens
    PROVE  /\ Records!TakenBy(o) \in Nat /\ SizeOf(o) \in Nat
           /\ Append(o, t) \in Seq(Tokens) /\ Len(Append(o, t)) = Len(o) + 1 /\ Len(o) \in Nat
           /\ Records!TakenBy(Append(o, t)) = Records!TakenBy(o) + Len(t.bytes)
           /\ SizeOf(Append(o, t)) = SizeOf(o) + schema[t.item].out
<1> DEFINE lens(b) == [n \in DOMAIN b |-> Len(b[n].bytes)]
           outs(b) == [n \in DOMAIN b |-> schema[b[n].item].out]
<1>1. \A u \in Tokens : Len(u.bytes) \in Nat /\ schema[u.item].out \in Nat
  <2> TAKE u \in Tokens
  <2>1. u.bytes \in Seq(0 .. MaxBytes) /\ u.item \in 1 .. Items
    BY DEF Tokens, Items
  <2>2. Len(u.bytes) \in Nat
    BY <2>1, LenProperties
  <2>3. schema[u.item].out \in 0 .. BlockSize /\ BlockSize \in Nat
    BY <2>1, ItemFacts
  <2> QED BY <2>2, <2>3
<1> HIDE DEF Tokens
<1>2. /\ Len(o) \in Nat /\ DOMAIN o = 1 .. Len(o) /\ \A n \in 1 .. Len(o) : o[n] \in Tokens
  BY LenProperties, ElementOfSeq
<1>3. /\ Append(o, t) \in Seq(Tokens) /\ Len(Append(o, t)) = Len(o) + 1
      /\ DOMAIN Append(o, t) = 1 .. Len(o) + 1
      /\ \A n \in 1 .. Len(o) : Append(o, t)[n] = o[n]
      /\ Append(o, t)[Len(o) + 1] = t
  BY AppendProperties, LenProperties
<1>4. lens(o) \in Seq(Nat) /\ outs(o) \in Seq(Nat) /\ Len(lens(o)) = Len(o) /\ Len(outs(o)) = Len(o)
  <2>1. \A n \in 1 .. Len(o) : Len(o[n].bytes) \in Nat /\ schema[o[n].item].out \in Nat
    BY <1>1, <1>2
  <2>2. lens(o) = [n \in 1 .. Len(o) |-> Len(o[n].bytes)]
    BY <1>2
  <2>3. outs(o) = [n \in 1 .. Len(o) |-> schema[o[n].item].out]
    BY <1>2
  <2>4. lens(o) \in Seq(Nat) /\ Len(lens(o)) = Len(o)
    BY <1>2, <2>1, <2>2
  <2>5. outs(o) \in Seq(Nat) /\ Len(outs(o)) = Len(o)
    BY <1>2, <2>1, <2>3
  <2> QED BY <2>4, <2>5
<1>5. lens(Append(o, t)) = Append(lens(o), Len(t.bytes))
  <2>1. lens(Append(o, t)) = [n \in 1 .. Len(o) + 1 |-> Len(Append(o, t)[n].bytes)]
    BY <1>3
  <2>2. \A n \in 1 .. Len(o) + 1 :
          Len(Append(o, t)[n].bytes) = IF n = Len(o) + 1 THEN Len(t.bytes) ELSE lens(o)[n]
    BY <1>2, <1>3
  <2>3. Append(lens(o), Len(t.bytes)) =
          [n \in 1 .. Len(o) + 1 |-> IF n = Len(o) + 1 THEN Len(t.bytes) ELSE lens(o)[n]]
    <3> HIDE DEF lens
    <3> QED BY <1>1, <1>4
  <2> HIDE DEF lens
  <2> QED BY <2>1, <2>2, <2>3
<1>6. outs(Append(o, t)) = Append(outs(o), schema[t.item].out)
  <2>1. outs(Append(o, t)) = [n \in 1 .. Len(o) + 1 |-> schema[Append(o, t)[n].item].out]
    BY <1>3
  <2>2. \A n \in 1 .. Len(o) + 1 : schema[Append(o, t)[n].item].out =
          IF n = Len(o) + 1 THEN schema[t.item].out ELSE outs(o)[n]
    BY <1>2, <1>3
  <2>3. Append(outs(o), schema[t.item].out) =
          [n \in 1 .. Len(o) + 1 |-> IF n = Len(o) + 1 THEN schema[t.item].out ELSE outs(o)[n]]
    <3> HIDE DEF outs
    <3> QED BY <1>1, <1>4
  <2> HIDE DEF outs
  <2> QED BY <2>1, <2>2, <2>3
<1>7. \A b : Records!TakenBy(b) = Total(lens(b)) /\ SizeOf(b) = Total(outs(b))
  BY TotalsAreTotals DEF Records!TakenBy, SizeOf
<1> HIDE DEF lens, outs
<1>8. Len(t.bytes) \in Nat /\ schema[t.item].out \in Nat
  BY <1>1
<1>9. Total(lens(Append(o, t))) = Total(lens(o)) + Len(t.bytes) /\ Total(lens(o)) \in Nat
  BY <1>4, <1>5, <1>8, SumsAppend
<1>10. Total(outs(Append(o, t))) = Total(outs(o)) + schema[t.item].out /\ Total(outs(o)) \in Nat
  BY <1>4, <1>6, <1>8, SumsAppend
<1> QED BY <1>2, <1>3, <1>7, <1>9, <1>10

\* There is a token, so that the totals are numbers.
LEMMA TotalsAreNumbers ==
    ASSUME TypeOK, NEW o \in Seq(Tokens)
    PROVE  Records!TakenBy(o) \in Nat /\ SizeOf(o) \in Nat /\ Len(o) \in Nat
<1>1. [item |-> 1, bytes |-> <<>>] \in Tokens
  BY ItemFacts, EmptySeq DEF Tokens, Items
<1> QED BY <1>1, TokenMore

\* No tokens.
LEMMA NoTokens == Records!TakenBy(<<>>) = 0 /\ SizeOf(<<>>) = 0
<1>1. DOMAIN <<>> = {}
  BY EmptySeq
<1>2. [n \in DOMAIN <<>> |-> Len(<<>>[n].bytes)] = <<>>
  BY <1>1
<1>3. [n \in DOMAIN <<>> |-> schema[<<>>[n].item].out] = <<>>
  BY <1>1
<1>4. Records!TakenBy(<<>>) = Total(<<>>)
  BY <1>2, TotalsAreTotals DEF Records!TakenBy
<1>5. SizeOf(<<>>) = Total(<<>>)
  BY <1>3 DEF SizeOf
<1> QED BY <1>4, <1>5, TotalEmpty

\* All the tokens written.
LEMMA OutFacts ==
    ASSUME TypeOK
    PROVE  /\ out \in Seq(Tokens) /\ Len(out) \in Nat /\ Taken \in Nat
           /\ Used \in Nat /\ Used <= BlockSize /\ Room \in 0 .. BlockSize
<1> HIDE DEF Tokens
<1>1. file \in Seq(Seq(Tokens)) /\ Block \in Seq(Tokens) /\ Used <= BlockSize
  BY DEF TypeOK
<1>2. FlattenSeq(file) \in Seq(Tokens)
  BY <1>1, FlattenAppend
<1>3. out \in Seq(Tokens)
  BY <1>1, <1>2, ConcatProperties DEF out
<1>4. Used \in Nat
  BY <1>1, TotalsAreNumbers DEF Used
<1> QED BY <1>1, <1>3, <1>4, TotalsAreNumbers, ItemFacts DEF Taken, Room

\* The block goes out.
LEMMA OutFlushed ==
    ASSUME TypeOK, schema' = schema, file' = Append(file, Block), Block' = <<>>
    PROVE  out' = out /\ Taken' = Taken
<1> HIDE DEF Tokens
<1>1. file \in Seq(Seq(Tokens)) /\ Block \in Seq(Tokens)
  BY DEF TypeOK
<1>2. FlattenSeq(file') = FlattenSeq(file) \o Block /\ FlattenSeq(file) \in Seq(Tokens)
  BY <1>1, FlattenAppend
<1>3. out' = out \o <<>> /\ out \in Seq(Tokens)
  BY <1>1, <1>2, OutFacts DEF out
<1>4. out' = out
  BY <1>3, ConcatEmptySeq
<1> QED BY <1>4 DEF Taken

\* An item is written.
LEMMA OutPut ==
    ASSUME TypeOK, schema' = schema, NEW t \in Tokens,
           \/ Block' = Append(Block, t) /\ file' = file
           \/ Block' = Append(<<>>, t) /\ file' = Append(file, Block)
    PROVE  /\ out' = Append(out, t) /\ Len(out)' = Len(out) + 1
           /\ Taken' = Taken + Len(t.bytes)
<1> HIDE DEF Tokens
<1>1. file \in Seq(Seq(Tokens)) /\ Block \in Seq(Tokens)
  BY DEF TypeOK
<1>2. FlattenSeq(file) \in Seq(Tokens)
  BY <1>1, FlattenAppend
<1>3. out' = Append(out, t)
  <2>1. ASSUME NEW a \in Seq(Tokens), NEW b \in Seq(Tokens)
        PROVE  a \o Append(b, t) = Append(a \o b, t)
    BY AppendConcat
  <2>2. CASE Block' = Append(Block, t) /\ file' = file
    BY <1>1, <1>2, <2>1, <2>2 DEF out
  <2>3. CASE Block' = Append(<<>>, t) /\ file' = Append(file, Block)
    <3>1. FlattenSeq(file') = FlattenSeq(file) \o Block
      BY <1>1, <2>3, FlattenAppend
    <3>2. out' = out \o Append(<<>>, t) /\ out \in Seq(Tokens)
      BY <2>3, <3>1, OutFacts DEF out
    <3>3. out \o Append(<<>>, t) = Append(out \o <<>>, t) /\ out \o <<>> = out
      <4>1. <<>> \in Seq(Tokens)
        BY EmptySeq
      <4> QED BY <2>1, <3>2, <4>1, ConcatEmptySeq
    <3> QED BY <3>2, <3>3
  <2> QED BY <2>2, <2>3
<1>4. Len(out)' = Len(out) + 1 /\ Records!TakenBy(Append(out, t)) = Taken + Len(t.bytes)
  BY <1>3, OutFacts, TokenMore DEF Taken
<1>5. Taken' = Records!TakenBy(Append(out, t))
  BY <1>3 DEF Taken
<1> QED BY <1>3, <1>4, <1>5

\* A block that goes out is not empty and not too large.
LEMMA FitsMore ==
    ASSUME TypeOK, BlocksFit, schema' = schema, Used > 0, file' = Append(file, Block)
    PROVE  BlocksFit'
<1> HIDE DEF Tokens
<1>1. file \in Seq(Seq(Tokens)) /\ Block \in Seq(Tokens) /\ Used <= BlockSize
  BY DEF TypeOK
<1>2. /\ Len(file) \in Nat /\ Len(file') = Len(file) + 1
      /\ \A n \in 1 .. Len(file) : file'[n] = file[n]
      /\ file'[Len(file) + 1] = Block
  BY <1>1, AppendProperties, LenProperties
<1>3. SUFFICES ASSUME NEW n \in 1 .. Len(file')
               PROVE  SizeOf(file'[n]) > 0 /\ SizeOf(file'[n]) <= BlockSize
  BY DEF BlocksFit, SizeOf
<1>4. CASE n = Len(file) + 1
  BY <1>1, <1>2, <1>4 DEF Used
<1>5. CASE n # Len(file) + 1
  <2>1. n \in 1 .. Len(file)
    BY <1>2, <1>5
  <2> QED BY <1>2, <2>1 DEF BlocksFit
<1> QED BY <1>4, <1>5

-----------------------------------------------------------------------------
(* What the invariant gives to every step *)

\* The variables as numbers.
LEMMA Numbers ==
    ASSUME TypeOK
    PROVE  /\ given \in 0 .. MaxBytes /\ Skip \in 0 .. Items /\ skip \in 0 .. Skip
           /\ wqty \in Nat /\ r \in Nat /\ pos \in 1 .. Items + 1
           /\ Buf \in Seq(0 .. MaxBytes) /\ src \in Seq(0 .. MaxBytes)
           /\ xsrc \in Seq(1 .. MaxBytes) /\ xsrc \in Seq(0 .. MaxBytes)
           /\ Len(Buf) \in Nat /\ (Buf = <<>> <=> Len(Buf) = 0) /\ Len(Buf) <= BufSize
           /\ Len(src) \in Nat /\ (src = <<>> <=> Len(src) = 0)
           /\ Len(xsrc) \in Nat /\ (xsrc = <<>> <=> Len(xsrc) = 0)
<1>1. /\ given \in 0 .. MaxBytes /\ Skip \in 0 .. Items /\ skip \in 0 .. Skip
      /\ wqty \in 0 .. Items /\ r \in 0 .. MaxBytes /\ pos \in 1 .. Items + 1
      /\ Buf \in Seq(0 .. MaxBytes) /\ src \in Seq(0 .. MaxBytes)
      /\ xsrc \in Seq(1 .. MaxBytes) /\ Len(Buf) <= BufSize
  BY DEF TypeOK, Items
<1>2. Items \in Nat /\ MaxBytes \in Nat
  BY ItemFacts
<1>3. xsrc \in Seq(0 .. MaxBytes)
  <2> DEFINE n == Len(xsrc)
             t == [k \in 1 .. n |-> xsrc[k]]
  <2>1. n \in Nat /\ \A k \in 1 .. n : xsrc[k] \in 0 .. MaxBytes
    BY <1>1, <1>2, ElementOfSeq, LenProperties
  <2>2. xsrc = t
    BY <1>1, LenProperties
  <2> HIDE DEF n
  <2>3. t \in Seq(0 .. MaxBytes)
    BY <2>1
  <2> QED BY <2>2, <2>3
<1> HIDE DEF Tokens
<1> QED BY <1>1, <1>2, <1>3, EmptyLen

\* A record type that stays keeps what is made of it.
LEMMA SameSchema ==
    ASSUME schema' = schema
    PROVE  /\ Items' = Items /\ Offset' = Offset /\ RecordSize' = RecordSize
           /\ PrimitiveEnds' = PrimitiveEnds /\ Tokens' = Tokens
           /\ (Binary' <=> Binary) /\ (Single' <=> Single)
BY DEF Items, Offset, RecordSize, Srcs, PrimitiveEnds, Tokens, Binary, Single

\* The place in the record, the bytes before it, and those of the record.
LEMMA PlaceFacts ==
    ASSUME TypeOK, PlaceOK
    PROVE  /\ Cur \in 0 .. Items /\ Offset[Cur] \in Nat /\ Offset[Skip] \in Nat
           /\ Start \in Nat /\ Start % RecordSize = 0 /\ Taken = Start + Offset[Cur]
           /\ Taken \in Nat /\ RecordSize \in Nat \ {0} /\ Offset[Cur] <= RecordSize
<1>1. /\ Skip \in 0 .. Items /\ skip \in 0 .. Skip /\ pos \in 1 .. Items + 1
      /\ Items \in Nat \ {0}
  BY Numbers, ItemFacts
<1>2. Cur \in Nat /\ Cur <= Items
  BY <1>1 DEF Cur, PlaceOK
<1>3. Cur \in 0 .. Items /\ Items \in 0 .. Items
  BY <1>1, <1>2
<1>4. Offset[Cur] \in Nat /\ Offset[Skip] \in Nat /\ Offset[Cur] <= RecordSize
  BY <1>1, <1>2, <1>3, OffsetFacts
<1>5. Taken \in Nat /\ RecordSize \in Nat \ {0}
  BY OutFacts, OffsetFacts
<1>6. Start \in Nat /\ Start % RecordSize = 0
  BY DEF PlaceOK
<1>7. Taken = Start + Offset[Cur]
  BY <1>4, <1>5 DEF Start
<1> QED BY <1>1, <1>3, <1>4, <1>5, <1>6, <1>7

\* The next primitive ends behind the bytes given: if they end at the end of one,
\* all of them are written.
LEMMA EndsHere ==
    ASSUME TypeOK, PlaceOK, AtEnd(given), Taken <= given,
           Cur < Items, given < Start + Offset[Cur + 1]
    PROVE  given = Taken
<1>1. /\ Cur \in 0 .. Items /\ Start \in Nat /\ Start % RecordSize = 0
      /\ Taken = Start + Offset[Cur] /\ RecordSize \in Nat \ {0} /\ given \in Nat
      /\ Items \in Nat
  BY PlaceFacts, Numbers, ItemFacts
<1>2. Offset[Cur] \in Nat /\ Offset[Cur + 1] \in Nat /\ Offset[Cur + 1] <= RecordSize
      /\ Cur + 1 \in 0 .. Items
  BY <1>1, NextOffset
<1> DEFINE g == given - Start
<1>3. g \in 0 .. RecordSize - 1 /\ given = Start + g /\ Offset[Cur] <= g /\ g < Offset[Cur + 1]
  BY <1>1, <1>2
<1> HIDE DEF g
<1>4. given % RecordSize = g
  BY <1>1, <1>3, ModAhead
<1>5. PICK k \in 0 .. Items : g = Offset[k]
  BY <1>4, EndFacts DEF AtEnd
<1>6. Offset[k] \in Nat
  BY <1>5, OffsetFacts
<1>7. k <= Cur
  <2>1. ~(Cur + 1 <= k)
    <3>1. Cur + 1 <= k => Offset[Cur + 1] <= Offset[k]
      BY <1>2, OffsetFacts
    <3> QED BY <1>2, <1>3, <1>5, <1>6, <3>1
  <2> QED BY <1>1, <2>1
<1>8. Offset[k] <= Offset[Cur]
  BY <1>1, <1>7, OffsetFacts
<1> QED BY <1>1, <1>2, <1>3, <1>5, <1>6, <1>8

\* In a walk, while nothing is stepped over, the place is the item the walk is at.
LEMMA AtItem ==
    ASSUME TypeOK, PlaceOK, InCall, skip = 0, pos <= Items
    PROVE  /\ Cur = pos - 1 /\ pos \in 1 .. Items /\ Cur \in 0 .. Items - 1
           /\ Offset[pos] = Offset[Cur] + schema[pos].src
           /\ Offset[pos] \in Nat /\ Offset[pos] <= RecordSize
           /\ schema[pos].src \in Nat /\ schema[pos].src <= BufSize
<1>1. Items \in Nat \ {0} /\ pos \in 1 .. Items /\ Cur = pos - 1
  BY Numbers, ItemFacts DEF Cur, InCall
<1>2. Cur \in 0 .. Items /\ Cur < Items /\ Cur + 1 = pos /\ Cur \in 0 .. Items - 1
  BY <1>1
<1>3. /\ Offset[Cur + 1] = Offset[Cur] + schema[Cur + 1].src
      /\ Offset[Cur + 1] \in Nat /\ Offset[Cur + 1] <= RecordSize
  BY <1>2, NextOffset
<1>4. schema[pos].src \in 0 .. BufSize /\ BufSize \in Nat
  BY <1>1, ItemFacts
<1> QED BY <1>1, <1>2, <1>3, <1>4

-----------------------------------------------------------------------------
(* An item is written *)

\* The source bytes of the item the walk is at.
Take == schema[pos].src

\* The item the walk is at goes into the block, or into a new one if it has to.
Placed ==
    /\ pc = "walk" /\ pos <= Items /\ skip = 0 /\ Take <= Len(src)
    /\ skip' = 0
    /\ \/ Put(Block) /\ file' = file /\ schema[pos].need <= Room
       \/ Put(<<>>) /\ file' = Append(file, Block) /\ schema[pos].need > Room

Written == [item |-> pos, bytes |-> Bytes(src, 0, Take)]

\* What changes.
LEMMA PutNumbers ==
    ASSUME IInv, Placed
    PROVE  /\ schema' = schema /\ given' = given /\ Skip' = Skip /\ Buf' = Buf
           /\ pc' = pc /\ xsrc' = xsrc /\ wr' = wr /\ InCall /\ InCall'
           /\ src' = Dropped(src, Take) /\ r' = r + Take
           /\ wqty' = wqty + 1 /\ pos' = pos + 1
           /\ Cur = pos - 1 /\ Cur' = Cur + 1 /\ Cur \in 0 .. Items - 1
           /\ Written \in Tokens /\ Len(Written.bytes) = Take
           /\ out' = Append(out, Written) /\ Len(out)' = Len(out) + 1
           /\ Taken' = Taken + Take /\ Start' = Start
           /\ Offset[pos] = Offset[Cur] + Take /\ Offset[pos] \in Nat
           /\ Take \in 0 .. Len(src)
<1>1. TypeOK /\ PlaceOK /\ InCall /\ pos <= Items /\ skip = 0
  BY DEF IInv, Placed, InCall
<1>2. /\ schema' = schema /\ given' = given /\ Skip' = Skip /\ Buf' = Buf
      /\ pc' = pc /\ xsrc' = xsrc /\ wr' = wr /\ InCall'
      /\ src' = Dropped(src, Take) /\ r' = r + Take
      /\ wqty' = wqty + 1 /\ pos' = pos + 1
  BY DEF Placed, Put, InCall, Take
<1>3. /\ Cur = pos - 1 /\ pos \in 1 .. Items /\ Cur \in 0 .. Items - 1
      /\ Offset[pos] = Offset[Cur] + Take /\ Offset[pos] \in Nat
      /\ Take \in Nat
  BY <1>1, AtItem DEF Take
<1>4. Cur' = Cur + 1
  <2>1. skip' = 0 /\ pc' = "walk"
    BY <1>2 DEF Placed
  <2> QED BY <1>2, <1>3, <2>1 DEF Cur
<1>5. Take \in 0 .. Len(src)
  BY <1>1, <1>3, Numbers DEF Placed
<1>6. Written \in Tokens /\ Len(Written.bytes) = Take
  <2>1. src \in Seq(0 .. MaxBytes) /\ MaxBytes \in Nat
    BY <1>1, Numbers, ItemFacts
  <2>2. /\ Bytes(src, 0, Take) \in Seq(0 .. MaxBytes)
        /\ Len(Bytes(src, 0, Take)) = Take
    <3>1. src \in Seq(0 .. MaxBytes) /\ MaxBytes \in Nat /\ 0 \in Nat /\ Take \in Nat
      BY <1>3, <2>1
    <3> QED BY <3>1, BytesIs, ZenonT(30)
  <2> QED BY <1>3, <2>2 DEF Written, Tokens, Items
<1>7. \/ Block' = Append(Block, Written) /\ file' = file
      \/ Block' = Append(<<>>, Written) /\ file' = Append(file, Block)
  BY DEF Placed, Put, Written, Take
<1>8. /\ out' = Append(out, Written) /\ Len(out)' = Len(out) + 1
      /\ Taken' = Taken + Take
  BY <1>1, <1>2, <1>6, <1>7, OutPut
<1>9. Start' = Start
  <2>1. Offset' = Offset /\ Taken \in Nat /\ Offset[Cur] \in Nat /\ Cur' = pos
    BY <1>1, <1>2, <1>3, <1>4, SameSchema, PlaceFacts
  <2>2. Start' = Taken' - Offset[pos]
    BY <2>1 DEF Start
  <2> QED BY <1>3, <1>8, <2>1, <2>2 DEF Start
<1> QED BY <1>1, <1>2, <1>3, <1>4, <1>5, <1>6, <1>8, <1>9

\* What the block becomes.
LEMMA PutSizes ==
    ASSUME IInv, Placed
    PROVE  /\ Block' \in Seq(Tokens) /\ file' \in Seq(Seq(Tokens))
           /\ SizeOf(Block)' <= BlockSize /\ BlocksFit'
           /\ schema[pos].need - schema[pos].out <= BlockSize - SizeOf(Block)'
<1>1. TypeOK /\ BlocksFit /\ schema' = schema /\ Written \in Tokens /\ pos \in 1 .. Items
  BY PutNumbers, Numbers DEF IInv, Placed
<1>2. file \in Seq(Seq(Tokens)) /\ Block \in Seq(Tokens)
  BY <1>1 DEF TypeOK
<1> HIDE DEF Tokens
<1>3. /\ schema[pos].need \in 0 .. BlockSize /\ schema[pos].out \in Nat
      /\ schema[pos].out <= schema[pos].need /\ BlockSize \in Nat
  BY <1>1, ItemFacts
<1>4. Written.item = pos
  BY DEF Written
<1>5. Used \in Nat /\ Used <= BlockSize /\ Room = BlockSize - Used
  BY <1>1, OutFacts DEF Room
<1>6. CASE Put(Block) /\ file' = file /\ schema[pos].need <= Room
  <2>1. Block' = Append(Block, Written)
    BY <1>6 DEF Put, Written, Take
  <2>2. /\ Append(Block, Written) \in Seq(Tokens)
        /\ SizeOf(Append(Block, Written)) = Used + schema[pos].out
    BY <1>1, <1>2, <1>4, TokenMore DEF Used
  <2>3. SizeOf(Block)' = SizeOf(Append(Block, Written))
    BY <1>1, <2>1 DEF SizeOf
  <2>4. BlocksFit'
    BY <1>1, <1>6 DEF BlocksFit, SizeOf
  <2> QED BY <1>2, <1>3, <1>5, <1>6, <2>1, <2>2, <2>3, <2>4
<1>7. CASE Put(<<>>) /\ file' = Append(file, Block) /\ schema[pos].need > Room
  <2>1. Block' = Append(<<>>, Written) /\ <<>> \in Seq(Tokens)
    BY <1>7, EmptySeq DEF Put, Written, Take
  <2>2. /\ Append(<<>>, Written) \in Seq(Tokens)
        /\ SizeOf(Append(<<>>, Written)) = SizeOf(<<>>) + schema[pos].out
    BY <1>1, <1>4, <2>1, TokenMore
  <2>3. SizeOf(Block)' = SizeOf(Append(<<>>, Written))
    BY <1>1, <2>1 DEF SizeOf
  <2>4. /\ SizeOf(Block)' <= BlockSize
        /\ schema[pos].need - schema[pos].out <= BlockSize - SizeOf(Block)'
    BY <1>3, <2>2, <2>3, NoTokens
  <2>5. Used > 0
    BY <1>3, <1>5, <1>7
  <2>6. BlocksFit'
    BY <1>1, <1>2, <1>5, <1>7, <2>5, FitsMore
  <2>7. file' \in Seq(Seq(Tokens))
    BY <1>2, <1>7, AppendProperties
  <2> QED BY <2>1, <2>2, <2>4, <2>6, <2>7
<1> QED BY <1>6, <1>7 DEF Placed

\* All of the invariant after it.
LEMMA PutStep ==
    ASSUME IInv, Placed
    PROVE  IInv'
<1>1. /\ TypeOK /\ PlaceOK /\ WalkOK /\ CharOK /\ BytesOK /\ SourceOK /\ CutOK
      /\ pc = "walk" /\ pc' = "walk" /\ InCall /\ InCall'
  BY DEF IInv, Placed, Put, InCall
<1>2. /\ schema' = schema /\ given' = given /\ Skip' = Skip /\ Buf' = Buf
      /\ xsrc' = xsrc /\ wr' = wr
      /\ src' = Dropped(src, Take) /\ r' = r + Take
      /\ wqty' = wqty + 1 /\ pos' = pos + 1 /\ skip' = 0
  BY PutNumbers DEF Placed
<1>3. /\ Cur = pos - 1 /\ Cur' = Cur + 1 /\ Cur \in 0 .. Items - 1
      /\ Len(out)' = Len(out) + 1
      /\ Taken' = Taken + Take /\ Start' = Start
      /\ Offset[pos] = Offset[Cur] + Take /\ Offset[pos] \in Nat
      /\ Take \in 0 .. Len(src)
  BY PutNumbers
<1>4. /\ Items' = Items /\ Offset' = Offset /\ RecordSize' = RecordSize
      /\ PrimitiveEnds' = PrimitiveEnds /\ Tokens' = Tokens
      /\ (Binary' <=> Binary) /\ (Single' <=> Single)
  BY <1>2, SameSchema
<1>5. /\ src' \in Seq(0 .. MaxBytes) /\ Len(src)' = Len(src) - Take
      /\ \A k \in 1 .. Len(src) - Take : src'[k] = src[Take + k]
  <2>1. src \in Seq(0 .. MaxBytes)
    BY <1>1, Numbers
  <2>2. src' = Dropped(src, Take) /\ Take \in 0 .. Len(src)
    BY <1>2, <1>3
  <2>3. Len(src') = Len(src)'
    OBVIOUS
  <2> QED BY <2>1, <2>2, <2>3, DroppedIs, ZenonT(30)
<1>6. /\ given \in 0 .. MaxBytes /\ Skip \in 0 .. Items /\ skip = 0 /\ wqty \in Nat /\ r \in Nat
      /\ pos \in 1 .. Items /\ Items \in Nat /\ MaxBytes \in Nat
      /\ Len(src) \in Nat /\ Taken \in Nat /\ Start \in Nat /\ Offset[Skip] \in Nat
      /\ Offset[Cur] \in Nat
  BY <1>1, <1>3, Numbers, ItemFacts, PlaceFacts DEF Placed
<1>7. given = Taken + Len(src) /\ Follows(src, Taken)
  BY <1>1 DEF BytesOK
<1>8. wqty = Cur - Skip /\ r = Offset[Cur] - Offset[Skip]
  BY <1>1 DEF WalkOK
<1>9. TypeOK'
  <2>1. /\ Block' \in Seq(Tokens)' /\ file' \in Seq(Seq(Tokens))' /\ Used' <= BlockSize
    BY <1>4, PutSizes DEF Used
  <2>2. wqty' \in 0 .. Items /\ pos' \in 1 .. Items + 1
    BY <1>2, <1>3, <1>6, <1>8
  <2>3. r' \in 0 .. MaxBytes
    <3>1. Taken = Start + Offset[Cur]
      BY <1>1, PlaceFacts
    <3>2. /\ Take \in Nat /\ Take <= Len(src) /\ given \in Nat /\ given <= MaxBytes
          /\ r' = r + Take
      BY <1>2, <1>3, <1>6
    <3>3. Start + (Offset[Cur] + Take) <= given
      BY <1>6, <1>7, <3>1, <3>2, SMTT(30)
    <3>4. r <= Offset[Cur]
      BY <1>6, <1>8
    <3>5. r' \in Nat /\ r' <= MaxBytes
      BY <1>6, <3>2, <3>3, <3>4
    <3> QED BY <1>6, <3>5
  <2>4. skip' \in 0 .. Skip
    BY <1>2, <1>6
  <2> HIDE DEF Tokens
  <2> QED BY <1>1, <1>2, <1>4, <1>5, <2>1, <2>2, <2>3, <2>4 DEF TypeOK, Items
<1>10. PlaceOK'
  <2>1. Len(out)' % Items = Cur' % Items
    <3>1. Len(out) % Items = Cur % Items /\ Len(out) \in Nat /\ Items \in Nat \ {0}
      BY <1>1, OutFacts, ItemFacts DEF PlaceOK
    <3>2. (Len(out) + 1) % Items = (Cur + 1) % Items
      BY <1>3, <3>1, ModNext, SMTT(30)
    <3> QED BY <1>3, <3>2
  <2>2. Cur' <= Items
    BY <1>3, <1>6
  <2>3. Start' \in Nat /\ Start' % RecordSize = 0
    BY <1>1, <1>3 DEF PlaceOK
  <2> QED BY <1>4, <2>1, <2>2, <2>3 DEF PlaceOK, Items
<1>11. WalkOK'
  <2>1. wqty' = Cur' - Skip /\ r' = Offset[Cur'] - Offset[Skip]
    <3>1. Cur' = pos
      BY <1>3, <1>6
    <3> QED BY <1>2, <1>3, <1>6, <1>8, <3>1, SMTT(30)
  <2>2. Skip < Items
    BY <1>1 DEF WalkOK
  <2>3. schema'[pos' - 1].need - schema'[pos' - 1].out <= Room'
    <3>1. pos' - 1 = pos
      BY <1>2, <1>6
    <3>2. Room' = BlockSize - SizeOf(Block)'
      BY DEF Room, Used
    <3> QED BY <1>2, <3>1, <3>2, PutSizes
  <2> QED BY <1>1, <1>2, <1>4, <2>1, <2>2, <2>3 DEF WalkOK
<1>12. CharOK'
  <2> SUFFICES ASSUME NEW n \in 1 .. Items, schema[n].kind = "char"
               PROVE  Skip < n /\ (Cur' < n => r' = 0)
    BY <1>2, <1>4 DEF CharOK
  <2>1. Skip < n /\ (Cur < n => r = 0)
    BY <1>1 DEF CharOK
  <2>2. ASSUME Cur' < n PROVE r' = 0
    <3>1. pos # n /\ Cur < n
      BY <1>3, <1>6, <2>2
    <3>2. schema[pos].kind = "sep"
      BY <1>1, <1>6, <3>1, CharFacts
    <3>3. Take = 0
      BY <1>1, <1>6, <3>2, ItemFacts DEF Take
    <3> QED BY <1>2, <1>6, <2>1, <3>1, <3>3
  <2> QED BY <2>1, <2>2
<1>13. BytesOK'
  <2>1. given' = Taken' + Len(src)'
    BY <1>2, <1>3, <1>5, <1>6, <1>7
  <2>2. Follows(src', Taken')
    <3> SUFFICES ASSUME NEW k \in 1 .. Len(src') PROVE src'[k] = Taken' + k
      BY DEF Follows
    <3>1. Take + k \in 1 .. Len(src) /\ k \in 1 .. Len(src) - Take
      <4>1. k \in 1 .. Len(src) - Take /\ Take \in 0 .. Len(src) /\ Len(src) \in Nat
        BY <1>3, <1>5, <1>6
      <4> QED BY <4>1
    <3>2. src'[k] = src[Take + k] /\ src[Take + k] = Taken + (Take + k)
      BY <1>5, <1>7, <3>1 DEF Follows
    <3> QED BY <1>3, <1>6, <3>1, <3>2
  <2> QED BY <1>1, <2>1, <2>2 DEF BytesOK, Follows
<1>14. SourceOK'
  <2>1. r' + Len(src)' = r + Len(src)
    BY <1>2, <1>3, <1>5, <1>6
  <2>2. Taken' - r' = Taken - r
    BY <1>2, <1>3, <1>6
  <2>3. /\ r + Len(src) > 0
        /\ IF Buf # <<>>
           THEN xsrc = <<>> /\ r + Len(src) = Len(Buf)
           ELSE r + Len(src) = Len(xsrc) /\ Follows(xsrc, Taken - r)
    BY <1>1 DEF SourceOK
  <2> QED BY <1>1, <1>2, <2>1, <2>2, <2>3 DEF SourceOK, Follows
<1>15. CutOK'
  <2>1. Inside' <=> Inside
    BY <1>2, <1>3, <1>4 DEF Inside
  <2>2. ToEnd' <=> ToEnd
    BY <1>2, <1>3, <1>4 DEF ToEnd, AtEnd
  <2> QED BY <1>1, <1>2, <2>1, <2>2 DEF CutOK
<1>16. StopOK' /\ IdleOK'
  BY <1>1 DEF StopOK, IdleOK
<1> QED BY <1>9, <1>10, <1>11, <1>12, <1>13, <1>14, <1>15, <1>16, PutSizes DEF IInv

-----------------------------------------------------------------------------
(* The other steps of a walk *)

\* A step of a walk that writes nothing and keeps its place.
Waits ==
    /\ pc = "walk" /\ pc' \in {"walk", "settle"}
    /\ UNCHANGED <<schema, given, Skip, Buf, Block, file, xsrc, src, wqty, r>>
    /\ Cur' = Cur /\ skip' \in 0 .. skip /\ pos' \in 1 .. Items + 1
    /\ wr' \in {"no", "src", "dst"}

LEMMA WaitStep ==
    ASSUME IInv, Waits, StopOK'
    PROVE  IInv'
<1>1. /\ TypeOK /\ BlocksFit /\ PlaceOK /\ WalkOK /\ CharOK /\ BytesOK /\ SourceOK /\ CutOK
      /\ InCall /\ InCall' /\ pc # "idle" /\ pc' # "idle" /\ pc # "fill" /\ pc' # "fill"
  BY DEF IInv, Waits, InCall
<1>2. /\ schema' = schema /\ given' = given /\ Skip' = Skip /\ Buf' = Buf /\ Block' = Block
      /\ file' = file /\ xsrc' = xsrc /\ src' = src /\ wqty' = wqty /\ r' = r /\ Cur' = Cur
      /\ skip' \in 0 .. skip /\ pos' \in 1 .. Items + 1
  BY DEF Waits
<1>3. /\ Items' = Items /\ Offset' = Offset /\ RecordSize' = RecordSize
      /\ PrimitiveEnds' = PrimitiveEnds /\ Tokens' = Tokens
      /\ (Binary' <=> Binary) /\ (Single' <=> Single)
  BY <1>2, SameSchema
<1>4. out' = out /\ Taken' = Taken /\ Start' = Start
  <2>1. out' = out /\ Taken' = Taken
    BY <1>2 DEF out, Taken
  <2> QED BY <1>2, <1>3, <2>1 DEF Start
<1>5. TypeOK'
  <2>1. skip' \in 0 .. Skip
    BY <1>1, <1>2, Numbers
  <2>2. Used' = Used
    BY <1>2 DEF Used, SizeOf
  <2> HIDE DEF Tokens
  <2> QED BY <1>1, <1>2, <1>3, <2>1, <2>2 DEF TypeOK, Waits, Items
<1>6. BlocksFit'
  BY <1>1, <1>2 DEF BlocksFit, SizeOf
<1>7. PlaceOK'
  BY <1>1, <1>2, <1>3, <1>4 DEF PlaceOK, Items
<1>8. WalkOK'
  <2>1. skip' > 0 => skip > 0
    BY <1>1, <1>2, Numbers
  <2>2. wqty > 0 => pos' = pos
    <3> SUFFICES ASSUME wqty > 0 PROVE pos' = pos
      OBVIOUS
    <3>1. /\ Cur = pos - 1 + skip /\ Cur' = pos' - 1 + skip'
          /\ wqty = Cur - Skip /\ (skip > 0 => Cur = Skip)
      BY <1>1 DEF Cur, WalkOK, InCall
    <3>2. /\ pos \in Nat /\ skip \in Nat /\ Skip \in Nat /\ Items \in Nat
          /\ skip' \in Nat /\ pos' \in Nat
      BY <1>1, <1>2, Numbers, ItemFacts
    <3>3. skip = 0 /\ skip' = 0
      <4>1. ~(skip > 0)
        BY <3>1, <3>2
      <4> QED BY <1>2, <3>2, <4>1
    <3>4. pos' - 1 + skip' = pos - 1 + skip
      BY <1>2, <3>1
    <3>5. \A m, n \in Nat : m - 1 + 0 = n - 1 + 0 => m = n
      OBVIOUS
    <3>6. pos' - 1 + 0 = pos - 1 + 0
      BY <3>3, <3>4, Zenon
    <3>7. pos \in Nat /\ pos' \in Nat
      BY <3>2
    <3> QED BY <3>5, <3>6, <3>7, Zenon
  <2>3. Room' = Room
    BY <1>2 DEF Room, Used, SizeOf
  <2> QED BY <1>1, <1>2, <1>3, <2>1, <2>2, <2>3 DEF WalkOK
<1>9. CharOK'
  BY <1>1, <1>2, <1>3 DEF CharOK
<1>10. BytesOK' /\ SourceOK'
  BY <1>1, <1>2, <1>4 DEF BytesOK, SourceOK, Follows
<1>11. CutOK'
  <2>1. (Inside' <=> Inside) /\ (ToEnd' <=> ToEnd)
    BY <1>2, <1>3, <1>4 DEF Inside, ToEnd, AtEnd
  <2> QED BY <1>1, <1>2, <2>1 DEF CutOK
<1>12. IdleOK'
  BY <1>1 DEF IdleOK
<1> QED BY <1>5, <1>6, <1>7, <1>8, <1>9, <1>10, <1>11, <1>12 DEF IInv

\* The walk returns with a code.
LEMMA StopStep ==
    ASSUME IInv, pc = "walk", NEW code \in {"no", "src", "dst"}, Stop(code),
           code = "no" => pos = Items + 1,
           code # "no" => pos <= Items /\ skip = 0,
           code = "src" => Len(src) < schema[pos].src,
           code = "dst" => /\ schema[pos].need > Room /\ schema[pos].kind # "prim"
                           /\ schema[pos].kind = "char" => Len(src) >= schema[pos].src
    PROVE  IInv'
<1>1. /\ schema' = schema /\ given' = given /\ Skip' = Skip /\ Buf' = Buf /\ Block' = Block
      /\ file' = file /\ xsrc' = xsrc /\ src' = src /\ wqty' = wqty /\ r' = r
      /\ skip' = skip /\ pos' = pos /\ pc' = "settle" /\ wr' = code
  BY DEF Stop, call
<1>2. TypeOK
  BY DEF IInv
<1>3. Waits
  <2>1. Cur' = Cur
    BY <1>1 DEF Cur
  <2>2. skip \in 0 .. skip /\ pos \in 1 .. Items + 1
    BY <1>2, Numbers, ItemFacts
  <2> QED BY <1>1, <2>1, <2>2 DEF Waits
<1>4. StopOK'
  <2>1. Items' = Items
    BY <1>1, SameSchema
  <2>2. Room' = Room
    BY <1>1 DEF Room, Used, SizeOf
  <2> QED BY <1>1, <2>1, <2>2 DEF StopOK
<1> QED BY <1>3, <1>4, WaitStep

\* An item is stepped over.
LEMMA StepOverStep ==
    ASSUME IInv, StepOver
    PROVE  IInv' /\ out' = out
<1>1. /\ pc = "walk" /\ pc' = "walk" /\ pos <= Items /\ skip > 0
      /\ schema' = schema /\ given' = given /\ Skip' = Skip /\ Buf' = Buf /\ Block' = Block
      /\ file' = file /\ xsrc' = xsrc /\ src' = src /\ wqty' = wqty /\ r' = r
      /\ skip' = skip - 1 /\ pos' = pos + 1 /\ wr' = wr
  BY DEF StepOver, At, Items
<1>2. TypeOK
  BY DEF IInv
<1>3. /\ Items \in Nat /\ pos \in 1 .. Items + 1 /\ Skip \in 0 .. Items /\ skip \in 0 .. Skip
      /\ wr \in {"no", "src", "dst"}
  BY <1>2, Numbers, ItemFacts DEF TypeOK
<1>4. Waits
  <2>1. Cur' = Cur
    BY <1>1, <1>3 DEF Cur
  <2>2. skip' \in 0 .. skip /\ pos' \in 1 .. Items + 1
    BY <1>1, <1>3
  <2> QED BY <1>1, <1>3, <2>1, <2>2 DEF Waits
<1>5. StopOK'
  BY <1>1 DEF StopOK
<1>6. out' = out
  BY <1>1 DEF out
<1> QED BY <1>4, <1>5, <1>6, WaitStep

\* The item the walk is at.
LEMMA HereFacts ==
    ASSUME TypeOK, pos <= Items
    PROVE  /\ pos \in 1 .. Items /\ schema[pos].src \in Nat /\ schema[pos].need \in Nat
           /\ schema[pos].kind = "sep" <=> schema[pos].src = 0
           /\ Room \in Nat /\ Len(src) \in Nat /\ Skip \in Nat /\ skip \in Nat
<1>1. pos \in 1 .. Items + 1 /\ Items \in Nat
  BY Numbers, ItemFacts
<1>2. pos \in 1 .. Items
  BY <1>1
<1>3. /\ schema[pos].src \in 0 .. BufSize /\ schema[pos].need \in 0 .. BlockSize
      /\ schema[pos].kind = "sep" <=> schema[pos].src = 0
  BY <1>2, ItemFacts
<1>4. schema[pos].src \in Nat /\ schema[pos].need \in Nat
  BY <1>3, ItemFacts
<1>5. Room \in Nat
  BY OutFacts, ItemFacts
<1>6. Len(src) \in Nat /\ Skip \in Nat /\ skip \in Nat
  <2>1. Skip \in 0 .. Items /\ skip \in 0 .. Skip /\ Len(src) \in Nat
    BY Numbers
  <2> QED BY <1>1, <2>1
<1> QED BY <1>2, <1>3, <1>4, <1>5, <1>6

\* A separator is written, or does not fit.
LEMMA WriteSepStep ==
    ASSUME IInv, WriteSep
    PROVE  IInv' /\ (Placed \/ out' = out)
<1>1. pc = "walk" /\ pos <= Items /\ skip = 0 /\ schema[pos].kind = "sep" /\ TypeOK
  BY DEF WriteSep, At, Items, IInv
<1>2. /\ pos \in 1 .. Items /\ schema[pos].src = 0 /\ schema[pos].need \in Nat
      /\ Room \in Nat /\ Len(src) \in Nat
  BY <1>1, HereFacts
<1>3. CASE schema[pos].need > Room
  <2>1. Stop("dst")
    BY <1>3 DEF WriteSep
  <2>2. IInv'
    BY <1>1, <1>3, <2>1, StopStep
  <2>3. out' = out
    BY <2>1 DEF Stop, out
  <2> QED BY <2>2, <2>3
<1>4. CASE ~(schema[pos].need > Room)
  <2>1. Put(Block) /\ file' = file /\ skip' = skip
    BY <1>4 DEF WriteSep
  <2>2. schema[pos].need <= Room
    BY <1>2, <1>4
  <2>3. Placed
    BY <1>1, <1>2, <2>1, <2>2 DEF Placed, Take
  <2> QED BY <2>3, PutStep
<1> QED BY <1>3, <1>4

\* A primitive is written, in a new block if it does not fit, or is not there.
LEMMA WritePrimitiveStep ==
    ASSUME IInv, WritePrimitive
    PROVE  IInv' /\ (Placed \/ out' = out)
<1>1. pc = "walk" /\ pos <= Items /\ skip = 0 /\ schema[pos].kind = "prim" /\ TypeOK
  BY DEF WritePrimitive, At, Items, IInv
<1>2. /\ pos \in 1 .. Items /\ schema[pos].src \in Nat /\ schema[pos].need \in Nat
      /\ Room \in Nat /\ Len(src) \in Nat
  BY <1>1, HereFacts
<1>3. CASE Len(src) < schema[pos].src
  <2>1. Stop("src")
    BY <1>3 DEF WritePrimitive
  <2>2. IInv'
    BY <1>1, <1>3, <2>1, StopStep
  <2>3. out' = out
    BY <2>1 DEF Stop, out
  <2> QED BY <2>2, <2>3
<1>4. CASE ~(Len(src) < schema[pos].src)
  <2>1. PutPrimitive /\ skip' = skip
    BY <1>4 DEF WritePrimitive
  <2>2. \/ Put(Block) /\ file' = file /\ schema[pos].need <= Room
        \/ Put(<<>>) /\ file' = Append(file, Block) /\ schema[pos].need > Room
    BY <1>2, <2>1 DEF PutPrimitive
  <2>3. schema[pos].src <= Len(src)
    BY <1>2, <1>4
  <2>4. Placed
    BY <1>1, <2>1, <2>2, <2>3 DEF Placed, Take
  <2> QED BY <2>4, PutStep
<1> QED BY <1>3, <1>4

\* A Char array is written, is not there, or does not fit.
LEMMA WriteCharsStep ==
    ASSUME IInv, WriteChars
    PROVE  IInv' /\ (Placed \/ out' = out)
<1>1. /\ pc = "walk" /\ pos <= Items /\ schema[pos].kind = "char"
      /\ TypeOK /\ PlaceOK /\ WalkOK /\ CharOK
  BY DEF WriteChars, At, Items, IInv
<1>2. /\ pos \in 1 .. Items /\ schema[pos].src \in Nat /\ schema[pos].src # 0
      /\ schema[pos].need = schema[pos].src /\ Room \in Nat /\ Len(src) \in Nat
      /\ Skip \in Nat /\ skip \in Nat
  <2>1. /\ pos \in 1 .. Items /\ schema[pos].src \in Nat /\ schema[pos].src # 0
        /\ Room \in Nat /\ Len(src) \in Nat /\ Skip \in Nat /\ skip \in Nat
    BY <1>1, HereFacts
  <2> QED BY <1>1, <2>1, CharFacts
<1>3. skip = 0
  <2>1. Skip < pos /\ Cur = pos - 1 + skip /\ (skip > 0 => Cur = Skip)
    BY <1>1, <1>2 DEF CharOK, WalkOK, Cur, InCall
  <2> QED BY <1>2, <2>1
<1>4. CASE Len(src) < schema[pos].src
  <2>1. Stop("src")
    BY <1>4 DEF WriteChars
  <2>2. IInv'
    BY <1>1, <1>3, <1>4, <2>1, StopStep
  <2>3. out' = out
    BY <2>1 DEF Stop, out
  <2> QED BY <2>2, <2>3
<1>5. CASE ~(Len(src) < schema[pos].src) /\ Room < schema[pos].src
  <2>1. Stop("dst")
    BY <1>5 DEF WriteChars
  <2>2. Len(src) >= schema[pos].src /\ schema[pos].need > Room
    BY <1>2, <1>5
  <2>3. IInv'
    BY <1>1, <1>3, <2>1, <2>2, StopStep
  <2>4. out' = out
    BY <2>1 DEF Stop, out
  <2> QED BY <2>3, <2>4
<1>6. CASE ~(Len(src) < schema[pos].src) /\ ~(Room < schema[pos].src)
  <2>1. ~(schema[pos].src <= skip)
    BY <1>2, <1>3
  <2>2. skip' = 0 /\ Put(Block) /\ file' = file
    BY <1>3, <1>6, <2>1 DEF WriteChars
  <2>3. schema[pos].src <= Len(src) /\ schema[pos].need <= Room
    BY <1>2, <1>6
  <2>4. Placed
    BY <1>1, <1>3, <2>2, <2>3 DEF Placed, Take
  <2> QED BY <2>4, PutStep
<1> QED BY <1>4, <1>5, <1>6

\* The walk has come to the end of the record.
LEMMA WalkEndsStep ==
    ASSUME IInv, WalkEnds
    PROVE  IInv' /\ out' = out
<1>1. TypeOK /\ pc = "walk" /\ pos > Items /\ Stop("no")
  BY DEF WalkEnds, Items, IInv
<1>2. pos = Items + 1
  <2>1. pos \in 1 .. Items + 1 /\ Items \in Nat
    BY <1>1, Numbers, ItemFacts
  <2> QED BY <1>1, <2>1
<1>3. IInv'
  BY <1>1, <1>2, StopStep
<1>4. out' = out
  BY <1>1 DEF Stop, out
<1> QED BY <1>3, <1>4

-----------------------------------------------------------------------------
(* The client, and the start of a walk *)

\* At the start nothing is written.
LEMMA InitStep ==
    ASSUME Init
    PROVE  IInv
<1>1. /\ schema \in Schemas /\ given = 0 /\ Skip = 0 /\ Buf = <<>> /\ Block = <<>> /\ file = <<>>
      /\ pc = "idle" /\ wr = "no" /\ xsrc = <<>> /\ src = <<>>
      /\ skip = 0 /\ wqty = 0 /\ r = 0 /\ pos = 1
  BY DEF Init
<1>2. Items \in Nat \ {0} /\ Offset[0] = 0 /\ RecordSize \in Nat \ {0}
  BY <1>1, ItemsOf, OffsetsOf DEF Items, Offset, RecordSize, Srcs
<1>3. out = <<>> /\ Len(out) = 0
  <2>1. <<>> \o <<>> = <<>>
    BY EmptySeq, ConcatEmptySeq
  <2> QED BY <1>1, <2>1, FlattenEmpty, EmptySeq DEF out
<1>4. Taken = 0 /\ Used = 0
  BY <1>1, <1>3, NoTokens DEF Taken, Used
<1>5. Cur = 0 /\ Start = 0
  BY <1>1, <1>2, <1>4 DEF Cur, Start
<1>6. 0 % RecordSize = 0 /\ 0 % Items = 0
  BY <1>2
<1>7. \A T : <<>> \in Seq(T) /\ Len(<<>>) = 0
  BY EmptySeq
<1>8. TypeOK
  <2> HIDE DEF Tokens
  <2> QED BY <1>1, <1>2, <1>4, <1>7, SizeAssumption DEF TypeOK, Items
<1>9. BlocksFit /\ StopOK /\ IdleOK
  BY <1>1, <1>7 DEF BlocksFit, StopOK, IdleOK
<1>10. PlaceOK
  BY <1>2, <1>3, <1>5, <1>6 DEF PlaceOK, Items
<1>11. WalkOK /\ CharOK
  BY <1>1, <1>2, <1>5 DEF WalkOK, CharOK, InCall
<1>12. BytesOK /\ SourceOK /\ CutOK
  BY <1>1, <1>4, <1>7 DEF BytesOK, SourceOK, CutOK, Follows, InCall
<1> QED BY <1>8, <1>9, <1>10, <1>11, <1>12 DEF IInv

\* A new type description.
LEMMA RetypeStep ==
    ASSUME IInv, Retype
    PROVE  IInv' /\ out' = <<>>
<1>1. /\ schema' \in Schemas /\ given' = 0 /\ Skip' = 0 /\ Buf' = <<>> /\ Block' = <<>>
      /\ file' = <<>> /\ pc = "idle" /\ pc' = "idle" /\ wr = "no" /\ wr' = "no"
      /\ xsrc' = xsrc /\ src' = src /\ skip' = skip /\ wqty' = wqty /\ r' = r /\ pos' = pos
  BY DEF Retype, call
<1>2. TypeOK /\ skip = 0 /\ wqty = 0 /\ r = 0 /\ pos = 1
  BY <1>1 DEF IInv, WalkOK, InCall
<1>3. Items' \in Nat \ {0} /\ Offset'[0] = 0 /\ RecordSize' \in Nat \ {0}
  BY <1>1, ItemsOf, OffsetsOf DEF Items, Offset, RecordSize, Srcs
<1>4. out' = <<>> /\ Len(out') = 0
  <2>1. <<>> \o <<>> = <<>>
    BY EmptySeq, ConcatEmptySeq
  <2> QED BY <1>1, <2>1, FlattenEmpty, EmptySeq DEF out
<1>5. Taken' = 0 /\ Used' = 0
  <2>1. Records!TakenBy(<<>>) = 0 /\ Total(<<>>) = 0
    BY NoTokens, TotalEmpty
  <2>2. [n \in DOMAIN <<>> |-> schema'[<<>>[n].item].out] = <<>>
    BY EmptySeq
  <2> QED BY <1>1, <1>4, <2>1, <2>2 DEF Taken, Used, SizeOf
<1>6. Cur' = 0 /\ Start' = 0
  <2>1. Cur' = 0
    BY <1>1 DEF Cur
  <2> QED BY <1>3, <1>5, <2>1 DEF Start
<1>7. 0 % RecordSize' = 0 /\ 0 % Items' = 0
  <2>1. \A R \in Nat \ {0} : 0 % R = 0
    OBVIOUS
  <2> QED BY <1>3, <2>1
<1>8. \A T : <<>> \in Seq(T) /\ Len(<<>>) = 0
  BY EmptySeq
<1>9. TypeOK'
  <2>1. xsrc \in Seq(1 .. MaxBytes) /\ src \in Seq(0 .. MaxBytes)
    BY <1>2, Numbers
  <2> HIDE DEF Tokens
  <2> QED BY <1>1, <1>2, <1>3, <1>5, <1>8, <2>1, SizeAssumption DEF TypeOK, Items
<1>10. BlocksFit' /\ StopOK' /\ IdleOK'
  BY <1>1, <1>8 DEF BlocksFit, StopOK, IdleOK
<1>11. PlaceOK'
  <2>1. Len(out)' % Items' = Cur' % Items'
    BY <1>4, <1>6
  <2>2. Start' \in Nat /\ Start' % RecordSize' = 0
    BY <1>6, <1>7
  <2>3. Cur' <= Items'
    BY <1>3, <1>6
  <2> QED BY <2>1, <2>2, <2>3 DEF PlaceOK
<1>12. WalkOK' /\ CharOK'
  BY <1>1, <1>2, <1>3, <1>6 DEF WalkOK, CharOK, InCall
<1>13. BytesOK' /\ SourceOK' /\ CutOK'
  BY <1>1, <1>5, <1>8 DEF BytesOK, SourceOK, CutOK, Follows, InCall
<1> QED BY <1>4, <1>9, <1>10, <1>11, <1>12, <1>13 DEF IInv

\* The client sends the block out.
LEMMA FlushStep ==
    ASSUME IInv, Flush
    PROVE  IInv' /\ out' = out
<1>1. /\ schema' = schema /\ given' = given /\ Skip' = Skip /\ Buf' = Buf /\ Block' = <<>>
      /\ file' = Append(file, Block) /\ pc = "idle" /\ pc' = "idle" /\ wr' = wr
      /\ xsrc' = xsrc /\ src' = src /\ skip' = skip /\ wqty' = wqty /\ r' = r /\ pos' = pos
      /\ Used > 0
  BY DEF Flush, call
<1>2. TypeOK /\ BlocksFit /\ PlaceOK /\ WalkOK /\ CharOK /\ BytesOK /\ SourceOK /\ CutOK /\ IdleOK
  BY DEF IInv
<1>3. /\ Items' = Items /\ Offset' = Offset /\ RecordSize' = RecordSize
      /\ PrimitiveEnds' = PrimitiveEnds /\ Tokens' = Tokens
      /\ (Binary' <=> Binary) /\ (Single' <=> Single)
  BY <1>1, SameSchema
<1>4. out' = out /\ Taken' = Taken /\ Cur' = Cur /\ Start' = Start
  <2>1. out' = out /\ Taken' = Taken
    BY <1>1, <1>2, OutFlushed
  <2>2. Cur' = Cur
    BY <1>1 DEF Cur
  <2> QED BY <1>3, <2>1, <2>2 DEF Start
<1>5. TypeOK'
  <2>1. SizeOf(Block)' = 0
    <3>1. [n \in DOMAIN <<>> |-> schema'[<<>>[n].item].out] = <<>>
      BY EmptySeq
    <3> QED BY <1>1, <3>1, TotalEmpty DEF SizeOf
  <2>2. Used' <= BlockSize
    BY <2>1, SizeAssumption DEF Used
  <2> HIDE DEF Tokens
  <2>3. Block' \in Seq(Tokens) /\ file' \in Seq(Seq(Tokens))
    BY <1>1, <1>2, EmptySeq, AppendProperties DEF TypeOK
  <2> QED BY <1>1, <1>2, <1>3, <2>2, <2>3 DEF TypeOK, Items
<1>6. BlocksFit'
  BY <1>1, <1>2, FitsMore
<1>7. PlaceOK' /\ WalkOK' /\ CharOK'
  BY <1>1, <1>2, <1>3, <1>4 DEF PlaceOK, WalkOK, CharOK, InCall, Items
<1>8. BytesOK' /\ SourceOK' /\ StopOK'
  BY <1>1, <1>2, <1>4 DEF BytesOK, SourceOK, StopOK, Follows, InCall
<1>9. (Inside' <=> Inside)
  BY <1>1, <1>3, <1>4 DEF Inside
<1>10. CutOK' /\ IdleOK'
  BY <1>1, <1>2, <1>3, <1>4, <1>9 DEF CutOK, IdleOK
<1> QED BY <1>4, <1>5, <1>6, <1>7, <1>8, <1>10 DEF IInv

\* Between two calls the bytes given end inside the next primitive, if any are carried.
LEMMA CarriedIsInside ==
    ASSUME TypeOK, PlaceOK, WalkOK, BytesOK, CutOK, pc = "idle", Buf # <<>>,
           NEW n \in 1 .. MaxBytes, CopiedChunk(n)
    PROVE  \/ given + n < Start + Offset[Skip + 1]
           \/ /\ AtEnd(given + n) /\ given + n <= Start + RecordSize
              /\ Binary \/ Single \/ given + n <= Start + Offset[Skip + 1]
<1>1. /\ Start \in Nat /\ Start % RecordSize = 0 /\ RecordSize \in Nat \ {0}
      /\ Taken = Start + Offset[Skip] /\ Offset[Skip] \in Nat /\ given \in Nat
      /\ Skip \in 0 .. Items /\ Skip < Items /\ MaxBytes \in Nat /\ Items \in Nat
  <2>1. Cur = Skip
    BY DEF Cur
  <2> QED BY <2>1, PlaceFacts, Numbers, ItemFacts DEF WalkOK
<1>2. given = Taken + Len(Buf) /\ Len(Buf) \in Nat /\ given < Start + Offset[Skip + 1]
  BY Numbers DEF BytesOK, CutOK, Inside
<1>3. /\ Offset[Skip + 1] \in Nat /\ Offset[Skip + 1] <= RecordSize
      /\ Offset[Skip + 1] \in PrimitiveEnds
  <2>1. Skip + 1 \in 0 .. Items
    BY <1>1
  <2> QED BY <1>1, <2>1, NextOffset, EndFacts
<1> DEFINE g == given - Start
           y == given + n
           e == Offset[Skip + 1]
<1>4. g \in 0 .. RecordSize - 1 /\ given = Start + g /\ g < e /\ y \in Nat /\ y - 1 \in Nat
  <2>1. n \in Nat /\ n > 0
    BY <1>1
  <2>2. given >= Start /\ given < Start + e /\ e \in Nat /\ e <= RecordSize
    BY <1>1, <1>2, <1>3, SMTT(30)
  <2> HIDE DEF e
  <2> QED BY <1>1, <2>1, <2>2
<1> HIDE DEF g
<1>5. given % RecordSize = g /\ given \div RecordSize = Start \div RecordSize
  <2>1. RecordSize \in Nat \ {0} /\ Start \in Nat /\ Start % RecordSize = 0
    BY <1>1
  <2>2. g \in 0 .. RecordSize - 1 /\ given = Start + g
    BY <1>4
  <2> QED BY <2>1, <2>2, ModAhead, ZenonT(30)
<1>6. ASSUME NEW z \in Nat, given <= z, SamePrimitive(given, z)
      PROVE  z < Start + e
  <2>1. z \div RecordSize = Start \div RecordSize
    BY <1>5, <1>6 DEF SamePrimitive
  <2>2. z = Start + (z % RecordSize) /\ z % RecordSize \in 0 .. RecordSize - 1
    BY <1>1, <1>4, <1>6, <2>1, ModSame
  <2>3. ~(g < e /\ e <= z % RecordSize)
    BY <1>3, <1>5, <1>6 DEF SamePrimitive
  <2> HIDE DEF e
  <2>4. z < Start + e
    BY <1>1, <1>3, <1>4, <2>2, <2>3, SMTT(30) DEF e
  <2> QED BY <2>4
<1>7. given <= y /\ given <= y - 1 /\ y - 1 = given + n - 1
  BY <1>1
<1>8. CASE SamePrimitive(given, y)
  BY <1>4, <1>6, <1>7, <1>8
<1>9. CASE /\ AtEnd(y) /\ (given + n - 1) \div RecordSize = given \div RecordSize
           /\ Binary \/ Single \/ SamePrimitive(given, given + n - 1)
  <2>1. (y - 1) \div RecordSize = Start \div RecordSize
    BY <1>5, <1>7, <1>9
  <2>2. /\ y - 1 = Start + ((y - 1) % RecordSize)
        /\ (y - 1) % RecordSize \in 0 .. RecordSize - 1
    BY <1>1, <1>4, <2>1, ModSame
  <2>3. y <= Start + RecordSize
    BY <1>1, <1>4, <2>2
  <2>4. ASSUME SamePrimitive(given, given + n - 1) PROVE y <= Start + e
    <3>1. y - 1 < Start + e
      BY <1>4, <1>6, <1>7, <2>4
    <3> HIDE DEF y, e
    <3> QED BY <1>1, <1>3, <1>4, <3>1 DEF e
  <2> QED BY <1>9, <2>3, <2>4
<1>10. \/ SamePrimitive(given, given + n)
       \/ /\ AtEnd(given + n) /\ (given + n - 1) \div RecordSize = given \div RecordSize
          /\ Binary \/ Single \/ SamePrimitive(given, given + n - 1)
  BY Zenon DEF CopiedChunk
<1> QED BY <1>8, <1>9, <1>10

\* The client gives n bytes.
LEMMA GiveStep ==
    ASSUME IInv, Chunks = "copied", NEW n \in 1 .. MaxBytes, Give(n)
    PROVE  IInv' /\ out' = out
<1> DEFINE X == [k \in 1 .. n |-> given + k]
<1>1. /\ schema' = schema /\ given' = given + n /\ Skip' = Skip /\ Buf' = Buf /\ Block' = Block
      /\ file' = file /\ pc = "idle" /\ pc' = "fill" /\ wr' = wr
      /\ xsrc' = X /\ src' = X /\ skip' = skip /\ wqty' = wqty /\ r' = r /\ pos' = pos
      /\ given + n <= MaxBytes /\ CopiedChunk(n)
  BY DEF Give
<1>2. TypeOK /\ BlocksFit /\ PlaceOK /\ WalkOK /\ CharOK /\ BytesOK /\ CutOK
  BY DEF IInv
<1>3. /\ Items' = Items /\ Offset' = Offset /\ RecordSize' = RecordSize
      /\ PrimitiveEnds' = PrimitiveEnds /\ Tokens' = Tokens
      /\ (Binary' <=> Binary) /\ (Single' <=> Single)
  BY <1>1, SameSchema
<1>4. out' = out /\ Taken' = Taken /\ Cur' = Cur /\ Start' = Start
  <2>1. out' = out
    BY <1>1 DEF out
  <2>2. Taken' = Taken
    BY <2>1 DEF Taken
  <2>3. Cur' = Cur
    BY <1>1 DEF Cur
  <2> QED BY <1>3, <2>1, <2>2, <2>3 DEF Start
<1>5. given \in Nat /\ n \in Nat /\ n > 0 /\ MaxBytes \in Nat
  BY <1>2, Numbers, ItemFacts
<1>6. X \in Seq(1 .. MaxBytes) /\ X \in Seq(0 .. MaxBytes) /\ Len(X) = n
  <2>1. \A k \in 1 .. n : given + k \in 1 .. MaxBytes /\ given + k \in 0 .. MaxBytes
    BY <1>1, <1>5
  <2> QED BY <1>5, <2>1
<1>7. \A k \in 1 .. n : X[k] = given + k
  OBVIOUS
<1> HIDE DEF X
<1>8. TypeOK'
  <2>1. Used' = Used
    BY <1>1 DEF Used, SizeOf
  <2>2. given' \in 0 .. MaxBytes
    BY <1>1, <1>5
  <2> HIDE DEF Tokens
  <2> QED BY <1>1, <1>2, <1>3, <1>6, <2>1, <2>2 DEF TypeOK, Items
<1>9. BlocksFit'
  BY <1>1, <1>2 DEF BlocksFit, SizeOf
<1>10. PlaceOK' /\ WalkOK' /\ CharOK'
  BY <1>1, <1>2, <1>3, <1>4 DEF PlaceOK, WalkOK, CharOK, InCall, Items
<1>11. given = Taken + Len(Buf) /\ Len(Buf) \in Nat /\ Taken \in Nat /\ Follows(Buf, Taken)
  BY <1>1, <1>2, Numbers, OutFacts DEF BytesOK
<1>12. BytesOK'
  <2>1. Follows(X, given)
    BY <1>6, <1>7 DEF Follows
  <2>2. given' = Taken' + Len(Buf') + Len(xsrc') /\ given' > Taken' /\ given = Taken' + Len(Buf')
    BY <1>1, <1>4, <1>5, <1>6, <1>11
  <2>3. Follows(xsrc', Taken' + Len(Buf'))
    BY <1>1, <2>1, <2>2
  <2>4. Follows(Buf', Taken')
    BY <1>1, <1>4, <1>11
  <2>5. BytesOK' = (Follows(Buf', Taken') /\ Follows(xsrc', Taken' + Len(Buf'))
                    /\ given' = Taken' + Len(Buf') + Len(xsrc') /\ given' > Taken')
    BY <1>1 DEF BytesOK, Follows, InCall
  <2> QED BY <2>2, <2>3, <2>4, <2>5
<1>13. SourceOK'
  <2>1. Buf # <<>> => Len(Buf) + n <= BufSize
    BY <1>1 DEF CopiedChunk
  <2>2. X # <<>>
    BY <1>5, <1>6, EmptySeq
  <2> QED BY <1>1, <1>6, <2>1, <2>2 DEF SourceOK, InCall
<1>14. CutOK'
  <2>1. Buf # <<>> => \/ given + n < Start + Offset[Skip + 1]
                      \/ /\ AtEnd(given + n) /\ given + n <= Start + RecordSize
                         /\ Binary \/ Single \/ given + n <= Start + Offset[Skip + 1]
    BY <1>1, <1>2, CarriedIsInside
  <2>2. AtEnd(given)' <=> AtEnd(given + n)
    BY <1>1, <1>3 DEF AtEnd
  <2>3. Inside' <=> given + n < Start + Offset[Skip + 1]
    BY <1>1, <1>3, <1>4 DEF Inside
  <2>4. ToEnd' <=> /\ AtEnd(given + n) /\ given + n <= Start + RecordSize
                   /\ Binary \/ Single \/ given + n <= Start + Offset[Skip + 1]
    BY <1>1, <1>3, <1>4, <2>2 DEF ToEnd
  <2> QED BY <1>1, <2>1, <2>3, <2>4 DEF CutOK
<1>15. StopOK' /\ IdleOK'
  BY <1>1 DEF StopOK, IdleOK
<1> QED BY <1>4, <1>8, <1>9, <1>10, <1>12, <1>13, <1>14, <1>15 DEF IInv

\* A walk starts with the bytes carried and those given.
LEMMA FillStep ==
    ASSUME IInv, Fill
    PROVE  IInv' /\ out' = out
<1>1. /\ schema' = schema /\ given' = given /\ Skip' = Skip /\ Block' = Block
      /\ file' = file /\ pc = "fill" /\ pc' = "walk" /\ wr' = wr
      /\ skip' = Skip /\ wqty' = 0 /\ r' = 0 /\ pos' = 1
  BY DEF Fill
<1>2. TypeOK /\ BlocksFit /\ PlaceOK /\ WalkOK /\ CharOK /\ BytesOK /\ SourceOK /\ CutOK
  BY DEF IInv
<1>3. /\ Items' = Items /\ Offset' = Offset /\ RecordSize' = RecordSize
      /\ PrimitiveEnds' = PrimitiveEnds /\ Tokens' = Tokens
      /\ (Binary' <=> Binary) /\ (Single' <=> Single)
  BY <1>1, SameSchema
<1>4. /\ Skip \in 0 .. Items /\ Items \in Nat \ {0} /\ Taken \in Nat /\ Cur = Skip
      /\ Len(Buf) \in Nat /\ Len(xsrc) \in Nat /\ BufSize \in Nat /\ MaxBytes \in Nat
      /\ Buf \in Seq(0 .. MaxBytes) /\ xsrc \in Seq(0 .. MaxBytes) /\ Offset[Skip] \in Nat
      /\ xsrc \in Seq(1 .. MaxBytes)
  BY <1>1, <1>2, Numbers, ItemFacts, OutFacts, PlaceFacts DEF Cur
<1>5. out' = out /\ Taken' = Taken /\ Cur' = Cur /\ Start' = Start
  <2>1. out' = out
    BY <1>1 DEF out
  <2>2. Taken' = Taken
    BY <2>1 DEF Taken
  <2>3. Cur' = Cur
    BY <1>1, <1>4 DEF Cur
  <2> QED BY <1>3, <2>1, <2>2, <2>3 DEF Start
<1>6. /\ Follows(Buf, Taken) /\ Follows(xsrc, Taken + Len(Buf))
      /\ given = Taken + Len(Buf) + Len(xsrc) /\ given > Taken
  BY <1>1, <1>2 DEF BytesOK
<1>7. /\ Buf' \in Seq(0 .. MaxBytes) /\ Len(Buf') <= BufSize /\ (Buf' = <<>> <=> Buf = <<>>)
      /\ xsrc' \in Seq(1 .. MaxBytes) /\ src' \in Seq(0 .. MaxBytes)
      /\ Follows(src', Taken) /\ given = Taken + Len(src')
      /\ Buf # <<>> => xsrc' = <<>> /\ src' = Buf'
      /\ Buf = <<>> => xsrc' = src' /\ Buf' = <<>>
  <2>1. CASE Buf = <<>>
    <3>1. Buf' = Buf /\ src' = xsrc /\ xsrc' = xsrc
      BY <2>1 DEF Fill
    <3>2. Len(Buf) = 0
      BY <2>1, EmptySeq
    <3>3. Taken + Len(Buf) = Taken /\ Len(Buf) <= BufSize
      BY <1>4, <3>2
    <3> QED BY <1>4, <1>6, <2>1, <3>1, <3>3
  <2>2. CASE Buf # <<>>
    <3>1. Len(Buf) + Len(xsrc) <= BufSize /\ (xsrc = <<>> => src = Buf) /\ Len(Buf) # 0
      BY <1>1, <1>2, <2>2, Numbers DEF SourceOK
    <3>2. ~(BufSize - Len(Buf) < Len(xsrc))
      BY <1>4, <3>1
    <3> DEFINE n == Len(xsrc)
    <3>3. /\ Buf' = Buf \o SubSeq(xsrc, 1, n) /\ xsrc' = Dropped(xsrc, n)
          /\ src' = IF n > 0 THEN Buf' ELSE src
      BY <2>2, <3>2 DEF Fill
    <3>4. SubSeq(xsrc, 1, n) = xsrc
      BY <1>4
    <3>5. Buf' = Buf \o xsrc
      BY <3>3, <3>4
    <3>6. /\ Buf' \in Seq(0 .. MaxBytes) /\ Len(Buf') = Len(Buf) + Len(xsrc)
          /\ \A k \in 1 .. Len(Buf) + Len(xsrc) :
               Buf'[k] = IF k <= Len(Buf) THEN Buf[k] ELSE xsrc[k - Len(Buf)]
      BY <1>4, <3>5, ConcatProperties
    <3>7. xsrc' = <<>>
      <4>1. n \in 0 .. Len(xsrc) /\ Len(xsrc) - n = 0
        BY <1>4
      <4>2. xsrc' \in Seq(1 .. MaxBytes) /\ Len(xsrc') = 0
        <5>1. Dropped(xsrc, n) \in Seq(1 .. MaxBytes) /\ Len(Dropped(xsrc, n)) = Len(xsrc) - n
          BY <1>4, <4>1, DroppedIs
        <5> QED BY <3>3, <4>1, <5>1
      <4> QED BY <4>2, EmptyLen
    <3>8. src' = Buf'
      <4>1. CASE n > 0
        BY <3>3, <4>1
      <4>2. CASE ~(n > 0)
        <5>1. xsrc = <<>>
          BY <1>4, <4>2, EmptyLen
        <5>2. Buf \o <<>> = Buf
          BY <1>4, ConcatEmptySeq
        <5> QED BY <3>1, <3>3, <3>5, <4>2, <5>1, <5>2
      <4> QED BY <4>1, <4>2
    <3>9. Follows(Buf', Taken)
      <4> SUFFICES ASSUME NEW k \in 1 .. Len(Buf) + Len(xsrc) PROVE Buf'[k] = Taken + k
        BY <3>6 DEF Follows
      <4>1. CASE k <= Len(Buf)
        <5>1. k \in 1 .. Len(Buf)
          BY <1>4, <4>1
        <5> QED BY <1>6, <3>6, <4>1, <5>1 DEF Follows
      <4>2. CASE ~(k <= Len(Buf))
        <5>1. k - Len(Buf) \in 1 .. Len(xsrc)
          BY <1>4, <4>2
        <5>2. Buf'[k] = (Taken + Len(Buf)) + (k - Len(Buf))
          BY <1>6, <3>6, <4>2, <5>1 DEF Follows
        <5> QED BY <1>4, <5>2
      <4> QED BY <4>1, <4>2
    <3>10. <<>> \in Seq(1 .. MaxBytes)
      BY EmptySeq
    <3>11. Len(Buf') <= BufSize /\ Len(Buf') # 0 /\ given = Taken + Len(Buf')
      BY <1>4, <1>6, <3>1, <3>6
    <3> HIDE DEF n
    <3>12. Buf' # <<>>
      BY <3>11, EmptySeq
    <3> QED BY <2>2, <3>6, <3>7, <3>8, <3>9, <3>10, <3>11, <3>12
  <2> QED BY <2>1, <2>2
<1>8. TypeOK'
  <2>1. Used' = Used
    BY <1>1 DEF Used, SizeOf
  <2>2. Skip \in 0 .. Skip /\ 0 \in 0 .. Items /\ 1 \in 1 .. Items + 1 /\ 0 \in 0 .. MaxBytes
    BY <1>4
  <2> HIDE DEF Tokens
  <2> QED BY <1>1, <1>2, <1>3, <1>7, <2>1, <2>2 DEF TypeOK, Items
<1>9. BlocksFit'
  BY <1>1, <1>2 DEF BlocksFit, SizeOf
<1>10. PlaceOK'
  BY <1>1, <1>2, <1>3, <1>5 DEF PlaceOK, Items
<1>11. WalkOK'
  <2>1. Skip - Skip = 0 /\ Offset[Skip] - Offset[Skip] = 0
    BY <1>4
  <2> QED BY <1>1, <1>2, <1>3, <1>4, <1>5, <2>1 DEF WalkOK, InCall, Items
<1>12. CharOK'
  BY <1>1, <1>2, <1>3 DEF CharOK
<1>13. BytesOK'
  BY <1>1, <1>5, <1>7 DEF BytesOK, Follows, InCall
<1>14. SourceOK'
  <2>1. Len(src') \in Nat /\ r' + Len(src') = Len(src') /\ Taken' - r' = Taken
    <3>1. Len(src') \in Nat
      BY <1>7, LenProperties
    <3> QED BY <1>1, <1>4, <1>5, <3>1
  <2>2. Len(src') > 0
    BY <1>4, <1>6, <1>7, <2>1
  <2>3. IF Buf' # <<>> THEN xsrc' = <<>> /\ r' + Len(src') = Len(Buf')
        ELSE r' + Len(src') = Len(xsrc') /\ Follows(xsrc', Taken' - r')
    BY <1>7, <2>1
  <2>4. r' + Len(src') > 0
    BY <2>1, <2>2
  <2> QED BY <1>1, <2>3, <2>4 DEF SourceOK, Follows
<1>15. CutOK'
  <2>1. (Inside' <=> Inside) /\ (ToEnd' <=> ToEnd)
    BY <1>1, <1>3, <1>5 DEF Inside, ToEnd, AtEnd
  <2> QED BY <1>1, <1>2, <1>7, <2>1 DEF CutOK
<1>16. StopOK' /\ IdleOK'
  BY <1>1 DEF StopOK, IdleOK
<1> QED BY <1>5, <1>8, <1>9, <1>10, <1>11, <1>12, <1>13, <1>14, <1>15, <1>16 DEF IInv

-----------------------------------------------------------------------------
(* The end of a walk *)

\* The walk has stopped: where, and what is left.
LEMMA StopFacts ==
    ASSUME IInv, pc = "settle"
    PROVE  /\ wr = "no" => skip = 0 /\ Cur = Items
           /\ wr # "no" => /\ skip = 0 /\ Cur = pos - 1 /\ pos \in 1 .. Items
                           /\ Cur \in 0 .. Items - 1
                           /\ Offset[pos] = Offset[Cur] + schema[pos].src
                           /\ schema[pos].src \in Nat /\ schema[pos].src <= BufSize
           /\ wr = "src" => /\ schema[pos].kind # "sep" /\ Len(src) < schema[pos].src
                            /\ given < Start + Offset[pos]
           /\ wr = "dst" =>
                \/ schema[pos].kind = "sep" /\ ~Binary
                \/ /\ schema[pos].kind = "char" /\ Binary /\ r = 0
                   /\ Len(src) >= schema[pos].src /\ Len(src) > 0
           /\ wr = "dst" => Used > 0
           /\ given = Taken + Len(src) /\ Taken = Start + Offset[Cur] /\ Skip + wqty = Cur
           /\ Skip <= Cur /\ r = Offset[Cur] - Offset[Skip]
<1>1. TypeOK /\ PlaceOK /\ WalkOK /\ CharOK /\ BytesOK /\ StopOK /\ InCall
  BY DEF IInv, InCall
<1>2. /\ Items \in Nat \ {0} /\ pos \in 1 .. Items + 1 /\ Skip \in 0 .. Items /\ skip \in 0 .. Skip
      /\ wqty \in Nat /\ Len(src) \in Nat /\ Start \in Nat /\ Cur \in 0 .. Items
      /\ Offset[Cur] \in Nat /\ Offset[Skip] \in Nat /\ Taken = Start + Offset[Cur]
  BY <1>1, Numbers, ItemFacts, PlaceFacts
<1>3. given = Taken + Len(src) /\ wqty = Cur - Skip /\ r = Offset[Cur] - Offset[Skip]
  BY <1>1 DEF BytesOK, WalkOK
<1>4. Skip + wqty = Cur /\ Skip <= Cur
  BY <1>2, <1>3
<1>5. wr = "no" => skip = 0 /\ Cur = Items
  <2>1. wr = "no" => pos = Items + 1 /\ Cur = pos - 1 + skip /\ Cur <= Items
    BY <1>1 DEF StopOK, PlaceOK, Cur, InCall
  <2> QED BY <1>2, <2>1
<1>6. wr # "no" => /\ skip = 0 /\ Cur = pos - 1 /\ pos \in 1 .. Items
                   /\ Cur \in 0 .. Items - 1
                   /\ Offset[pos] = Offset[Cur] + schema[pos].src
                   /\ schema[pos].src \in Nat /\ schema[pos].src <= BufSize
  BY <1>1, AtItem DEF StopOK
<1>7. wr = "src" => /\ schema[pos].kind # "sep" /\ Len(src) < schema[pos].src
                    /\ given < Start + Offset[pos]
  <2> SUFFICES ASSUME wr = "src"
               PROVE  /\ schema[pos].kind # "sep" /\ Len(src) < schema[pos].src
                      /\ given < Start + Offset[pos]
    OBVIOUS
  <2>1. Len(src) < schema[pos].src
    BY <1>1 DEF StopOK
  <2>2. schema[pos].kind # "sep"
    <3>1. schema[pos].src # 0
      BY <1>2, <1>6, <2>1
    <3> QED BY <1>1, <1>6, <3>1, ItemFacts
  <2> DEFINE t == schema[pos].src
  <2>3. t \in Nat /\ Offset[pos] = Offset[Cur] + t /\ Len(src) < t
    BY <1>6, <2>1
  <2> HIDE DEF t
  <2>4. given < Start + Offset[pos]
    BY <1>2, <1>3, <2>3, SMTT(30)
  <2> QED BY <2>1, <2>2, <2>4
<1>8. wr = "dst" => /\ schema[pos].need > Room /\ schema[pos].kind # "prim"
                    /\ schema[pos].kind = "char" => Len(src) >= schema[pos].src
                    /\ schema[pos].need \in 0 .. BlockSize
                    /\ schema[pos].kind \in {"sep", "prim", "char"}
                    /\ schema[pos].kind = "sep" <=> schema[pos].src = 0
  BY <1>1, <1>6, ItemFacts DEF StopOK
<1>9. Room \in Nat /\ Used \in Nat /\ Room = BlockSize - Used /\ BlockSize \in Nat
  BY <1>1, OutFacts, ItemFacts DEF Room
<1>10. wr = "dst" => Used > 0
  BY <1>8, <1>9
<1>11. wr = "dst" =>
         \/ schema[pos].kind = "sep" /\ ~Binary
         \/ /\ schema[pos].kind = "char" /\ Binary /\ r = 0
            /\ Len(src) >= schema[pos].src /\ Len(src) > 0
  <2> SUFFICES ASSUME wr = "dst"
               PROVE  \/ schema[pos].kind = "sep" /\ ~Binary
                      \/ /\ schema[pos].kind = "char" /\ Binary /\ r = 0
                         /\ Len(src) >= schema[pos].src /\ Len(src) > 0
    OBVIOUS
  <2>1. CASE schema[pos].kind = "sep"
    <3>1. schema[pos].need # 0
      BY <1>8, <1>9
    <3> QED BY <1>1, <1>6, <2>1, <3>1, BinaryFacts
  <2>2. CASE schema[pos].kind = "char"
    <3>1. Binary
      BY <1>1, <1>6, <2>2, BinaryFacts
    <3>2. Cur < pos
      BY <1>2, <1>6
    <3>3. r = 0
      BY <1>1, <1>6, <2>2, <3>2 DEF CharOK
    <3>4. Len(src) >= schema[pos].src /\ schema[pos].src # 0
      BY <1>8, <2>2
    <3> QED BY <1>2, <1>6, <2>2, <3>1, <3>3, <3>4
  <2> QED BY <1>8, <2>1, <2>2
<1> QED BY <1>2, <1>3, <1>4, <1>5, <1>6, <1>7, <1>10, <1>11

\* Where single separators stand between the primitives, a walk that has read a
\* primitive does not stop at the separator before the next.
LEMMA NoStopBetween ==
    ASSUME IInv, pc = "settle", wr = "dst", Single, schema[pos].kind = "sep", r # 0,
           given <= Start + RecordSize
    PROVE  src = <<>>
<1> SUFFICES ASSUME src # <<>> PROVE FALSE
  OBVIOUS
<1>1. TypeOK /\ PlaceOK /\ WalkOK /\ StopOK /\ InCall
  BY DEF IInv, InCall
<1>2. /\ Items \in Nat \ {0} /\ Skip \in 0 .. Items /\ Len(src) \in Nat \ {0}
      /\ Start \in Nat /\ Offset[Cur] \in Nat /\ Offset[Skip] \in Nat /\ RecordSize \in Nat
  BY <1>1, Numbers, ItemFacts, PlaceFacts
<1>3. /\ Cur = pos - 1 /\ pos \in 1 .. Items /\ Offset[pos] = Offset[Cur] + schema[pos].src
      /\ given = Taken + Len(src) /\ Taken = Start + Offset[Cur] /\ Skip + wqty = Cur
      /\ Skip <= Cur /\ r = Offset[Cur] - Offset[Skip]
  BY StopFacts
<1>4. /\ schema[pos].src = 0 /\ schema[pos].need > Room
      /\ Room \in Nat /\ schema[pos].need \in Nat
  BY <1>1, <1>3, ItemFacts, HereFacts DEF StopOK
<1>5. 0 < Offset[pos] /\ Offset[pos] < RecordSize
  <2>1. r \in Nat
    BY <1>1, Numbers
  <2> QED BY <1>2, <1>3, <1>4, <2>1, SMTT(30)
<1>6. /\ schema[pos - 1].kind = "prim"
      /\ schema[pos - 1].out + schema[pos].need <= schema[pos - 1].need
  BY <1>3, <1>5 DEF Single, Offset, Items
<1>7. wqty > 0
  <2>1. wqty \in Nat /\ Cur # Skip
    BY <1>1, <1>2, <1>3, Numbers
  <2>2. wqty # 0
    BY <1>2, <1>3, <2>1
  <2> QED BY <2>1, <2>2
<1>8. schema[pos - 1].need - schema[pos - 1].out <= Room
  BY <1>1, <1>6, <1>7 DEF WalkOK
<1>9. pos - 1 \in 1 .. Items
  BY <1>2, <1>3, <1>7
<1>10. schema[pos - 1].need \in Nat /\ schema[pos - 1].out \in Nat
  BY <1>1, <1>9, ItemFacts
<1> QED BY <1>4, <1>6, <1>8, <1>10

\* When carried bytes are walked over, the walk has read none of them, or all.
LEMMA CarriedAllOrNone ==
    ASSUME IInv, pc = "settle", Buf # <<>>
    PROVE  r = 0 \/ src = <<>>
<1>1. TypeOK /\ PlaceOK /\ WalkOK /\ CutOK /\ wr \in {"no", "src", "dst"}
  BY DEF IInv, TypeOK
<1>2. /\ Items \in Nat \ {0} /\ Skip \in 0 .. Items /\ Skip < Items /\ Len(src) \in Nat
      /\ (src = <<>> <=> Len(src) = 0) /\ Start \in Nat /\ Cur \in 0 .. Items
      /\ Offset[Cur] \in Nat /\ Offset[Skip] \in Nat
      /\ RecordSize \in Nat /\ RecordSize = Offset[Items]
  BY <1>1, Numbers, ItemFacts, PlaceFacts, OffsetFacts DEF WalkOK
<1>3. /\ given = Taken + Len(src) /\ Taken = Start + Offset[Cur]
      /\ Skip <= Cur /\ r = Offset[Cur] - Offset[Skip]
  BY StopFacts
<1>4. \/ given < Start + Offset[Skip + 1]
      \/ /\ AtEnd(given) /\ given <= Start + RecordSize
         /\ Binary \/ Single \/ given <= Start + Offset[Skip + 1]
  BY <1>1 DEF CutOK, Inside, ToEnd
<1>5. Skip + 1 \in 0 .. Items /\ Offset[Skip + 1] \in Nat
  BY <1>1, <1>2, NextOffset
<1>6. CASE given < Start + Offset[Skip + 1]
  <2>1. Skip + 1 <= Cur => Offset[Skip + 1] <= Offset[Cur]
    BY <1>1, <1>2, <1>5, OffsetFacts
  <2>2. ~(Skip + 1 <= Cur)
    BY <1>2, <1>3, <1>5, <1>6, <2>1, SMTT(30)
  <2>3. Cur = Skip
    BY <1>2, <1>3, <2>2
  <2> QED BY <1>2, <1>3, <2>3
<1>7. CASE /\ AtEnd(given) /\ given <= Start + RecordSize
           /\ Binary \/ Single \/ given <= Start + Offset[Skip + 1]
  <2>1. CASE wr = "no"
    <3>1. Offset[Cur] = RecordSize
      BY <1>2, <2>1, StopFacts
    <3> QED BY <1>2, <1>3, <1>7, <3>1
  <2>2. CASE wr = "src"
    <3>1. Cur < Items /\ given < Start + Offset[Cur + 1]
      <4>1. Cur = pos - 1 /\ pos \in 1 .. Items /\ given < Start + Offset[pos]
        BY <2>2, StopFacts
      <4>2. Cur + 1 = pos /\ Cur < Items
        BY <1>2, <4>1
      <4> QED BY <4>1, <4>2
    <3>2. Taken <= given
      BY <1>2, <1>3
    <3>3. given = Taken
      BY <1>1, <1>7, <3>1, <3>2, EndsHere
    <3> QED BY <1>2, <1>3, <3>3
  <2>3. CASE wr = "dst"
    <3>1. /\ Cur = pos - 1 /\ pos \in 1 .. Items /\ Offset[pos] = Offset[Cur] + schema[pos].src
          /\ (schema[pos].kind = "sep" /\ ~Binary) \/ r = 0
      BY <2>3, StopFacts
    <3>2. CASE Single /\ schema[pos].kind = "sep" /\ r # 0
      BY <1>1, <1>2, <1>7, <2>3, <3>2, NoStopBetween
    <3>3. CASE given <= Start + Offset[Skip + 1]
      <4>1. Skip + 1 <= Cur => Offset[Skip + 1] <= Offset[Cur]
        BY <1>1, <1>2, <1>5, OffsetFacts
      <4>2. Skip + 1 <= Cur => Len(src) = 0
        BY <1>2, <1>3, <1>5, <3>3, <4>1, SMTT(30)
      <4>3. ~(Skip + 1 <= Cur) => Cur = Skip
        BY <1>2, <1>3
      <4> QED BY <1>2, <1>3, <4>2, <4>3
    <3> QED BY <1>7, <3>1, <3>2, <3>3
  <2> QED BY <1>1, <2>1, <2>2, <2>3
<1> QED BY <1>4, <1>6, <1>7

\* What is left to read goes to Buf if it was carried, and stays in xsrc otherwise.
LEMMA SettleFacts ==
    ASSUME IInv, pc = "settle"
    PROVE  /\ Code = wr
           /\ Settled.Buf \in Seq(0 .. MaxBytes) /\ Len(Settled.Buf) <= BufSize
           /\ Settled.xsrc \in Seq(1 .. MaxBytes) /\ Settled.src \in Seq(0 .. MaxBytes)
           /\ Follows(Settled.src, Taken) /\ Len(Settled.src) = Len(src)
           /\ Buf = <<>> => Settled.Buf = <<>> /\ Settled.xsrc = Settled.src
           /\ Buf # <<>> => Settled.xsrc = <<>> /\ Settled.Buf = Settled.src
<1>1. TypeOK /\ BytesOK /\ SourceOK /\ InCall
  BY DEF IInv, InCall
<1>2. /\ Len(Buf) \in Nat /\ Len(src) \in Nat /\ Len(xsrc) \in Nat /\ r \in Nat
      /\ Taken \in Nat /\ MaxBytes \in Nat /\ BufSize \in Nat /\ Len(Buf) <= BufSize
      /\ src \in Seq(0 .. MaxBytes) /\ (src = <<>> <=> Len(src) = 0)
      /\ xsrc \in Seq(1 .. MaxBytes) /\ xsrc \in Seq(0 .. MaxBytes)
  BY <1>1, Numbers, OutFacts, ItemFacts
<1>3. Follows(src, Taken)
  BY <1>1 DEF BytesOK
<1>4. CASE Buf = <<>>
  <2>1. r + Len(src) = Len(xsrc) /\ Follows(xsrc, Taken - r)
    BY <1>1, <1>4 DEF SourceOK
  <2> DEFINE d == Dropped(xsrc, r)
  <2>2. Settled.Buf = <<>> /\ Settled.xsrc = d /\ Settled.src = d /\ Code = wr
    BY <1>4 DEF Settled, Code
  <2>3. r \in 0 .. Len(xsrc) /\ Len(xsrc) - r = Len(src)
    BY <1>2, <2>1
  <2>4. /\ d \in Seq(1 .. MaxBytes) /\ d \in Seq(0 .. MaxBytes) /\ Len(d) = Len(src)
        /\ \A k \in 1 .. Len(src) : d[k] = xsrc[r + k]
    BY <1>2, <2>3, DroppedIs
  <2> HIDE DEF d
  <2>5. Follows(d, Taken)
    <3> SUFFICES ASSUME NEW k \in 1 .. Len(src) PROVE d[k] = Taken + k
      BY <2>4 DEF Follows
    <3>1. r + k \in 1 .. Len(xsrc)
      BY <1>2, <2>1
    <3>2. d[k] = (Taken - r) + (r + k)
      BY <2>1, <2>4, <3>1 DEF Follows
    <3> QED BY <1>2, <3>2
  <2>6. <<>> \in Seq(0 .. MaxBytes) /\ Len(<<>>) = 0
    BY EmptySeq
  <2> QED BY <1>2, <1>4, <2>2, <2>4, <2>5, <2>6
<1>5. CASE Buf # <<>>
  <2>1. xsrc = <<>> /\ r + Len(src) = Len(Buf)
    BY <1>1, <1>5 DEF SourceOK
  <2> DEFINE b == Bytes(src, r, LeftInBuf)
  <2>2. LeftInBuf = Len(src)
    BY <1>2, <2>1 DEF LeftInBuf
  <2>3. /\ b \in Seq(0 .. MaxBytes) /\ Len(b) = Len(src)
        /\ \A k \in 1 .. Len(src) : r + k <= Len(src) => b[k] = src[r + k]
    <3> DEFINE n == Len(src)
    <3>1. b = Bytes(src, r, n) /\ n \in Nat
      BY <1>2, <2>2
    <3> HIDE DEF b, n
    <3>2. Bytes(src, r, n) \in Seq(0 .. MaxBytes) /\ Len(Bytes(src, r, n)) = n
      BY <1>2, <3>1, BytesIs
    <3>3. \A m \in 1 .. n : r + m <= Len(src) => Bytes(src, r, n)[m] = src[r + m]
      BY DEF Bytes
    <3> QED BY <3>1, <3>2, <3>3 DEF n
  <2>4. Follows(b, Taken)
    <3>1. CASE r = 0
      <4>1. \A k \in 1 .. Len(src) : b[k] = src[k]
        BY <1>2, <2>3, <3>1
      <4> HIDE DEF b
      <4> QED BY <1>3, <2>3, <4>1 DEF Follows
    <3>2. CASE src = <<>>
      <4>1. Len(b) = 0
        BY <1>2, <2>3, <3>2
      <4> HIDE DEF b
      <4> QED BY <4>1 DEF Follows
    <3> QED BY <1>5, <3>1, <3>2, CarriedAllOrNone
  <2>5. Settled.Buf = b /\ Settled.xsrc = <<>> /\ Code = wr
    BY <1>5, <2>1 DEF Settled, Code
  <2>6. Settled.src = b
    <3>1. Settled.src = IF LeftInBuf > 0 THEN b ELSE <<>>
      BY <1>5, <2>1 DEF Settled
    <3>2. ~(LeftInBuf > 0) => b = <<>>
      <4> HIDE DEF b
      <4> QED BY <1>2, <2>2, <2>3, EmptyLen
    <3> HIDE DEF b
    <3> QED BY <3>1, <3>2
  <2> HIDE DEF b
  <2>7. <<>> \in Seq(1 .. MaxBytes) /\ Len(b) <= BufSize
    BY <1>2, <2>1, <2>3, EmptySeq
  <2> QED BY <1>5, <2>3, <2>4, <2>5, <2>6, <2>7
<1> QED BY <1>4, <1>5

\* What all three ends have in common.
LEMMA EndFrame ==
    ASSUME IInv, NEW code \in {"no", "src", "dst"}, Settling(code)
    PROVE  /\ pc = "settle" /\ wr = code /\ schema' = schema /\ given' = given
           /\ xsrc' = Settled.xsrc /\ src' = Settled.src
           /\ skip' = 0 /\ wqty' = 0 /\ r' = 0 /\ pos' = 1
           /\ TypeOK /\ BlocksFit /\ PlaceOK /\ WalkOK /\ CharOK /\ BytesOK /\ CutOK
           /\ Items' = Items /\ Offset' = Offset /\ RecordSize' = RecordSize
           /\ PrimitiveEnds' = PrimitiveEnds /\ Tokens' = Tokens
           /\ (Binary' <=> Binary) /\ (Single' <=> Single)
           /\ (AtEnd(given)' <=> AtEnd(given))
<1>1. /\ pc = "settle" /\ Code = code /\ schema' = schema /\ given' = given
      /\ xsrc' = Settled.xsrc /\ src' = Settled.src
      /\ skip' = 0 /\ wqty' = 0 /\ r' = 0 /\ pos' = 1
  BY DEF Settling
<1>2. wr = code
  BY <1>1, SettleFacts
<1>3. TypeOK /\ BlocksFit /\ PlaceOK /\ WalkOK /\ CharOK /\ BytesOK /\ CutOK
  BY DEF IInv
<1>4. /\ Items' = Items /\ Offset' = Offset /\ RecordSize' = RecordSize
      /\ PrimitiveEnds' = PrimitiveEnds /\ Tokens' = Tokens
      /\ (Binary' <=> Binary) /\ (Single' <=> Single)
  BY <1>1, SameSchema
<1>5. AtEnd(given)' <=> AtEnd(given)
  BY <1>1, <1>4 DEF AtEnd
<1> QED BY <1>1, <1>2, <1>3, <1>4, <1>5

\* The types after an end.
LEMMA EndTypes ==
    ASSUME IInv, NEW code \in {"no", "src", "dst"}, Settling(code),
           Skip' \in 0 .. Items, Buf' \in Seq(0 .. MaxBytes), Len(Buf') <= BufSize,
           pc' \in {"idle", "fill"}, wr' \in {"no", "src", "dst"},
           \/ Block' = Block /\ file' = file
           \/ Used > 0 /\ Block' = <<>> /\ file' = Append(file, Block)
    PROVE  /\ TypeOK' /\ BlocksFit' /\ out' = out /\ Taken' = Taken
           /\ Cur' = Skip' /\ ~InCall'
<1>1. /\ TypeOK /\ BlocksFit /\ schema' = schema /\ given' = given
      /\ xsrc' \in Seq(1 .. MaxBytes) /\ src' \in Seq(0 .. MaxBytes)
      /\ skip' = 0 /\ wqty' = 0 /\ r' = 0 /\ pos' = 1
      /\ Tokens' = Tokens /\ Items' = Items
  BY EndFrame, SettleFacts
<1>2. Cur' = Skip' /\ ~InCall'
  BY DEF Cur, InCall
<1>3. /\ 0 \in 0 .. Skip' /\ 0 \in 0 .. Items /\ 1 \in 1 .. Items + 1 /\ 0 \in 0 .. MaxBytes
  BY <1>1, ItemFacts
<1>4. CASE Block' = Block /\ file' = file
  <2>1. Used' = Used /\ BlocksFit'
    BY <1>1, <1>4 DEF Used, SizeOf, BlocksFit
  <2>2. out' = out /\ Taken' = Taken
    BY <1>4 DEF out, Taken
  <2>3. TypeOK'
    <3> HIDE DEF Tokens
    <3> QED BY <1>1, <1>3, <1>4, <2>1 DEF TypeOK, Items
  <2> QED BY <1>2, <2>1, <2>2, <2>3
<1>5. CASE Used > 0 /\ Block' = <<>> /\ file' = Append(file, Block)
  <2>1. out' = out /\ Taken' = Taken /\ BlocksFit'
    BY <1>1, <1>5, OutFlushed, FitsMore
  <2>2. Used' <= BlockSize
    <3>1. [n \in DOMAIN <<>> |-> schema'[<<>>[n].item].out] = <<>>
      BY EmptySeq
    <3>2. SizeOf(Block)' = 0
      BY <1>5, <3>1, TotalEmpty DEF SizeOf
    <3> QED BY <3>2, SizeAssumption DEF Used
  <2>3. TypeOK'
    <3> HIDE DEF Tokens
    <3>1. Block' \in Seq(Tokens) /\ file' \in Seq(Seq(Tokens))
      BY <1>1, <1>5, EmptySeq, AppendProperties DEF TypeOK
    <3> QED BY <1>1, <1>3, <2>2, <3>1 DEF TypeOK, Items
  <2> QED BY <1>2, <2>1, <2>3
<1> QED BY <1>4, <1>5

\* The walk stopped inside the record: the place is kept.
LEMMA EndInside ==
    ASSUME IInv, pc = "settle", wr # "no", schema' = schema, Taken' = Taken, out' = out,
           Skip' = Cur, Cur' = Cur, ~InCall', skip' = 0, wqty' = 0, r' = 0, pos' = 1
    PROVE  PlaceOK' /\ WalkOK' /\ CharOK' /\ Start' = Start
<1>1. TypeOK /\ PlaceOK /\ wr \in {"no", "src", "dst"}
  BY DEF IInv, TypeOK
<1>2. /\ Items' = Items /\ Offset' = Offset /\ RecordSize' = RecordSize
  BY SameSchema
<1>3. Start' = Start
  BY <1>2 DEF Start
<1>4. PlaceOK'
  BY <1>1, <1>2, <1>3 DEF PlaceOK
<1>5. /\ Cur = pos - 1 /\ pos \in 1 .. Items /\ Cur \in 0 .. Items - 1 /\ Items \in Nat
      /\ schema[pos].kind # "sep" \/ ~Binary
  BY <1>1, StopFacts, ItemFacts
<1>6. WalkOK'
  BY <1>2, <1>5 DEF WalkOK
<1>7. CharOK'
  <2> SUFFICES ASSUME NEW n \in 1 .. Items, schema[n].kind = "char" PROVE Cur < n
    BY <1>2 DEF CharOK
  <2>1. Binary
    BY <1>1, BinaryFacts
  <2>2. pos = n
    BY <1>1, <1>5, <2>1, CharFacts
  <2> QED BY <1>5, <2>2
<1> QED BY <1>3, <1>4, <1>6, <1>7

\* The source is short: the call ends, and the rest is carried.
LEMMA SettleSourceShortStep ==
    ASSUME IInv, SettleSourceShort
    PROVE  IInv' /\ out' = out
<1>1. Settling("src") /\ Skip' = Skip + wqty /\ pc' = "idle" /\ wr' = "src"
      /\ Buf' = (IF Settled.src # <<>> THEN Settled.src ELSE Settled.Buf)
      /\ Block' = Block /\ file' = file
  BY DEF SettleSourceShort
<1>2. /\ pc = "settle" /\ wr = "src" /\ schema' = schema /\ given' = given
      /\ skip' = 0 /\ wqty' = 0 /\ r' = 0 /\ pos' = 1
      /\ TypeOK /\ PlaceOK /\ WalkOK /\ BytesOK /\ CutOK
      /\ Items' = Items /\ Offset' = Offset /\ RecordSize' = RecordSize
      /\ (Binary' <=> Binary) /\ (Single' <=> Single)
  BY <1>1, EndFrame
<1>3. /\ Settled.src \in Seq(0 .. MaxBytes) /\ Follows(Settled.src, Taken)
      /\ Len(Settled.src) = Len(src) /\ Buf' = Settled.src
  <2>1. /\ Settled.src \in Seq(0 .. MaxBytes) /\ Follows(Settled.src, Taken)
        /\ Len(Settled.src) = Len(src)
        /\ Buf = <<>> => Settled.Buf = <<>>
        /\ Buf # <<>> => Settled.Buf = Settled.src
    BY <1>2, SettleFacts
  <2>2. Buf' = Settled.src
    BY <1>1, <2>1
  <2> QED BY <2>1, <2>2
<1>4. /\ Cur = pos - 1 /\ pos \in 1 .. Items /\ Cur \in 0 .. Items - 1
      /\ Offset[pos] = Offset[Cur] + Take
      /\ Take \in Nat /\ Take <= BufSize
      /\ Len(src) < Take /\ given < Start + Offset[pos]
      /\ given = Taken + Len(src) /\ Taken = Start + Offset[Cur] /\ Skip + wqty = Cur
      /\ Skip <= Cur /\ r = Offset[Cur] - Offset[Skip]
  BY <1>2, StopFacts DEF Take
<1>5. /\ Items \in Nat /\ BufSize \in Nat /\ Len(src) \in Nat /\ Start \in Nat
      /\ Offset[Cur] \in Nat /\ Offset[Skip] \in Nat /\ RecordSize \in Nat
  BY <1>2, Numbers, ItemFacts, PlaceFacts
<1>6. Skip' = Cur /\ Skip' \in 0 .. Items /\ Len(Buf') <= BufSize /\ Len(Buf') = Len(src)
  <2>1. Skip' = Cur
    BY <1>1, <1>4
  <2>2. Len(Buf') = Len(src)
    BY <1>3
  <2>3. Cur \in 0 .. Items
    BY <1>4, <1>5
  <2>4. Len(src) <= BufSize
    <3>1. Len(src) < Take /\ Take \in Nat /\ Take <= BufSize
      BY <1>4
    <3> QED BY <1>5, <3>1
  <2> QED BY <2>1, <2>2, <2>3, <2>4
<1>7. TypeOK' /\ BlocksFit' /\ out' = out /\ Taken' = Taken /\ Cur' = Skip' /\ ~InCall'
  BY <1>1, <1>3, <1>6, EndTypes
<1>8. PlaceOK' /\ WalkOK' /\ CharOK' /\ Start' = Start
  BY <1>2, <1>6, <1>7, EndInside
<1>9. BytesOK'
  BY <1>1, <1>2, <1>3, <1>4, <1>7 DEF BytesOK, Follows, InCall
<1>10. SourceOK' /\ StopOK'
  BY <1>1 DEF SourceOK, StopOK, InCall
<1>11. Cur + 1 = pos /\ Cur < Items
  BY <1>4, <1>5
<1>12. CutOK'
  <2>1. Inside'
    BY <1>2, <1>4, <1>6, <1>8, <1>11 DEF Inside
  <2> QED BY <2>1 DEF CutOK
<1>13. IdleOK'
  <2>1. r + Len(src) > 0
    BY <1>2 DEF IInv, SourceOK, InCall
  <2>2. Start < given
    <3>1. r \in Nat
      BY <1>2, Numbers
    <3>2. r <= Offset[Cur]
      BY <1>4, <1>5, SMTT(30)
    <3>3. given = Start + Offset[Cur] + Len(src)
      BY <1>4, <1>5
    <3> QED BY <1>5, <2>1, <3>1, <3>2, <3>3
  <2>3. Offset[pos] \in Nat /\ Offset[pos] <= RecordSize
    BY <1>2, <1>11, NextOffset, PlaceFacts
  <2>4. given < Start + RecordSize
    <3>1. given < Start + Offset[pos] /\ given \in Nat
      BY <1>2, <1>4, Numbers
    <3> QED BY <1>5, <2>3, <3>1
  <2> QED BY <1>1, <1>2, <1>8, <2>2, <2>4 DEF IdleOK
<1> QED BY <1>7, <1>8, <1>9, <1>10, <1>12, <1>13 DEF IInv

\* A record is complete: the next one starts.
LEMMA SettleRecordStep ==
    ASSUME IInv, SettleRecord
    PROVE  IInv' /\ out' = out
<1>1. Settling("no") /\ Skip' = 0 /\ Buf' = Settled.Buf /\ wr' = "no"
      /\ pc' = (IF Settled.xsrc = <<>> THEN "idle" ELSE "fill")
      /\ Block' = Block /\ file' = file
  BY DEF SettleRecord
<1>2. /\ pc = "settle" /\ wr = "no" /\ schema' = schema /\ given' = given
      /\ xsrc' = Settled.xsrc /\ src' = Settled.src
      /\ skip' = 0 /\ wqty' = 0 /\ r' = 0 /\ pos' = 1
      /\ TypeOK /\ PlaceOK /\ WalkOK /\ BytesOK /\ CutOK
      /\ Items' = Items /\ Offset' = Offset /\ RecordSize' = RecordSize
      /\ (Binary' <=> Binary) /\ (Single' <=> Single)
      /\ (AtEnd(given)' <=> AtEnd(given))
  BY <1>1, EndFrame
<1>3. /\ Settled.Buf \in Seq(0 .. MaxBytes) /\ Len(Settled.Buf) <= BufSize
      /\ Settled.xsrc \in Seq(1 .. MaxBytes) /\ Settled.src \in Seq(0 .. MaxBytes)
      /\ Follows(Settled.src, Taken) /\ Len(Settled.src) = Len(src)
      /\ Buf = <<>> => Settled.Buf = <<>> /\ Settled.xsrc = Settled.src
      /\ Buf # <<>> => Settled.xsrc = <<>> /\ Settled.Buf = Settled.src
  BY <1>2, SettleFacts
<1>4. Cur = Items /\ given = Taken + Len(src) /\ Taken = Start + Offset[Cur]
      /\ r = Offset[Cur] - Offset[Skip] /\ Skip <= Cur
  BY <1>2, StopFacts
<1>5. /\ Items \in Nat \ {0} /\ Len(src) \in Nat /\ (src = <<>> <=> Len(src) = 0)
      /\ Start \in Nat /\ Start % RecordSize = 0 /\ RecordSize \in Nat \ {0}
      /\ RecordSize = Offset[Items] /\ Offset[0] = 0 /\ Skip \in 0 .. Items /\ Skip < Items
      /\ Taken \in Nat
  BY <1>2, Numbers, ItemFacts, PlaceFacts, OffsetFacts DEF WalkOK
<1>6. Taken = Start + RecordSize
  BY <1>4, <1>5
<1>7. Buf # <<>> => Len(src) = 0
  <2> SUFFICES ASSUME Buf # <<>> PROVE Len(src) = 0
    OBVIOUS
  <2>1. Offset[Skip + 1] \in Nat /\ Offset[Skip + 1] <= RecordSize
    BY <1>2, <1>5, NextOffset
  <2>2. given < Start + Offset[Skip + 1] \/ given <= Start + RecordSize
    BY <1>2 DEF CutOK, Inside, ToEnd
  <2>3. given = (Start + RecordSize) + Len(src)
    BY <1>4, <1>6
  <2>4. given <= Start + RecordSize
    BY <1>5, <2>1, <2>2, <2>3
  <2> QED BY <1>5, <2>3, <2>4
<1>8. Buf' = <<>> /\ (Settled.xsrc = <<>> => Len(src) = 0)
      /\ (Settled.xsrc # <<>> => Settled.xsrc = Settled.src)
  <2>1. CASE Buf = <<>>
    BY <1>1, <1>3, <2>1, EmptySeq
  <2>2. CASE Buf # <<>>
    <3>1. Len(Settled.src) = 0
      BY <1>3, <1>7, <2>2
    <3>2. Settled.src = <<>>
      BY <1>3, <3>1, EmptyLen
    <3> QED BY <1>1, <1>3, <1>7, <2>2, <3>2
  <2> QED BY <2>1, <2>2
<1>9. TypeOK' /\ BlocksFit' /\ out' = out /\ Taken' = Taken /\ Cur' = 0 /\ ~InCall'
  <2>1. Skip' \in 0 .. Items
    BY <1>1, <1>5
  <2>2. pc' \in {"idle", "fill"} /\ wr' \in {"no", "src", "dst"}
    BY <1>1
  <2> QED BY <1>1, <1>3, <2>1, <2>2, EndTypes
<1>10. Start' = Start + RecordSize
  BY <1>2, <1>5, <1>6, <1>9 DEF Start
<1>11. PlaceOK'
  <2>1. (Start + RecordSize) % RecordSize = 0 /\ Start + RecordSize \in Nat
    BY <1>5, ModRecord
  <2>2. Len(out)' % Items = Cur' % Items
    <3>1. Len(out) % Items = Items % Items
      BY <1>2, <1>4 DEF PlaceOK
    <3>2. Items % Items = 0 /\ 0 % Items = 0
      <4>1. \A L \in Nat \ {0} : (L * 1 + 0) % L = 0 /\ L * 1 + 0 = L /\ 0 % L = 0
        OBVIOUS
      <4> QED BY <1>5, <4>1
    <3> QED BY <1>9, <3>1, <3>2
  <2>3. Cur' <= Items
    BY <1>5, <1>9
  <2> QED BY <1>2, <1>10, <2>1, <2>2, <2>3 DEF PlaceOK
<1>12. WalkOK' /\ CharOK'
  <2>1. 0 < Items /\ \A n \in 1 .. Items : 0 < n
    BY <1>5
  <2> QED BY <1>1, <1>2, <1>9, <2>1 DEF WalkOK, CharOK
<1>13. BytesOK'
  <2>1. CASE Settled.xsrc = <<>>
    <3>1. pc' = "idle" /\ Len(Buf') = 0 /\ given = Taken
      BY <1>1, <1>4, <1>5, <1>8, <2>1, EmptySeq
    <3>2. given' = Taken' + Len(Buf') /\ Follows(Buf', Taken')
      BY <1>2, <1>5, <1>9, <3>1 DEF Follows
    <3> QED BY <1>9, <3>1, <3>2 DEF BytesOK, Follows
  <2>2. CASE Settled.xsrc # <<>>
    <3>1. pc' = "fill" /\ Len(Buf') = 0 /\ xsrc' = Settled.src /\ Len(xsrc') = Len(src)
      BY <1>1, <1>2, <1>3, <1>8, <2>2, EmptySeq
    <3>2. Len(src) > 0
      <4>1. Len(Settled.xsrc) # 0
        BY <1>3, <2>2, EmptyLen
      <4> QED BY <1>2, <1>5, <3>1, <4>1
    <3>3. Taken' + Len(Buf') = Taken /\ given' = Taken' + Len(Buf') + Len(xsrc') /\ given' > Taken'
      <4>1. given' = Taken + Len(src) /\ Taken' = Taken
        BY <1>2, <1>4, <1>9
      <4> QED BY <1>5, <3>1, <3>2, <4>1
    <3>4. Follows(Buf', Taken')
      BY <3>1 DEF Follows
    <3>5. Follows(xsrc', Taken' + Len(Buf'))
      BY <1>3, <3>1, <3>3
    <3> QED BY <1>9, <3>1, <3>3, <3>4, <3>5 DEF BytesOK, Follows
  <2> QED BY <2>1, <2>2
<1>14. SourceOK' /\ StopOK' /\ IdleOK'
  BY <1>1, <1>8, <1>9 DEF SourceOK, StopOK, IdleOK, InCall
<1>15. CutOK'
  BY <1>8 DEF CutOK
<1> QED BY <1>9, <1>11, <1>12, <1>13, <1>14, <1>15 DEF IInv

\* The block is full: it goes out.
LEMMA SettleBlockFullStep ==
    ASSUME IInv, SettleBlockFull
    PROVE  IInv' /\ out' = out
<1>1. Settling("dst") /\ Skip' = Skip + wqty /\ Buf' = Settled.Buf /\ wr' = "no"
      /\ pc' = (IF Settled.src = <<>> THEN "idle" ELSE "fill")
      /\ file' = (IF Used > 0 THEN Append(file, Block) ELSE file) /\ Block' = <<>>
  BY DEF SettleBlockFull
<1>2. /\ pc = "settle" /\ wr = "dst" /\ schema' = schema /\ given' = given
      /\ xsrc' = Settled.xsrc /\ src' = Settled.src
      /\ skip' = 0 /\ wqty' = 0 /\ r' = 0 /\ pos' = 1
      /\ TypeOK /\ PlaceOK /\ WalkOK /\ BytesOK /\ CutOK
      /\ Items' = Items /\ Offset' = Offset /\ RecordSize' = RecordSize
      /\ (Binary' <=> Binary) /\ (Single' <=> Single)
      /\ (AtEnd(given)' <=> AtEnd(given))
  BY <1>1, EndFrame
<1>3. /\ Settled.Buf \in Seq(0 .. MaxBytes) /\ Len(Settled.Buf) <= BufSize
      /\ Settled.xsrc \in Seq(1 .. MaxBytes) /\ Settled.src \in Seq(0 .. MaxBytes)
      /\ Follows(Settled.src, Taken) /\ Len(Settled.src) = Len(src)
      /\ Buf = <<>> => Settled.Buf = <<>> /\ Settled.xsrc = Settled.src
      /\ Buf # <<>> => Settled.xsrc = <<>> /\ Settled.Buf = Settled.src
  BY <1>2, SettleFacts
<1>4. /\ Cur = pos - 1 /\ pos \in 1 .. Items /\ Cur \in 0 .. Items - 1
      /\ Offset[pos] = Offset[Cur] + Take /\ Take \in Nat
      /\ \/ schema[pos].kind = "sep" /\ ~Binary
         \/ schema[pos].kind = "char" /\ Binary /\ r = 0 /\ Len(src) >= Take /\ Len(src) > 0
      /\ Used > 0
      /\ given = Taken + Len(src) /\ Taken = Start + Offset[Cur] /\ Skip + wqty = Cur
      /\ Skip <= Cur
  BY <1>2, StopFacts DEF Take
<1>5. /\ Items \in Nat \ {0} /\ Len(src) \in Nat /\ (src = <<>> <=> Len(src) = 0)
      /\ Start \in Nat /\ Offset[Cur] \in Nat /\ Skip \in 0 .. Items /\ Skip < Items
      /\ Taken \in Nat
  BY <1>2, Numbers, ItemFacts, PlaceFacts DEF WalkOK
<1>6. Skip' = Cur /\ Skip' \in 0 .. Items /\ file' = Append(file, Block)
  <2>1. Skip' = Cur /\ file' = Append(file, Block)
    BY <1>1, <1>4
  <2>2. Cur \in 0 .. Items
    BY <1>4, <1>5
  <2> QED BY <2>1, <2>2
<1>7. TypeOK' /\ BlocksFit' /\ out' = out /\ Taken' = Taken /\ Cur' = Skip' /\ ~InCall'
  <2>1. pc' \in {"idle", "fill"} /\ wr' \in {"no", "src", "dst"}
    BY <1>1
  <2> QED BY <1>1, <1>3, <1>4, <1>6, <2>1, EndTypes
<1>8. PlaceOK' /\ WalkOK' /\ CharOK' /\ Start' = Start
  BY <1>2, <1>6, <1>7, EndInside
<1>9. (Settled.src = <<>>) <=> (Len(src) = 0)
  BY <1>3, EmptyLen
<1>10. BytesOK'
  <2>1. CASE Settled.src = <<>>
    <3>1. pc' = "idle" /\ Len(Buf') = 0 /\ given = Taken
      BY <1>1, <1>3, <1>4, <1>5, <1>9, <2>1, EmptySeq
    <3>2. given' = Taken' + Len(Buf') /\ Follows(Buf', Taken')
      BY <1>2, <1>5, <1>7, <3>1 DEF Follows
    <3> QED BY <1>7, <3>1, <3>2 DEF BytesOK, Follows
  <2>2. CASE Settled.src # <<>>
    <3>1. pc' = "fill" /\ Len(src) > 0
      BY <1>1, <1>5, <1>9, <2>2
    <3>2. CASE Buf = <<>>
      <4>1. Len(Buf') = 0 /\ xsrc' = Settled.src /\ Len(xsrc') = Len(src)
        BY <1>1, <1>2, <1>3, <3>2, EmptySeq
      <4>2. Taken' + Len(Buf') = Taken /\ given' = Taken' + Len(Buf') + Len(xsrc')
            /\ given' > Taken'
        <5>1. given' = Taken + Len(src) /\ Taken' = Taken
          BY <1>2, <1>4, <1>7
        <5> QED BY <1>5, <3>1, <4>1, <5>1
      <4>3. Follows(Buf', Taken')
        BY <4>1 DEF Follows
      <4>4. Follows(xsrc', Taken' + Len(Buf'))
        BY <1>3, <4>1, <4>2
      <4> QED BY <1>7, <3>1, <4>2, <4>3, <4>4 DEF BytesOK, Follows
    <3>3. CASE Buf # <<>>
      <4>1. Len(xsrc') = 0 /\ Buf' = Settled.src /\ Len(Buf') = Len(src)
        BY <1>1, <1>2, <1>3, <3>3, EmptySeq
      <4>2. given' = Taken' + Len(Buf') + Len(xsrc') /\ given' > Taken'
        <5>1. given' = Taken + Len(src) /\ Taken' = Taken
          BY <1>2, <1>4, <1>7
        <5> QED BY <1>5, <3>1, <4>1, <5>1
      <4>3. Follows(Buf', Taken')
        BY <1>3, <1>7, <4>1
      <4>4. Follows(xsrc', Taken' + Len(Buf'))
        BY <4>1 DEF Follows
      <4> QED BY <1>7, <3>1, <4>2, <4>3, <4>4 DEF BytesOK, Follows
    <3> QED BY <3>2, <3>3
  <2> QED BY <2>1, <2>2
<1>11. SourceOK'
  <2>1. Buf' # <<>> => Buf # <<>>
    BY <1>1, <1>3
  <2>2. Buf # <<>> => xsrc' = <<>> /\ src' = Buf' /\ Len(Buf') + Len(xsrc') <= BufSize
    <3> SUFFICES ASSUME Buf # <<>>
                 PROVE  xsrc' = <<>> /\ src' = Buf' /\ Len(Buf') + Len(xsrc') <= BufSize
      OBVIOUS
    <3>1. xsrc' = <<>> /\ src' = Buf' /\ Len(xsrc') = 0
      BY <1>1, <1>2, <1>3, EmptySeq
    <3>2. Len(Buf') \in Nat /\ Len(Buf') <= BufSize /\ BufSize \in Nat
      BY <1>1, <1>3, EmptyLen, SizeAssumption
    <3> QED BY <3>1, <3>2
  <2> QED BY <1>7, <2>1, <2>2 DEF SourceOK
<1>12. CutOK'
  <2> SUFFICES ASSUME Buf' # <<>> PROVE Inside' \/ (pc' = "fill" /\ ToEnd')
    BY DEF CutOK
  <2>1. Buf # <<>> /\ Buf' = Settled.src /\ pc' = "fill"
    BY <1>1, <1>3
  <2>2. /\ Skip + 1 \in 0 .. Items /\ pos \in 0 .. Items /\ Skip + 1 <= pos /\ Skip' + 1 = pos
    BY <1>4, <1>5, <1>6
  <2>3. /\ Offset[Skip + 1] <= Offset[pos] /\ Offset[Skip + 1] \in Nat /\ Offset[pos] \in Nat
        /\ given \in Nat
    BY <1>2, <2>2, OffsetFacts, Numbers
  <2>4. CASE Inside
    <3>1. given < Start + Offset[pos]
      BY <1>5, <2>3, <2>4 DEF Inside
    <3> QED BY <1>2, <1>8, <2>2, <3>1 DEF Inside
  <2>5. CASE ToEnd
    <3>1. given <= Start + Offset[Skip + 1] => given <= Start + Offset[pos]
      BY <1>5, <2>3
    <3>2. ToEnd'
      BY <1>2, <1>8, <2>2, <2>5, <3>1 DEF ToEnd
    <3> QED BY <2>1, <3>2
  <2> QED BY <1>2, <2>1, <2>4, <2>5 DEF CutOK
<1>13. StopOK'
  BY <1>1 DEF StopOK
<1>14. IdleOK'
  <2>1. pc' = "idle" => Settled.src = <<>> /\ Len(src) = 0
    BY <1>1, <1>9
  <2>2. pc' = "idle" => Buf' = <<>>
    BY <1>1, <1>3, <2>1
  <2>3. pc' = "idle" => ~Binary
    BY <1>4, <1>5, <2>1
  <2> QED BY <1>1, <1>2, <2>2, <2>3 DEF IdleOK
<1> QED BY <1>7, <1>8, <1>10, <1>11, <1>12, <1>13, <1>14 DEF IInv

-----------------------------------------------------------------------------
(* The theorems *)

\* No step of the program, and no call with a cut of CopiedChunk, breaks the
\* invariant; and every step puts at most one token.
LEMMA NextStep ==
    ASSUME IInv, Chunks = "copied", Next
    PROVE  /\ IInv'
           /\ \/ Placed
              \/ (\E n \in 1 .. MaxBytes : Give(n)) /\ out' = out
              \/ Retype /\ out' = <<>>
              \/ UNCHANGED <<schema, given, out>>
<1>1. CASE \E n \in 1 .. MaxBytes : Give(n)
  BY <1>1, GiveStep
<1>2. CASE Flush
  <2>1. schema' = schema /\ given' = given
    BY <1>2 DEF Flush
  <2> QED BY <1>2, <2>1, FlushStep
<1>3. CASE Retype
  BY <1>3, RetypeStep
<1>4. CASE Fill
  <2>1. schema' = schema /\ given' = given
    BY <1>4 DEF Fill
  <2> QED BY <1>4, <2>1, FillStep
<1>5. CASE StepOver
  <2>1. schema' = schema /\ given' = given
    BY <1>5 DEF StepOver
  <2> QED BY <1>5, <2>1, StepOverStep
<1>6. CASE WriteSep
  <2>1. schema' = schema /\ given' = given
    BY <1>6 DEF WriteSep, Stop, Put
  <2> QED BY <1>6, <2>1, WriteSepStep
<1>7. CASE WritePrimitive
  <2>1. schema' = schema /\ given' = given
    BY <1>7 DEF WritePrimitive, PutPrimitive, Stop, Put
  <2> QED BY <1>7, <2>1, WritePrimitiveStep
<1>8. CASE WriteChars
  <2>1. schema' = schema /\ given' = given
    BY <1>8 DEF WriteChars, Stop, Put
  <2> QED BY <1>8, <2>1, WriteCharsStep
<1>9. CASE WalkEnds
  <2>1. schema' = schema /\ given' = given
    BY <1>9 DEF WalkEnds, Stop
  <2> QED BY <1>9, <2>1, WalkEndsStep
<1>10. CASE SettleSourceShort
  <2>1. schema' = schema /\ given' = given
    BY <1>10 DEF SettleSourceShort, Settling
  <2> QED BY <1>10, <2>1, SettleSourceShortStep
<1>11. CASE SettleRecord
  <2>1. schema' = schema /\ given' = given
    BY <1>11 DEF SettleRecord, Settling
  <2> QED BY <1>11, <2>1, SettleRecordStep
<1>12. CASE SettleBlockFull
  <2>1. schema' = schema /\ given' = given
    BY <1>12 DEF SettleBlockFull, Settling
  <2> QED BY <1>12, <2>1, SettleBlockFullStep
<1> QED BY <1>1, <1>2, <1>3, <1>4, <1>5, <1>6, <1>7, <1>8, <1>9, <1>10, <1>11, <1>12
        DEF Next, Write

\* Where nothing happens, the invariant stays.
LEMMA StutterStep ==
    ASSUME IInv, UNCHANGED vars
    PROVE  IInv' /\ UNCHANGED <<schema, given, out>>
<1>1. /\ schema' = schema /\ given' = given /\ Skip' = Skip /\ Buf' = Buf /\ Block' = Block
      /\ file' = file /\ pc' = pc /\ wr' = wr
      /\ xsrc' = xsrc /\ src' = src /\ skip' = skip /\ wqty' = wqty /\ r' = r /\ pos' = pos
  BY DEF vars, call
<1>2. /\ Items' = Items /\ Offset' = Offset /\ RecordSize' = RecordSize
      /\ PrimitiveEnds' = PrimitiveEnds /\ Tokens' = Tokens
      /\ (Binary' <=> Binary) /\ (Single' <=> Single)
  BY <1>1, SameSchema
<1>3. Used' = Used /\ Room' = Room /\ (BlocksFit' <=> BlocksFit)
  BY <1>1 DEF Used, Room, SizeOf, BlocksFit
<1>4. out' = out /\ Taken' = Taken /\ Cur' = Cur /\ Start' = Start /\ (InCall' <=> InCall)
  BY <1>1, <1>2 DEF out, Taken, Cur, Start, InCall
<1> HIDE DEF Items, Offset, Tokens
<1>5. TypeOK'
  <2>1. TypeOK
    BY DEF IInv
  <2> QED BY <1>1, <1>2, <1>3, <2>1 DEF TypeOK, Items
<1>6. PlaceOK' /\ WalkOK' /\ CharOK'
  BY <1>1, <1>2, <1>3, <1>4 DEF IInv, PlaceOK, WalkOK, CharOK
<1>7. BytesOK' /\ SourceOK'
  BY <1>1, <1>4 DEF IInv, BytesOK, SourceOK, Follows
<1>8. CutOK' /\ StopOK' /\ IdleOK'
  BY <1>1, <1>2, <1>3, <1>4 DEF IInv, CutOK, ToEnd, StopOK, IdleOK, AtEnd, Inside
<1> QED BY <1>1, <1>3, <1>4, <1>5, <1>6, <1>7, <1>8 DEF IInv

\* A token put is the token RecordStream puts.
LEMMA PutMaps ==
    ASSUME IInv, Placed
    PROVE  Records!Put
<1>1. /\ schema' = schema /\ given' = given /\ out' = Append(out, Written)
      /\ Cur = pos - 1 /\ Cur \in 0 .. Items - 1 /\ Take \in 0 .. Len(src)
  BY PutNumbers
<1>2. /\ TypeOK /\ Follows(src, Taken) /\ given = Taken + Len(src)
      /\ Len(out) % Items = Cur % Items
  BY DEF IInv, Placed, InCall, BytesOK, PlaceOK
<1>3. /\ Len(out) \in Nat /\ Taken \in Nat /\ Len(src) \in Nat /\ Items \in Nat \ {0}
      /\ pos \in 1 .. Items + 1
  BY <1>2, OutFacts, Numbers, ItemFacts
<1>4. Len(out) % Items = Cur
  <2>1. Len(out) \in Nat /\ Items \in Nat \ {0}
    BY <1>3
  <2>2. Cur \in 0 .. Items - 1 /\ Len(out) % Items = Cur % Items
    BY <1>1, <1>2
  <2>3. \A L \in Nat \ {0} : \A c \in 0 .. L - 1 : c % L = c
    OBVIOUS
  <2> QED BY <2>1, <2>2, <2>3
<1>5. (Len(out) % Items) + 1 = pos
  BY <1>1, <1>3, <1>4
<1>6. Taken + Take <= given
  BY <1>1, <1>2, <1>3
<1>7. Written.bytes = [n \in 1 .. Take |-> Taken + n]
  <2>1. \A n \in 1 .. Take : (IF 0 + n <= Len(src) THEN src[0 + n] ELSE 0) = Taken + n
    <3> TAKE n \in 1 .. Take
    <3>1. n \in 1 .. Len(src) /\ 0 + n = n /\ n <= Len(src)
      BY <1>1, <1>3
    <3> QED BY <1>2, <3>1 DEF Follows
  <2> QED BY <2>1 DEF Written, Bytes
<1>8. Written = [item |-> pos, bytes |-> [n \in 1 .. Take |-> Taken + n]]
  BY <1>7 DEF Written
<1> QED BY <1>1, <1>5, <1>6, <1>8 DEF Records!Put, Take, Taken, Items

\* A new type description comes where RecordStream lets it come.
LEMMA RetypeMaps ==
    ASSUME IInv, Retype, out' = <<>>
    PROVE  Records!Retype
<1>1. /\ pc = "idle" /\ wr = "no" /\ Skip = 0 /\ schema' \in Schemas /\ given' = 0
  BY DEF Retype
<1>2. TypeOK /\ Buf = <<>> /\ given = Taken + Len(Buf) /\ Len(out) % Items = Cur % Items
  BY <1>1 DEF IInv, IdleOK, BytesOK, PlaceOK
<1>3. Taken = given
  BY <1>2, OutFacts, Numbers
<1>4. Len(out) % Items = 0
  <2>1. Cur = 0 /\ Items \in Nat \ {0}
    BY <1>1, <1>2, ItemFacts DEF Cur
  <2>2. 0 % Items = 0
    BY <2>1
  <2> QED BY <1>2, <2>1, <2>2
<1> QED BY <1>1, <1>3, <1>4 DEF Records!Retype, Records!Complete, Taken, Items

\* Every step is one of RecordStream, or none.
LEMMA NextMaps ==
    ASSUME IInv, Chunks = "copied", [Next]_vars
    PROVE  IInv' /\ [Records!Next]_<<schema, given, out>>
<1>1. CASE Next
  <2>1. IInv'
    BY <1>1, NextStep
  <2>2. CASE Placed
    BY <2>1, <2>2, PutMaps DEF Records!Next
  <2>3. CASE (\E n \in 1 .. MaxBytes : Give(n)) /\ out' = out
    <3>1. PICK n \in 1 .. MaxBytes : Give(n)
      BY <2>3
    <3>2. schema' = schema /\ given' = given + n /\ given + n <= MaxBytes
      BY <3>1 DEF Give
    <3>3. given \in Nat /\ MaxBytes \in Nat
      BY Numbers, ItemFacts DEF IInv
    <3>4. given' \in given + 1 .. MaxBytes
      BY <3>2, <3>3
    <3> QED BY <2>1, <2>3, <3>2, <3>4 DEF Records!Next, Records!Give
  <2>4. CASE Retype /\ out' = <<>>
    BY <2>1, <2>4, RetypeMaps DEF Records!Next
  <2>5. CASE UNCHANGED <<schema, given, out>>
    BY <2>1, <2>5
  <2> QED BY <1>1, <2>2, <2>3, <2>4, <2>5, NextStep
<1>2. CASE UNCHANGED vars
  BY <1>2, StutterStep
<1> QED BY <1>1, <1>2

\* The first state is the first state of RecordStream.
LEMMA InitMaps ==
    ASSUME Init
    PROVE  IInv /\ Records!Init
<1>1. out = <<>>
  <2>1. file = <<>> /\ Block = <<>> /\ <<>> \o <<>> = <<>>
    BY EmptySeq, ConcatEmptySeq DEF Init
  <2> QED BY <2>1, FlattenEmpty DEF out
<1>2. schema \in Schemas /\ given = 0
  BY DEF Init
<1> QED BY <1>1, <1>2, InitStep DEF Records!Init

\* The inductive invariant, for clients that cut their data as CopiedChunk says.
THEOREM Invariance == ASSUME Chunks = "copied" PROVE Spec => []IInv
<1>1. Init => IInv
  BY InitMaps
<1>2. IInv /\ [Next]_vars => IInv'
  BY NextMaps
<1> QED BY <1>1, <1>2, PTL DEF Spec

\* EdfWriteDataBlock never lets Buf grow beyond its size, nor Block, nor any of
\* its counters beyond the record.
THEOREM TypeCorrect == ASSUME Chunks = "copied" PROVE Spec => []TypeOK
<1>1. IInv => TypeOK
  BY DEF IInv
<1> QED BY Invariance, <1>1, PTL

\* EdfWriteDataBlock implements RecordStream, for every record type and every
\* size of Block and Buf: no byte of the client is lost, written twice or out of
\* order, and no separator is misplaced.  The premise leaves out the calls that
\* begin inside one primitive and end inside another, and in text, where several
\* separators stand between two primitives, the calls that bring a further one:
\* for these line 163 may copy the wrong bytes.
THEOREM Refinement == ASSUME Chunks = "copied" PROVE Spec => RecordsInOrder
<1>1. Init => IInv /\ Records!Init
  BY InitMaps
<1>2. IInv /\ [Next]_vars => IInv' /\ [Records!Next]_<<schema, given, out>>
  BY NextMaps
<1> QED BY <1>1, <1>2, PTL DEF Spec, RecordsInOrder, Records!Spec

\* Between two calls Skip is the place in the record, and Buf the bytes given
\* and not written.
THEOREM ResumesWhereItStopped ==
    ASSUME Chunks = "copied" PROVE Spec => []SkipAndBufTellTheRest
<1>1. IInv => SkipAndBufTellTheRest
  <2> SUFFICES ASSUME IInv, pc = "idle"
               PROVE  /\ Skip = Len(out) % Items
                      /\ Buf = [k \in 1 .. given - Taken |-> Taken + k]
    BY DEF SkipAndBufTellTheRest, Items, Taken
  <2>1. /\ TypeOK /\ Len(out) % Items = Cur % Items /\ Cur = Skip /\ Skip < Items
        /\ Follows(Buf, Taken) /\ given = Taken + Len(Buf)
    BY DEF IInv, PlaceOK, WalkOK, BytesOK, Cur
  <2>2. /\ Skip \in 0 .. Items /\ Items \in Nat \ {0} /\ Taken \in Nat /\ Len(Buf) \in Nat
        /\ Len(out) \in Nat /\ Buf \in Seq(0 .. MaxBytes)
    BY <2>1, Numbers, ItemFacts, OutFacts
  <2>3. Skip = Len(out) % Items
    <3>1. Skip \in 0 .. Items - 1 /\ Len(out) % Items = Skip % Items
      BY <2>1, <2>2
    <3>2. Len(out) \in Nat /\ Items \in Nat \ {0}
      BY <2>2
    <3>3. \A L \in Nat \ {0} : \A c \in 0 .. L - 1 : c % L = c
      OBVIOUS
    <3> QED BY <3>1, <3>2, <3>3
  <2>4. given - Taken = Len(Buf) /\ Buf = [k \in 1 .. Len(Buf) |-> Buf[k]]
    BY <2>1, <2>2, LenProperties
  <2> QED BY <2>1, <2>3, <2>4 DEF Follows
<1> QED BY Invariance, <1>1, PTL

\* The code of a call tells the client where it stands.
THEOREM CodesAreTrue ==
    ASSUME Chunks = "copied" PROVE Spec => []CodeTellsWhatIsMissing
<1>1. IInv => CodeTellsWhatIsMissing
  <2> SUFFICES ASSUME IInv, pc = "idle"
               PROVE  /\ wr = "no" => Taken = given
                      /\ wr = "src" => given % RecordSize # 0
                      /\ wr = "no" /\ Binary => given % RecordSize = 0
    BY DEF CodeTellsWhatIsMissing, Taken
  <2>1. /\ TypeOK /\ PlaceOK /\ Cur = Skip /\ given = Taken + Len(Buf)
        /\ wr = "no" => Buf = <<>> /\ (Binary => Skip = 0)
        /\ wr = "src" => Start < given /\ given < Start + RecordSize
    BY DEF IInv, BytesOK, IdleOK, Cur
  <2>2. /\ Start \in Nat /\ Start % RecordSize = 0 /\ RecordSize \in Nat \ {0}
        /\ Taken = Start + Offset[Skip] /\ Taken \in Nat /\ given \in Nat
        /\ Len(Buf) \in Nat /\ (Buf = <<>> <=> Len(Buf) = 0) /\ Offset[0] = 0
    BY <2>1, PlaceFacts, Numbers, OffsetFacts
  <2>3. wr = "no" => Taken = given
    BY <2>1, <2>2
  <2>4. ASSUME wr = "src" PROVE given % RecordSize # 0
    <3> DEFINE x == given - Start
    <3>1. x \in 0 .. RecordSize - 1 /\ x # 0 /\ given = Start + x
      BY <2>1, <2>2, <2>4, SMTT(30)
    <3> HIDE DEF x
    <3>2. given % RecordSize = x
      <4>1. RecordSize \in Nat \ {0} /\ Start \in Nat /\ Start % RecordSize = 0
        BY <2>2
      <4>2. x \in 0 .. RecordSize - 1 /\ given = Start + x
        BY <3>1
      <4> QED BY <4>1, <4>2, ModAhead, ZenonT(30)
    <3> QED BY <3>1, <3>2
  <2>5. ASSUME wr = "no", Binary PROVE given % RecordSize = 0
    <3>1. given = Start
      BY <2>1, <2>2, <2>3, <2>5
    <3> QED BY <2>2, <3>1
  <2> QED BY <2>3, <2>4, <2>5
<1> QED BY Invariance, <1>1, PTL

\* No empty block is written, and none that is too large.
THEOREM NoBlockTooLarge == ASSUME Chunks = "copied" PROVE Spec => []BlocksFit
<1>1. IInv => BlocksFit
  BY DEF IInv
<1> QED BY Invariance, <1>1, PTL

\* A block goes out by itself only when the item the walk is at does not fit.
THEOREM FullBlocksOnly == ASSUME Chunks = "copied" PROVE Spec => BlocksAreFull
<1>1. IInv /\ [Next]_vars => [pc # "idle" /\ file' # file => schema[pos].need > Room]_vars
  <2> SUFFICES ASSUME IInv, Next, pc # "idle", file' # file
               PROVE  schema[pos].need > Room
    OBVIOUS
  <2>1. ~Fill /\ ~StepOver /\ ~WriteSep /\ ~WriteChars /\ ~WalkEnds
    BY DEF Fill, StepOver, WriteSep, WriteChars, WalkEnds, Stop, call
  <2>2. ~SettleSourceShort /\ ~SettleRecord /\ ~Flush /\ ~Retype
    BY DEF SettleSourceShort, SettleRecord, Flush, Retype
  <2>3. ~(\E n \in 1 .. MaxBytes : Give(n))
    BY DEF Give
  <2>4. CASE WritePrimitive
    BY <2>4 DEF WritePrimitive, PutPrimitive, Stop
  <2>5. CASE SettleBlockFull
    <3>1. pc = "settle" /\ Code = "dst"
      BY <2>5 DEF SettleBlockFull, Settling
    <3>2. wr = "dst"
      BY <3>1, SettleFacts
    <3> QED BY <3>1, <3>2 DEF IInv, StopOK
  <2> QED BY <2>1, <2>2, <2>3, <2>4, <2>5 DEF Next, Write
<1> QED BY Invariance, <1>1, PTL DEF Spec, BlocksAreFull
=============================================================================
