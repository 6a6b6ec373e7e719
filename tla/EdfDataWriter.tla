--------------------------- MODULE EdfDataWriter ----------------------------
(***************************************************************************)
(* EdfWriteDataBlock (BlockWriter.c 121-213) with the walk over a record   *)
(* it makes (WriteSingleValue, WriteData, EdfWritePrimitive, EdfWriteSep). *)
(*                                                                         *)
(* The walk always starts at the front of a record and steps over the      *)
(* first Skip items, those already written.  It stops when the source or   *)
(* the block ends; Skip then grows by the items written, and the bytes of  *)
(* a primitive that is not complete are carried in Buf to the next call.   *)
(* A record type is flattened to its items (EdfTypeTree), so a step of     *)
(* this machine is one item of the walk.                                   *)
(*                                                                         *)
(* The stream takes every block here; EdfFile has the failures.            *)
(***************************************************************************)
EXTENDS Integers, Sequences, SequencesExt, Totals

CONSTANTS
    Schemas,    \* record types: sequences of [kind, src, out, need]
    BlockSize,  \* bytes of Block
    BufSize,    \* bytes of Buf
    Chunks,     \* "copied" or "free": how a client cuts its data
    MaxBytes    \* bound on the bytes given under one type

\* An item takes src bytes from the source and out bytes in the block, for which
\* it asks for need.  A record has a primitive.
ASSUME SchemaAssumption ==
    \A s \in Schemas :
        /\ s \in Seq([kind : {"sep", "prim", "char"}, src : 0 .. BufSize,
                      out : 0 .. BlockSize, need : 0 .. BlockSize])
        /\ \A n \in 1 .. Len(s) :
             /\ s[n].out <= s[n].need
             /\ s[n].kind = "sep" => s[n].out = s[n].need
             /\ (s[n].kind = "sep") <=> (s[n].src = 0)
        /\ \E n \in 1 .. Len(s) : s[n].kind # "sep"
\* A Char array is a type of its own, as the callers put none into a Struct, and
\* binary.  In text it is left out: Primitives.c:221 asks for two bytes of room
\* and writes two more than the array has, so it can run over the end of Block.
ASSUME CharAssumption ==
    \A s \in Schemas : \A n \in 1 .. Len(s) : s[n].kind = "char"
        => /\ s[n].out = s[n].src /\ s[n].need = s[n].out
           /\ \A m \in 1 .. Len(s) : m # n => s[m].kind = "sep" /\ s[m].out = 0
ASSUME SizeAssumption ==
    BlockSize \in Nat \ {0} /\ BufSize \in Nat \ {0} /\ MaxBytes \in Nat

VARIABLES
    schema,  \* dw->t, flattened
    given,   \* history: bytes given since the type description
    Skip,    \* items of the current record already written
    Buf,     \* the carried bytes: BufLen of them
    Block,   \* the tokens in the block (the code counts them in DatLen and w)
    file,    \* the data blocks written since the type description
    pc,      \* where EdfWriteDataBlock stands
    xsrc,    \* the client's bytes not yet taken
    src,     \* the bytes being walked: a front part of xsrc, or Buf
    skip, wqty, r,  \* items left to step over, items written, bytes read
    pos,     \* the item the walk is at
    wr       \* the code of the walk; at pc = "idle" the code of the last call

call == <<xsrc, src, skip, wqty, r, pos>>
vars == <<schema, given, Skip, Buf, Block, file, pc, call, wr>>

\* The source bytes of the items, and of a record.
Srcs == [n \in DOMAIN schema |-> schema[n].src]
RecordSize == Total(Srcs)
\* The bytes that tokens b take in a block.
SizeOf(b) == Total([n \in DOMAIN b |-> schema[b[n].item].out])
Used == SizeOf(Block)
Room == BlockSize - Used
\* memcpy of n bytes from place k of s; 0 is a byte that was not given.
Bytes(s, k, n) == [m \in 1 .. n |-> IF k + m <= Len(s) THEN s[k + m] ELSE 0]
Dropped(s, n) == SubSeq(s, n + 1, Len(s))

out == FlattenSeq(file) \o Block

Init ==
    /\ schema \in Schemas
    /\ given = 0
    /\ Skip = 0 /\ Buf = <<>> /\ Block = <<>> /\ file = <<>>
    /\ pc = "idle" /\ wr = "no"
    /\ xsrc = <<>> /\ src = <<>>
    /\ skip = 0 /\ wqty = 0 /\ r = 0 /\ pos = 1

-----------------------------------------------------------------------------
(* The client, between two calls *)

Binary == \A n \in 1 .. Len(schema) : schema[n].kind = "sep" => schema[n].out = 0

\* The record offsets where a primitive ends, and the last of them at or
\* before n bytes.
PrimitiveEnds == {Sums(Srcs)[k] : k \in 0 .. Len(schema)}
AtEnd(n) == n % RecordSize \in PrimitiveEnds
SamePrimitive(m, n) ==
    /\ m \div RecordSize = n \div RecordSize
    /\ ~ \E k \in PrimitiveEnds : m % RecordSize < k /\ k <= n % RecordSize

\* Between the primitives of a record stand single separators, and each fits behind
\* the number before it, in place of the NUL of vsnprintf: an array of numbers.
Single ==
    \A k \in 1 .. Len(schema) :
        schema[k].kind = "sep" /\ 0 < Sums(Srcs)[k] /\ Sums(Srcs)[k] < RecordSize
        => schema[k - 1].kind = "prim" /\ schema[k - 1].out + schema[k].need <= schema[k - 1].need

\* The ways of cutting the data of Test.c 364-367, in binary and in text (377,
\* 383): a call may end inside a primitive; the next ones give the rest of it, and
\* the last of them ends at the end of a primitive of the same record.  For other
\* cuts line 163 may copy the wrong bytes to Buf.  Those left out are the calls
\* that begin inside one primitive and end inside another (EdfDataWriterFree), and
\* in text the calls that begin inside a primitive and bring a further one, where
\* a separator may stop the walk between the two (an array of Structs).
CopiedChunk(n) ==
    Buf # <<>> =>
        /\ Len(Buf) + n <= BufSize
        /\ \/ SamePrimitive(given, given + n)
           \/ /\ AtEnd(given + n) /\ (given + n - 1) \div RecordSize = given \div RecordSize
              /\ Binary \/ Single \/ SamePrimitive(given, given + n - 1)

\* A call of EdfWriteDataBlock with the next n bytes.
Give(n) ==
    /\ pc = "idle" /\ given + n <= MaxBytes
    /\ Chunks = "copied" => CopiedChunk(n)
    /\ given' = given + n
    /\ xsrc' = [k \in 1 .. n |-> given + k] /\ src' = xsrc'
    /\ pc' = "fill"
    /\ UNCHANGED <<schema, Skip, Buf, Block, file, skip, wqty, r, pos, wr>>

\* A mistaken Flush: DatLen is not looked at.
FlushUnasked ==
    /\ pc = "idle" /\ Len(file) < MaxBytes
    /\ file' = Append(file, Block) /\ Block' = <<>>
    /\ UNCHANGED <<schema, given, Skip, Buf, pc, call, wr>>

\* EdfFlushDataBlock called by the client.
Flush ==
    /\ pc = "idle" /\ Used > 0
    /\ file' = Append(file, Block) /\ Block' = <<>>
    /\ UNCHANGED <<schema, given, Skip, Buf, pc, call, wr>>

\* EdfWriteInfo, or EdfClose and a new file: the block goes out, Skip and
\* BufLen are cleared.  The client has given whole records and got ERR_NO.  In
\* text that code may leave separators behind the last primitive unwritten
\* (Skip > 0), which this would drop: the client goes on to another type only
\* when they are out.
Retype ==
    /\ pc = "idle" /\ wr = "no" /\ given > 0 /\ given % RecordSize = 0 /\ Skip = 0
    /\ schema' \in Schemas
    /\ given' = 0 /\ Skip' = 0 /\ Buf' = <<>> /\ Block' = <<>> /\ file' = <<>>
    /\ UNCHANGED <<pc, call, wr>>

-----------------------------------------------------------------------------
(* EdfWriteDataBlock *)

\* 133-156: carried bytes come first, with as many new ones as Buf takes.
Fill ==
    LET n == IF BufSize - Len(Buf) < Len(xsrc) THEN BufSize - Len(Buf) ELSE Len(xsrc)
    IN  /\ pc = "fill"
        /\ IF Buf # <<>>
           THEN /\ Buf' = Buf \o SubSeq(xsrc, 1, n)
                /\ xsrc' = Dropped(xsrc, n)
                /\ src' = IF n > 0 THEN Buf' ELSE src
           ELSE src' = xsrc /\ UNCHANGED <<Buf, xsrc>>
        /\ skip' = Skip /\ wqty' = 0 /\ r' = 0 /\ pos' = 1
        /\ pc' = "walk"
        /\ UNCHANGED <<schema, given, Skip, Block, file, wr>>

At(kind) == pc = "walk" /\ pos <= Len(schema) /\ schema[pos].kind = kind

\* The walk returns with a code: nothing of the item is written.
Stop(code) ==
    /\ pc' = "settle" /\ wr' = code
    /\ UNCHANGED <<schema, given, Skip, Buf, Block, file, call>>

\* An item written by an earlier walk.
StepOver ==
    /\ At("sep") \/ At("prim")
    /\ skip > 0
    /\ skip' = skip - 1 /\ pos' = pos + 1
    /\ UNCHANGED <<schema, given, Skip, Buf, Block, file, pc, xsrc, src, wqty, r, wr>>

\* The item goes into block b, which may be a new one.
Put(b) ==
    LET n == schema[pos].src
    IN  /\ Block' = Append(b, [item |-> pos, bytes |-> Bytes(src, 0, n)])
        /\ src' = Dropped(src, n) /\ r' = r + n
        /\ wqty' = wqty + 1 /\ pos' = pos + 1
        /\ UNCHANGED <<schema, given, Skip, Buf, pc, xsrc, wr>>

\* EdfWriteSep: an empty separator takes no room, and no separator flushes.
WriteSep ==
    /\ At("sep") /\ skip = 0
    /\ IF schema[pos].need > Room
       THEN Stop("dst")
       ELSE Put(Block) /\ UNCHANGED <<file, skip>>

\* Mistaken forms of PutPrimitive: the room is one byte too large, or too small.
PutPrimitiveLate ==
    IF schema[pos].need > Room + 1
    THEN Put(<<>>) /\ file' = Append(file, Block)
    ELSE Put(Block) /\ UNCHANGED file
PutPrimitiveEarly ==
    IF schema[pos].need >= Room
    THEN Put(<<>>) /\ file' = Append(file, Block)
    ELSE Put(Block) /\ UNCHANGED file

\* EdfWritePrimitive where it does not step over: a primitive that does not fit
\* sends the block out and is tried again in an empty one.
PutPrimitive ==
    IF schema[pos].need > Room
    THEN Put(<<>>) /\ file' = Append(file, Block)
    ELSE Put(Block) /\ UNCHANGED file

WritePrimitive ==
    /\ At("prim") /\ skip = 0
    /\ IF Len(src) < schema[pos].src
       THEN Stop("src")
       ELSE PutPrimitive /\ UNCHANGED skip

\* WriteData 51-65.  The lengths are asked for before it is known whether the
\* array has been written, and skip is lowered by its elements and then by one.
WriteChars ==
    LET n == schema[pos].src
        s == IF n <= skip THEN skip - n ELSE skip
    IN  /\ At("char")
        /\ IF Len(src) < n THEN Stop("src")
           ELSE IF Room < n THEN Stop("dst")
           ELSE IF s > 0
                THEN /\ skip' = s - 1 /\ pos' = pos + 1
                     /\ UNCHANGED <<schema, given, Skip, Buf, Block, file, pc,
                                    xsrc, src, wqty, r, wr>>
                ELSE skip' = 0 /\ Put(Block) /\ UNCHANGED file

WalkEnds == pc = "walk" /\ pos > Len(schema) /\ Stop("no")

\* 158-181: what is left to read.  In the first case the bytes are copied from
\* src + r, and src has been advanced by r already.
LeftInBuf == Len(Buf) - r
Settled ==
    IF Buf # <<>>
    THEN LET b == Bytes(src, r, LeftInBuf)
         IN  [Buf |-> b, xsrc |-> xsrc, src |-> IF LeftInBuf > 0 THEN b ELSE xsrc]
    ELSE [Buf |-> <<>>, xsrc |-> Dropped(xsrc, r), src |-> Dropped(xsrc, r)]
\* 172-173: a short source is no end while the client's bytes are not used up.
Code == IF Buf # <<>> /\ wr = "src" /\ xsrc # <<>> THEN "no" ELSE wr

Settling(code) ==
    /\ pc = "settle" /\ Code = code
    /\ xsrc' = Settled.xsrc /\ src' = Settled.src
    /\ skip' = 0 /\ wqty' = 0 /\ r' = 0 /\ pos' = 1
    /\ UNCHANGED <<schema, given>>

\* A mistaken SettleSourceShort: the items written are not counted.
SettleSourceShortUncounted ==
    /\ Settling("src")
    /\ Buf' = IF Settled.src # <<>> THEN Settled.src ELSE Settled.Buf
    /\ pc' = "idle" /\ wr' = "src"
    /\ UNCHANGED <<Block, file, Skip>>

\* ERR_SRC_SHORT: the call ends, and the rest is carried.
SettleSourceShort ==
    /\ Settling("src")
    /\ Skip' = Skip + wqty
    /\ Buf' = IF Settled.src # <<>> THEN Settled.src ELSE Settled.Buf
    /\ pc' = "idle" /\ wr' = "src"
    /\ UNCHANGED <<Block, file>>

\* A mistaken SettleRecord: the call ends with the first record.
SettleRecordOnce ==
    /\ Settling("no")
    /\ Skip' = 0 /\ Buf' = Settled.Buf
    /\ pc' = "idle" /\ wr' = "no"
    /\ UNCHANGED <<Block, file>>

\* ERR_NO: a record is complete.
SettleRecord ==
    /\ Settling("no")
    /\ Skip' = 0 /\ Buf' = Settled.Buf
    /\ pc' = (IF Settled.xsrc = <<>> THEN "idle" ELSE "fill") /\ wr' = "no"
    /\ UNCHANGED <<Block, file>>

\* Mistaken forms of SettleBlockFull: the items written are not counted, or the
\* block is not emptied.
SettleBlockFullUncounted ==
    /\ Settling("dst")
    /\ Skip' = Skip /\ Buf' = Settled.Buf
    /\ file' = (IF Used > 0 THEN Append(file, Block) ELSE file) /\ Block' = <<>>
    /\ pc' = (IF Settled.src = <<>> THEN "idle" ELSE "fill") /\ wr' = "no"
SettleBlockKept ==
    /\ Settling("dst")
    /\ Skip' = Skip + wqty /\ Buf' = Settled.Buf
    /\ UNCHANGED <<file, Block>>
    /\ pc' = (IF Settled.src = <<>> THEN "idle" ELSE "fill") /\ wr' = "no"

\* ERR_DST_SHORT: the block goes out, and the loop goes on if there is source.
SettleBlockFull ==
    /\ Settling("dst")
    /\ Skip' = Skip + wqty /\ Buf' = Settled.Buf
    /\ file' = (IF Used > 0 THEN Append(file, Block) ELSE file) /\ Block' = <<>>
    /\ pc' = (IF Settled.src = <<>> THEN "idle" ELSE "fill") /\ wr' = "no"

Write ==
    \/ Fill
    \/ StepOver \/ WriteSep \/ WritePrimitive \/ WriteChars \/ WalkEnds
    \/ SettleSourceShort \/ SettleRecord \/ SettleBlockFull

Next == (\E n \in 1 .. MaxBytes : Give(n)) \/ Flush \/ Retype \/ Write

\* EdfWriteDataBlock runs to its end; a client may stop at any time.
Spec == Init /\ [][Next]_vars /\ WF_vars(Write)

-----------------------------------------------------------------------------
(* Properties *)

Tokens == [item : 1 .. Len(schema), bytes : Seq(0 .. MaxBytes)]

\* The variables keep their types, and Buf and Block their sizes.
TypeOK ==
    /\ schema \in Schemas
    /\ given \in 0 .. MaxBytes
    /\ Skip \in 0 .. Len(schema) /\ skip \in 0 .. Skip /\ wqty \in 0 .. Len(schema)
    /\ Buf \in Seq(0 .. MaxBytes) /\ Len(Buf) <= BufSize
    /\ Block \in Seq(Tokens) /\ Used <= BlockSize
    /\ file \in Seq(Seq(Tokens))
    /\ pc \in {"idle", "fill", "walk", "settle"}
    /\ xsrc \in Seq(1 .. MaxBytes) /\ src \in Seq(0 .. MaxBytes)
    /\ r \in 0 .. MaxBytes
    /\ pos \in 1 .. Len(schema) + 1
    /\ wr \in {"no", "src", "dst"}

\* EdfWriteDataBlock implements RecordStream: no byte of the client is lost,
\* written twice or out of order, and no separator is misplaced, wherever the
\* blocks end, for the cuts of CopiedChunk.
Records == INSTANCE RecordStream
RecordsInOrder == Records!Spec

\* Between two calls Skip is the place in the record that has been reached, and
\* Buf holds exactly the bytes given and not written.
SkipAndBufTellTheRest ==
    pc = "idle" =>
        /\ Skip = Len(out) % Len(schema)
        /\ Buf = [k \in 1 .. given - Records!TakenBy(out) |-> Records!TakenBy(out) + k]

\* The code returned tells where the client stands: ERR_NO that the primitives
\* given are all written, ERR_SRC_SHORT that the record needs more bytes; in
\* binary ERR_NO also tells that the record is complete (Test.c 362-367).  In
\* text it does not: a separator that had to wait for the next block leaves it.
CodeTellsWhatIsMissing ==
    pc = "idle" =>
        /\ wr = "no" => Records!TakenBy(out) = given
        /\ wr = "src" => given % RecordSize # 0
        /\ wr = "no" /\ Binary => given % RecordSize = 0

\* No empty block is written, and none larger than Block.
BlocksFit ==
    \A n \in 1 .. Len(file) : SizeOf(file[n]) > 0 /\ SizeOf(file[n]) <= BlockSize

\* A block goes out by itself only when the next item does not fit.
BlocksAreFull ==
    [][pc # "idle" /\ file' # file => schema[pos].need > Room]_vars

\* Every call of EdfWriteDataBlock returns.
CallReturns == pc # "idle" ~> pc = "idle"
=============================================================================
