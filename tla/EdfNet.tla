------------------------------- MODULE EdfNet --------------------------------
(***************************************************************************)
(* A .NET client writes records in several types with a BinWriter or a     *)
(* TxtWriter, perhaps in a second session that appends; the binary file is *)
(* then converted to text by BinToTxtConverter.Execute, which reads block  *)
(* after block (BinReader.ReadBlock), takes the primitives out of each     *)
(* (TryReadPrimitives over PrimitiveListReader) and gives them to a        *)
(* TxtWriter, flushing behind each block.                                  *)
(*                                                                         *)
(* Blocks are read back as they were written: damaged files are not in     *)
(* this model.  The objects of each type are numbered 1, 2, ...            *)
(***************************************************************************)
EXTENDS EdfNetWriter

CONSTANTS
    MaxTypes,   \* bound on the type descriptions of a file
    MaxObjects  \* bound on the objects of each

ASSUME BoundsAssumption == MaxTypes \in Nat /\ MaxObjects \in Nat

VARIABLES
    given,       \* history: the objects given of each type description
    converting,  \* the client is through, and the converter runs
    file,        \* the stream that the converter reads
    part, blk,   \* the descriptions it has read, and the data blocks behind the last
    src,         \* the tokens of the data block being read
    rskip,       \* the converter's _skip
    rpos, rs, qty, \* the walk of PrimitiveListReader: its item, skip and qty
    arr,         \* the objects taken from the block
    threw        \* history: an exception has left a Write

reader == <<file, part, blk, src, rskip, rpos, rs, qty, arr>>
vars == <<writer, given, converting, reader, threw>>

Init ==
    /\ text \in BOOLEAN /\ inf = <<>> /\ Skip = 0 /\ currObj = 0 /\ objs = <<>>
    /\ Block = <<>> /\ pending = <<>> /\ pos = 1 /\ skip = 0 /\ wqty = 0
    /\ pc = "idle" /\ ret = "ok" /\ sent = <<>>
    /\ given = <<>> /\ converting = FALSE
    /\ file = <<>> /\ part = 0 /\ blk = 0 /\ src = <<>>
    /\ rskip = 0 /\ rpos = 1 /\ rs = 0 /\ qty = 0 /\ arr = <<>> /\ threw = FALSE

-----------------------------------------------------------------------------
(* The client *)

\* A client changes the type, or ends a session that it means to append to, when
\* the last Write has returned IsOk.
ClientWriteInfo(ty) ==
    /\ ~converting /\ Len(given) < MaxTypes /\ ret = "ok"
    /\ WriteInfo(ty)
    /\ given' = Append(given, 0)
    /\ UNCHANGED <<converting, reader, threw>>

\* The next n objects, in one Write.
ClientWrite(n) ==
    /\ ~converting /\ given # <<>> /\ Last(given) + n <= MaxObjects
    /\ Write([k \in 1 .. n |-> Last(given) + k])
    /\ given' = [given EXCEPT ![Len(given)] = @ + n]
    /\ UNCHANGED <<converting, reader, threw>>

ClientFlush ==
    /\ ~converting
    /\ Flush
    /\ UNCHANGED <<given, converting, reader, threw>>

\* Dispose and, at the end of the same file, a new writer: no header is written.
\* Its type is null, so a description comes next.
ClientAppend ==
    /\ ~converting /\ pc = "idle" /\ ret = "ok" /\ inf # <<>>
    /\ sent' = Flushed(sent, Block)
    /\ New(text) /\ UNCHANGED pc
    /\ UNCHANGED <<given, converting, reader, threw>>

\* A mistaken ClientCloses: Dispose does not flush.
ClientClosesUnflushed ==
    /\ ~converting /\ pc \in {"idle", "thrown"}
    /\ IF text THEN /\ pc' = "closed" /\ Block' = <<>>
                    /\ UNCHANGED <<text, inf, Skip, currObj, objs, pending, walk, ret, sent>>
                    /\ UNCHANGED <<converting, file>>
       ELSE /\ file' = sent /\ sent' = <<>> /\ pc' = "idle"
            /\ New(TRUE) /\ converting' = TRUE
    /\ UNCHANGED <<given, part, blk, src, rskip, rpos, rs, qty, arr, threw>>

\* Dispose, by "using" also when an exception has left Write: the block as it is
\* counted goes out, and a binary file is converted.
ClientCloses ==
    /\ ~converting /\ pc \in {"idle", "thrown"}
    /\ IF text THEN /\ sent' = Flushed(sent, Block) /\ Block' = <<>> /\ pc' = "closed"
                    /\ UNCHANGED <<text, inf, Skip, currObj, objs, pending, walk, ret>>
                    /\ UNCHANGED <<converting, file>>
       ELSE /\ file' = Flushed(sent, Block) /\ sent' = <<>> /\ pc' = "idle"
            /\ New(TRUE) /\ converting' = TRUE
    /\ UNCHANGED <<given, part, blk, src, rskip, rpos, rs, qty, arr, threw>>

-----------------------------------------------------------------------------
(* BinToTxtConverter *)

Reading == converting /\ pc = "idle" /\ Block = <<>>
PartRead == part # 0 => blk = Len(file[part].blocks)

ReadInfoBlock ==
    /\ Reading /\ PartRead /\ part < Len(file)
    /\ WriteInfo(file[part + 1].inf)
    /\ part' = part + 1 /\ blk' = 0
    /\ UNCHANGED <<given, converting, file, src, rskip, rpos, rs, qty, arr, threw>>

ReadDataBlock ==
    /\ Reading /\ ~PartRead
    /\ src' = file[part].blocks[blk + 1] /\ blk' = blk + 1
    /\ arr' = <<>> /\ rpos' = 1 /\ rs' = rskip /\ qty' = 0 /\ pc' = "read"
    /\ UNCHANGED <<text, inf, Skip, currObj, objs, Block, pending, walk, ret, sent>>
    /\ UNCHANGED <<given, converting, file, part, rskip, threw>>

\* ReadBlock finds no other block.
FileRead == part = Len(file) /\ PartRead

ReadItems == ItemsOf(inf, FALSE)
AtRead == pc = "read" /\ rpos <= Len(ReadItems)

PassPrimitive ==
    /\ AtRead /\ rs > 0
    /\ rs' = rs - 1 /\ rpos' = rpos + 1
    /\ UNCHANGED <<writer, given, converting, file, part, blk, src, rskip, qty, arr, threw>>

\* Bytes of another item, or of another type, do not make the object.
ReadPrimitive ==
    /\ AtRead /\ rs = 0 /\ src # <<>>
    /\ arr' = Append(arr, IF Head(src).item = rpos THEN Head(src).obj ELSE -1)
    /\ src' = Tail(src) /\ qty' = qty + 1 /\ rpos' = rpos + 1
    /\ UNCHANGED <<writer, given, converting, file, part, blk, rskip, rs, threw>>

ReadRecord ==
    /\ pc = "read" /\ rpos > Len(ReadItems)
    /\ rskip' = 0 /\ rs' = 0 /\ qty' = 0 /\ rpos' = 1
    /\ UNCHANGED <<writer, given, converting, file, part, blk, src, arr, threw>>

\* A mistaken BlockEnds: the place in the record is forgotten.
BlockEndsAnew ==
    /\ AtRead /\ rs = 0 /\ src = <<>>
    /\ rskip' = 0 /\ rpos' = 1 /\ rs' = 0 /\ qty' = 0 /\ arr' = <<>>
    /\ IF arr = <<>> THEN pc' = "idle" /\ UNCHANGED <<objs, walk>>
       ELSE objs' = arr /\ pos' = 1 /\ skip' = Skip /\ wqty' = 0 /\ pc' = "walk"
    /\ UNCHANGED <<text, inf, Skip, currObj, Block, pending, ret, sent>>
    /\ UNCHANGED <<given, converting, file, part, blk, src, threw>>

\* The block is at its end: what was read is written.
BlockEnds ==
    /\ AtRead /\ rs = 0 /\ src = <<>>
    /\ rskip' = rskip + qty /\ rpos' = 1 /\ rs' = 0 /\ qty' = 0 /\ arr' = <<>>
    /\ IF arr = <<>> THEN pc' = "idle" /\ UNCHANGED <<objs, walk>>
       ELSE objs' = arr /\ pos' = 1 /\ skip' = Skip /\ wqty' = 0 /\ pc' = "walk"
    /\ UNCHANGED <<text, inf, Skip, currObj, Block, pending, ret, sent>>
    /\ UNCHANGED <<given, converting, file, part, blk, src, threw>>

ConverterFlush ==
    /\ converting
    /\ Flush
    /\ UNCHANGED <<given, converting, reader, threw>>

\* A mistaken ConverterCloses: only at the end of the file.
ConverterClosesAtEnd ==
    /\ converting /\ pc = "idle" /\ Block = <<>> /\ FileRead
    /\ sent' = Flushed(sent, Block) /\ Block' = <<>> /\ pc' = "closed"
    /\ UNCHANGED <<text, inf, Skip, currObj, objs, pending, walk, ret>>
    /\ UNCHANGED <<given, converting, reader, threw>>

\* The end of the file, or an exception, which leaves Execute: Dispose flushes
\* the writer.
ConverterCloses ==
    /\ converting
    /\ (pc = "idle" /\ Block = <<>> /\ FileRead) \/ pc = "thrown"
    /\ sent' = Flushed(sent, Block) /\ Block' = <<>> /\ pc' = "closed"
    /\ UNCHANGED <<text, inf, Skip, currObj, objs, pending, walk, ret>>
    /\ UNCHANGED <<given, converting, reader, threw>>

Call == Walk /\ threw' = (threw \/ pc' = "thrown") /\ UNCHANGED <<given, converting, reader>>
Convert ==
    \/ ReadInfoBlock \/ ReadDataBlock
    \/ PassPrimitive \/ ReadPrimitive \/ ReadRecord \/ BlockEnds
    \/ ConverterFlush \/ ConverterCloses

Next ==
    \/ \E ty \in Types : ClientWriteInfo(ty)
    \/ \E n \in 1 .. MaxObjects : ClientWrite(n)
    \/ ClientFlush \/ ClientAppend \/ ClientCloses
    \/ Call \/ Convert

\* Write and Execute run to their ends; a client may stop between two calls.
Spec == Init /\ [][Next]_vars /\ WF_vars(Call) /\ WF_vars(Convert)

-----------------------------------------------------------------------------
(* Properties *)

Tokens == [item : Nat \ {0}, obj : -1 .. MaxObjects]
Parts == [inf : Types, blocks : Seq(Seq(Tokens))]

\* The variables keep their types, and the block its size.
TypeOK ==
    /\ text \in BOOLEAN /\ converting \in BOOLEAN /\ threw \in BOOLEAN
    /\ inf \in Types \cup {<<>>}
    /\ Skip \in 0 .. Len(Items) /\ skip \in 0 .. Skip /\ wqty \in 0 .. Len(Items)
    /\ pos \in 1 .. Len(Items) + 1
    /\ currObj \in -1 .. MaxObjects /\ objs \in Seq(-1 .. MaxObjects)
    /\ Block \in Seq(Tokens) /\ pending \in Seq(Tokens)
    /\ pc \in {"idle", "walk", "thrown", "read", "closed"}
    /\ ret \in {"ok", "src"}
    /\ sent \in Seq(Parts) /\ file \in Seq(Parts)
    /\ Len(given) <= MaxTypes /\ given \in Seq(0 .. MaxObjects)
    /\ part \in 0 .. Len(file) /\ blk \in Nat
    /\ src \in Seq(Tokens) /\ arr \in Seq(-1 .. MaxObjects)
    /\ rskip \in 0 .. Len(ReadItems) /\ rs \in 0 .. rskip /\ qty \in 0 .. Len(ReadItems)
    /\ rpos \in 1 .. Len(ReadItems) + 1
    /\ pc = "walk" => Room >= 0

\* The tokens in stream s behind its k-th description.
TokensOf(s, k) == FlattenSeq(s[k].blocks)

\* The stream as it would be if all that is in the block went out.
Stream == Flushed(sent, Block \o pending)

\* The n-th token of records of such items.
Expected(items, n) ==
    LET item == ((n - 1) % Len(items)) + 1
        records == (n - 1) \div Len(items)
    IN  [item |-> item,
         obj |-> IF IsPrim(items[item])
                 THEN records * PrimQty(items) + Prims(items)[item] ELSE 0]

InOrder(items, tokens) == \A n \in 1 .. Len(tokens) : tokens[n] = Expected(items, n)

\* What has been written under a type is the front of a sequence of records made
\* of the client's objects: each object once, in order, every separator in its
\* place; in the client's file and in the converted one, wherever the client cut
\* its objects, a block ended or an exception struck (BaseWriter.cs 40-159).
WrittenInOrder ==
    \A k \in 1 .. Len(Stream) :
        InOrder(ItemsOf(Stream[k].inf, text), TokensOf(Stream, k))

\* Between two calls Skip tells the place in the record, and no object waits.
SkipTellsTheRest ==
    pc = "idle" /\ inf # <<>> =>
        /\ currObj = 0 /\ objs = <<>> /\ pending = <<>>
        /\ Skip = Len(TokensOf(Stream, Len(Stream))) % Len(Items)

\* The objects in n tokens of records of such items.
Done(items, n) == (n \div Len(items)) * PrimQty(items) + Prims(items)[n % Len(items)]

\* n tokens are all that m objects allow: they end where a record does, or inside
\* one, before a primitive for which there is no object.
AllOf(items, m, n) ==
    LET place == n % Len(items)
    IN  /\ Done(items, n) = m
        /\ place # 0 => Prims(items)[place] > 0 /\ IsPrim(items[place + 1])

\* What Write returns tells the client whether its record is complete, and then
\* all of it is written, in text the separators behind the last primitive too
\* (TestStructSerialize.cs 284-287).
IsOkTellsRecords ==
    pc = "idle" /\ ~converting /\ given # <<>> /\ inf # <<>> =>
        /\ ret = "ok" <=> Last(given) % PrimQty(Items) = 0
        /\ AllOf(Items, Last(given), Len(TokensOf(Stream, Len(given))))

\* A text file, given by the client or converted, is whole when it is closed,
\* unless an exception struck: it has all the descriptions, and behind each all
\* that the objects given allow, so that the two ways to it end in the same file
\* (TestStructSerialize.cs 312-313, 266-269).
TextIsWhole ==
    pc = "closed" /\ ~threw =>
        /\ Len(sent) = Len(given)
        /\ \A k \in 1 .. Len(given) :
             AllOf(ItemsOf(sent[k].inf, TRUE), given[k], Len(TokensOf(sent, k)))

\* Every Write returns or throws, and the converter comes to the end of its file.
WriteReturns == pc = "walk" ~> pc # "walk"
ConverterEnds == converting ~> pc = "closed"
=============================================================================
