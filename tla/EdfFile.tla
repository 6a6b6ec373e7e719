------------------------------ MODULE EdfFile ------------------------------
(***************************************************************************)
(* The block file of src/src/common (EdfWriter.c, EdfReadBlock of          *)
(* BlockWriter.c) over the file stream of FileStreamImpl.c.                *)
(*                                                                         *)
(* A .bdf file is a sequence of blocks Type, Seq, Len, Data, Crc.  One     *)
(* EdfWriter_t writes it ("wb", "ab") or reads it ("rb"), never both.  A   *)
(* block write is one fwrite and one fflush: a crash or a failing device   *)
(* leaves the block out, or leaves a front part of it.  The model keeps a  *)
(* front part as a frame whose "part" says whether the cut came before the *)
(* reader knows the length ("head") or after it ("tail").  The writer      *)
(* learns of a failure that fwrite (or another stream) reports: actions    *)
(* ...Fails.  Of one that stdio meets in fflush, whose result              *)
(* FileStreamImpl.c:20 drops, it does not: actions ...Lost.                *)
(*                                                                         *)
(* A block's body is a sequence of units, the primitives of a record:      *)
(* DatLen is Len(Block).  A unit carries the type it was written under,    *)
(* which the file does not store: DataUnderItsInfo needs it.               *)
(***************************************************************************)
EXTENDS Integers, Sequences, SequencesExt

CONSTANTS
    SeqSpan,      \* values of the uint8_t BlkSeq: 256 in the code
    BlockCap,    \* units that fit in Block
    Infos,       \* the type descriptions (TypeRec_t) a client writes
    Values,      \* the primitive values of a record
    CrcChoices,  \* the values of Flags & UseCrc a client puts in the header
    NoType,      \* dw->t = NULL
    MaxFrames,   \* bound on the frames of the file
    MaxGiven,    \* bound on the primitives given to the writer
    FailureMixes,\* bound on the kinds of failure that one file meets
    LosesAgain   \* FALSE: bound of one on the silent losses of a file

ASSUME SeqSpanAssumption == SeqSpan \in Nat \ {0}
ASSUME BlockCapAssumption == BlockCap \in Nat \ {0}
ASSUME NoTypeAssumption == NoType \notin Infos
ASSUME CrcAssumption == CrcChoices \subseteq BOOLEAN

VARIABLES
    disk,    \* the file: a sequence of frames
    mode,    \* what the EdfWriter_t was opened for
    BlkSeq,  \* sequence number of the next block, written or expected
    Block,   \* the units gathered for the next data block (DatLen of them)
    t,       \* the type of the data being written
    crcOn,   \* dw->h.Flags & UseCrc
    cursor,  \* frames the reader has consumed
    skew,    \* the reader stands before two CRC bytes it did not consume
    ret,     \* last code of EdfReadBlock
    given,   \* history: <<type, value>> of each primitive accepted, except those
             \* a crash took from Block
    failed   \* history: the failures since the file was created: a reported one
             \* of a data block ("data") or another ("meta"), a silent one ("lost")

vars == <<disk, mode, BlkSeq, Block, t, crcOn, cursor, skew, ret, given, failed>>
reading == <<cursor, skew, ret>>

Errors == {"type", "seq", "size", "crc"}

\* The bytes of something that is not data: a header, a type description, or
\* what SeekEnd left in Block.  They only matter when a data block carries them.
Junk == [k |-> "junk", t |-> NoType]
Units == [k : {"data"}, t : Infos, x : Values]
         \cup [k : {"info"}, t : Infos] \cup [k : {"junk", "header"}, t : {NoType}]
Frames == [type : {"header", "info", "data"}, seq : 0 .. SeqSpan - 1,
           body : Seq(Units), crc : BOOLEAN, part : {"whole", "head", "tail"}]

Frame(type, n, body) ==
    [type |-> type, seq |-> n % SeqSpan, body |-> body, crc |-> crcOn, part |-> "whole"]
HeaderFrame(c) ==
    [Frame("header", 0, <<[k |-> "header", t |-> NoType]>>) EXCEPT !.crc = c]
InfoFrame(n, i) == Frame("info", n, <<[k |-> "info", t |-> i]>>)
DataFrames == IF Block = <<>> THEN <<>> ELSE <<Frame("data", BlkSeq, Block)>>
\* A mistaken SeqAfterFlush: the counter is not a uint8_t.
SeqAfterFlushWide == BlkSeq + Len(DataFrames)
SeqAfterFlush == (BlkSeq + Len(DataFrames)) % SeqSpan

\* What a write of frame f that did not complete may have left in the file.
Torn(f) == {<<>>} \cup {<<[f EXCEPT !.part = p]>> : p \in {"head", "tail"}}

Whole(f) == f.part = "whole"
\* The header of file d, its first block, sets Flags & UseCrc.
HasCrc(d) == d # <<>> /\ d[1].type = "header" /\ d[1].crc
\* The blocks of d a reader can get at: those before the first torn one, and
\* only the first when its CRC is left unread (skew).
Reachable(d) ==
    {n \in 1 .. Len(d) : (\A m \in 1 .. n : Whole(d[m])) /\ (n > 1 => HasCrc(d))}
\* A block appended to d can be reached.
Extendable(d) == (\A n \in 1 .. Len(d) : Whole(d[n])) /\ (d # <<>> => HasCrc(d))
\* The primitives in b, the body of a data block, and in the data blocks of fs.
DataIn(b) ==
    FlattenSeq([n \in DOMAIN b |-> IF b[n].k = "data" THEN <<<<b[n].t, b[n].x>>>> ELSE <<>>])
FrameData(f) == IF f.type = "data" /\ Whole(f) THEN DataIn(f.body) ELSE <<>>
DataOf(fs) == FlattenSeq([n \in DOMAIN fs |-> FrameData(fs[n])])

Init ==
    /\ disk = <<>> /\ given = <<>> /\ failed = {}
    /\ mode = "shut"
    /\ BlkSeq = 0 /\ Block = <<>> /\ t = NoType /\ crcOn = FALSE
    /\ cursor = 0 /\ skew = FALSE /\ ret = "ok"

\* The EdfWriter_t is not open: EdfOpenStream sets every field of it anew, so
\* what a closed one holds is no state of the system.
Shut ==
    /\ mode' = "shut"
    /\ BlkSeq' = 0 /\ Block' = <<>> /\ t' = NoType /\ crcOn' = FALSE
    /\ cursor' = 0 /\ skew' = FALSE /\ ret' = "ok"

-----------------------------------------------------------------------------
(* Opening *)

\* EdfOpen(file, "wb"): the file is emptied.
OpenWrite ==
    /\ mode = "shut"
    /\ mode' = "write"
    /\ disk' = <<>> /\ given' = <<>> /\ failed' = {}
    /\ UNCHANGED <<BlkSeq, Block, t, crcOn, reading>>

\* What SeekEnd finds in Block when the file ends inside a frame: DatLen has
\* been read (in full, or its low byte alone), and is not cleared.
Leftover(f) ==
    IF f.part = "tail" THEN {<<Junk>>} ELSE {<<>>, <<Junk>>}

\* EdfReadBlock called again and again returns the first n blocks ...
ReadsUpTo(n) ==
    n > 0 => /\ n \in Reachable(disk)
             /\ \A m \in 1 .. n : disk[m].seq = (m - 1) % SeqSpan

\* ... and then may return EOF: at the end of the file, in a torn block, or
\* when it takes unread CRC bytes for the head of a block.
SkewAfter(n) == n > 0 /\ ~HasCrc(disk)
MayEnd(n) ==
    n = Len(disk) \/ (n < Len(disk) /\ ~Whole(disk[n + 1])) \/ SkewAfter(n)

\* A mistaken OpenAppend: the sequence starts again at 0.
OpenAppendRestarts ==
    /\ mode = "shut"
    /\ \E n \in 0 .. Len(disk) :
         /\ ReadsUpTo(n) /\ MayEnd(n)
         /\ crcOn' = (n > 0 /\ HasCrc(disk))
    /\ mode' = "write" /\ t' = NoType /\ BlkSeq' = 0 /\ Block' = <<>>
    /\ UNCHANGED <<disk, given, failed, reading>>

\* EdfOpen(file, "ab") that returns 0: SeekEnd has read blocks until EOF.
OpenAppend ==
    /\ mode = "shut"
    /\ \E n \in 0 .. Len(disk) :
         /\ ReadsUpTo(n) /\ MayEnd(n)
         /\ BlkSeq' = n % SeqSpan
         /\ crcOn' = (n > 0 /\ HasCrc(disk))
         /\ Block' \in IF SkewAfter(n) THEN {<<>>, <<Junk>>}
                      ELSE IF n < Len(disk) THEN Leftover(disk[n + 1]) ELSE {<<>>}
    /\ mode' = "write" /\ t' = NoType
    /\ UNCHANGED <<disk, given, failed, reading>>

\* EdfOpen(file, "rb").
OpenRead ==
    /\ mode = "shut"
    /\ mode' = "read"
    /\ UNCHANGED <<disk, BlkSeq, Block, t, crcOn, reading, given, failed>>

-----------------------------------------------------------------------------
(* Writing *)

Writing(fs) == mode = "write" /\ Len(disk) + Len(fs) <= MaxFrames

\* A failure of kind k, noted and bounded.
Fail(k) ==
    /\ failed' = failed \cup {k}
    /\ failed' \in FailureMixes
    /\ k = "lost" /\ k \in failed => LosesAgain

\* A mistaken WriteHeader: DatLen keeps the size of the header.
WriteHeaderKeepsBlock(c) ==
    /\ Writing(<<c>>) /\ disk = <<>>
    /\ disk' = <<HeaderFrame(c)>>
    /\ BlkSeq' = 1 % SeqSpan /\ Block' = <<Junk>> /\ crcOn' = c
    /\ UNCHANGED <<mode, t, given, failed, reading>>

\* EdfWriteHeader.  Clients write it once, into an empty file.
WriteHeader(c) ==
    /\ Writing(<<c>>) /\ disk = <<>>
    /\ disk' = <<HeaderFrame(c)>>
    /\ BlkSeq' = 1 % SeqSpan /\ Block' = <<>> /\ crcOn' = c
    /\ UNCHANGED <<mode, t, given, failed, reading>>

\* EdfWriteHeaderBin has put the header into Block and its size into DatLen
\* when the stream refuses it.
WriteHeaderFails(c) ==
    /\ Writing(<<c>>) /\ disk = <<>>
    /\ disk' \in Torn(HeaderFrame(c))
    /\ BlkSeq' = 0 /\ Block' = <<Junk>> /\ crcOn' = c
    /\ Fail("meta")
    /\ UNCHANGED <<mode, t, given, reading>>

\* The header did not reach the file, or not all of it, and nobody was told.
WriteHeaderLost(c) ==
    /\ Writing(<<c>>) /\ disk = <<>>
    /\ disk' \in Torn(HeaderFrame(c))
    /\ BlkSeq' = 1 % SeqSpan /\ Block' = <<>> /\ crcOn' = c
    /\ Fail("lost")
    /\ UNCHANGED <<mode, t, given, reading>>

\* The header comes first, or its write has been tried.
HeaderTried == disk # <<>> \/ crcOn \/ BlkSeq > 0

\* A mistaken WriteInfo: the pending data goes out after the new description.
WriteInfoFirst(i) ==
    /\ Writing(Append(DataFrames, i)) /\ HeaderTried
    /\ disk' = disk \o <<InfoFrame(BlkSeq, i)>>
                    \o [n \in DOMAIN DataFrames |-> Frame("data", BlkSeq + 1, Block)]
    /\ BlkSeq' = (SeqAfterFlush + 1) % SeqSpan
    /\ Block' = <<>> /\ t' = i
    /\ UNCHANGED <<mode, crcOn, given, failed, reading>>

\* EdfWriteInfo: the pending data block goes out under the old type first.
WriteInfo(i) ==
    /\ Writing(Append(DataFrames, i)) /\ HeaderTried
    /\ disk' = disk \o DataFrames \o <<InfoFrame(SeqAfterFlush, i)>>
    /\ BlkSeq' = (SeqAfterFlush + 1) % SeqSpan
    /\ Block' = <<>> /\ t' = i
    /\ UNCHANGED <<mode, crcOn, given, failed, reading>>

\* The flush succeeds and the type description is refused: it stays in Block.
WriteInfoFails(i) ==
    /\ Writing(Append(DataFrames, i)) /\ HeaderTried
    /\ \E s \in Torn(InfoFrame(SeqAfterFlush, i)) : disk' = disk \o DataFrames \o s
    /\ BlkSeq' = SeqAfterFlush /\ Block' = <<Junk>>
    /\ Fail("meta")
    /\ UNCHANGED <<mode, t, crcOn, given, reading>>

\* The flush succeeds and the type description is lost in silence.
WriteInfoLost(i) ==
    /\ Writing(Append(DataFrames, i)) /\ HeaderTried
    /\ \E s \in Torn(InfoFrame(SeqAfterFlush, i)) : disk' = disk \o DataFrames \o s
    /\ BlkSeq' = (SeqAfterFlush + 1) % SeqSpan
    /\ Block' = <<>> /\ t' = i
    /\ Fail("lost")
    /\ UNCHANGED <<mode, crcOn, given, reading>>

\* A mistaken WriteData: Block is full one primitive too late.
WriteDataLateFlush(x) ==
    LET full == IF Len(Block) > BlockCap THEN DataFrames ELSE <<>>
        unit == [k |-> "data", t |-> t, x |-> x]
    IN  /\ Writing(full) /\ Len(given) < MaxGiven /\ t # NoType
        /\ disk' = disk \o full
        /\ BlkSeq' = (BlkSeq + Len(full)) % SeqSpan
        /\ Block' = IF full = <<>> THEN Append(Block, unit) ELSE <<unit>>
        /\ given' = Append(given, <<t, x>>)
        /\ UNCHANGED <<mode, t, crcOn, failed, reading>>

\* EdfWriteDataBlock of a record of one primitive: a full Block goes out first.
WriteData(x) ==
    LET full == IF Len(Block) >= BlockCap THEN DataFrames ELSE <<>>
        unit == [k |-> "data", t |-> t, x |-> x]
    IN  /\ Writing(full) /\ Len(given) < MaxGiven /\ t # NoType
        /\ disk' = disk \o full
        /\ BlkSeq' = (BlkSeq + Len(full)) % SeqSpan
        /\ Block' = IF full = <<>> THEN Append(Block, unit) ELSE <<unit>>
        /\ given' = Append(given, <<t, x>>)
        /\ UNCHANGED <<mode, t, crcOn, failed, reading>>

\* A mistaken Flush: DatLen is not reset.
FlushKeepsBlock ==
    /\ Writing(DataFrames) /\ Block # <<>>
    /\ disk' = disk \o DataFrames
    /\ BlkSeq' = SeqAfterFlush
    /\ UNCHANGED <<mode, Block, t, crcOn, given, failed, reading>>

\* EdfFlushDataBlock called by a client.
Flush ==
    /\ Writing(DataFrames) /\ Block # <<>>
    /\ disk' = disk \o DataFrames
    /\ BlkSeq' = SeqAfterFlush /\ Block' = <<>>
    /\ UNCHANGED <<mode, t, crcOn, given, failed, reading>>

\* EdfFlushDataBlock refused by the stream, on its own or as the first step of
\* EdfWriteInfo, EdfWriteDataBlock or EdfClose: each returns with Block kept.
FlushFails ==
    /\ Writing(DataFrames) /\ Block # <<>>
    /\ \E s \in Torn(DataFrames[1]) : disk' = disk \o s
    /\ Fail("data")
    /\ UNCHANGED <<mode, BlkSeq, Block, t, crcOn, given, reading>>

\* The same, the block lost in silence: the writer goes on as after a success.
FlushLost ==
    /\ Writing(DataFrames) /\ Block # <<>>
    /\ \E s \in Torn(DataFrames[1]) : disk' = disk \o s
    /\ BlkSeq' = SeqAfterFlush /\ Block' = <<>>
    /\ Fail("lost")
    /\ UNCHANGED <<mode, t, crcOn, given, reading>>

\* A mistaken CloseWrite: the pending block is not flushed.
CloseUnflushed ==
    /\ Writing(DataFrames)
    /\ Shut
    /\ UNCHANGED <<disk, given, failed>>

\* EdfClose of a writer.
CloseWrite ==
    /\ Writing(DataFrames)
    /\ disk' = disk \o DataFrames
    /\ Shut
    /\ UNCHANGED <<given, failed>>

\* The device stops, between two calls or inside the write of a block.
InFlight ==
    {<<>>}
    \cup (IF Block = <<>> THEN {} ELSE Torn(DataFrames[1]))
    \cup (IF disk = <<>> THEN UNION {Torn(HeaderFrame(c)) : c \in CrcChoices} ELSE {})
    \cup (IF HeaderTried
          THEN {DataFrames \o s : s \in UNION {Torn(InfoFrame(SeqAfterFlush, i)) : i \in Infos}}
          ELSE {})

Crash ==
    /\ mode = "write"
    /\ \E s \in InFlight : /\ Len(disk) + Len(s) <= MaxFrames
                           /\ disk' = disk \o s
                           /\ given' = SubSeq(given, 1, Len(given) + Len(DataOf(s))
                                                       - Len(DataOf(DataFrames)))
    /\ Shut
    /\ UNCHANGED failed

-----------------------------------------------------------------------------
(* Reading *)

\* EdfReadBlock on a whole block that starts where the reader stands.
ReadWhole ==
    LET f == disk[cursor + 1]
        c == IF f.type = "header" THEN f.crc ELSE crcOn
    IN  /\ mode = "read" /\ ret = "ok" /\ ~skew
        /\ cursor < Len(disk) /\ Whole(f)
        /\ IF f.seq = BlkSeq
           THEN /\ cursor' = cursor + 1
                /\ BlkSeq' = (BlkSeq + 1) % SeqSpan
                /\ crcOn' = c
                /\ skew' = ~c
                /\ Block' = f.body
                /\ UNCHANGED ret
           ELSE /\ ret' = "seq"
                /\ UNCHANGED <<cursor, BlkSeq, crcOn, skew, Block>>
    /\ UNCHANGED <<disk, mode, t, given, failed>>

\* A mistaken ReadEnd: the end of the file is no error.
ReadEndUnnoticed ==
    /\ mode = "read" /\ ret = "ok"
    /\ \/ skew /\ ret' \in Errors \cup {"eof"}
       \/ ~skew /\ cursor = Len(disk) /\ ret' = "ok"
       \/ ~skew /\ cursor < Len(disk) /\ ~Whole(disk[cursor + 1]) /\ ret' = "eof"
    /\ UNCHANGED <<disk, mode, BlkSeq, Block, t, crcOn, cursor, skew, given, failed>>

\* EdfReadBlock where no whole block starts: at the end, in a torn block (whose
\* missing bytes it takes from the block behind it), or on unread CRC bytes.
\* A CRC that matches by chance is left out, and so is a torn header whose Flags,
\* taken from the block behind it, happen to clear UseCrc: EdfReadBlock (296-299)
\* then compares no CRC and returns 0 once, and the reader goes on inside that block.
ReadEnd ==
    /\ mode = "read" /\ ret = "ok"
    /\ \/ skew /\ ret' \in Errors \cup {"eof"}
       \/ ~skew /\ cursor >= Len(disk) - 1 /\ ret' = "eof"
            /\ (cursor < Len(disk) => ~Whole(disk[cursor + 1]))
       \/ ~skew /\ cursor < Len(disk) - 1 /\ ~Whole(disk[cursor + 1])
            /\ ret' \in {"seq", "size", "crc", "eof"}
    /\ UNCHANGED <<disk, mode, BlkSeq, Block, t, crcOn, cursor, skew, given, failed>>

\* The callers' loops "while (!(err = EdfReadBlock(...)))" stop at any code.
CloseRead ==
    /\ mode = "read" /\ ret # "ok"
    /\ Shut
    /\ UNCHANGED <<disk, given, failed>>

Next ==
    \/ OpenWrite \/ OpenAppend \/ OpenRead
    \/ \E c \in CrcChoices : WriteHeader(c) \/ WriteHeaderFails(c) \/ WriteHeaderLost(c)
    \/ \E i \in Infos : WriteInfo(i) \/ WriteInfoFails(i) \/ WriteInfoLost(i)
    \/ \E x \in Values : WriteData(x)
    \/ Flush \/ FlushFails \/ FlushLost \/ CloseWrite \/ Crash
    \/ ReadWhole \/ ReadEnd \/ CloseRead

Spec == Init /\ [][Next]_vars

\* A reader keeps calling EdfReadBlock until it returns a code.
FairSpec == Spec /\ WF_vars(ReadWhole \/ ReadEnd)

-----------------------------------------------------------------------------
(* Properties *)

\* The variables keep their types.  given is a history, left out here.
TypeOK ==
    /\ disk \in Seq(Frames)
    /\ mode \in {"shut", "write", "read"}
    /\ BlkSeq \in 0 .. SeqSpan - 1
    /\ Block \in Seq(Units)
    /\ t \in Infos \cup {NoType}
    /\ crcOn \in BOOLEAN
    /\ cursor \in Nat
    /\ skew \in BOOLEAN
    /\ ret \in {"ok", "eof"} \cup Errors
    /\ failed \subseteq {"data", "meta", "lost"}

\* The blocks of any session, appended to, crashed or refused by the device (but
\* not in silence), carry consecutive numbers modulo 256 up to the first torn block: EdfReadBlock
\* never answers ERR_BLK_WRONG_SEQ to a block that is in place (EdfWriter.c
\* 26-34, 74, 112, SeekEnd 131-163 against BlockWriter.c 285).
NoSpuriousSeqError ==
    mode = "read" /\ ret = "seq" /\ "lost" \notin failed
        => skew \/ (cursor < Len(disk) /\ ~Whole(disk[cursor + 1]))

\* What a reader has been handed is a prefix of what was given to the writer:
\* nothing twice, nothing out of order, nothing missing in between, whatever
\* flushes were refused and tried again.  (A block lost in silence can be missed
\* in between: the session that appends reuses its number.)
ReadsAPrefix ==
    mode = "read" /\ "lost" \notin failed => IsPrefix(DataOf(SubSeq(disk, 1, cursor)), given)

\* Block j of d is the last type description before place k.
GovernedBy(d, j, k) ==
    /\ j < k /\ d[j].type = "info"
    /\ \A m \in j + 1 .. k - 1 : d[m].type # "info"

\* The units of a data block have the type of the description they follow.
Governed(d) ==
    \A k \in Reachable(d), j \in 1 .. Len(d) :
        d[k].type = "data" /\ GovernedBy(d, j, k)
            => \A n \in 1 .. Len(d[k].body) :
                 d[k].body[n].k = "data" => d[k].body[n].t = d[j].body[1].t

\* Data is read under the type it was written under: EdfWriteInfo flushes the
\* pending block before the new description (EdfWriter.c:59).
DataUnderItsInfo == "lost" \notin failed => Governed(disk)

\* A data block whose content is not data (a header, a description, or what
\* SeekEnd left in Block) never reaches a reader, unless the write of a header
\* or a description had failed: then EdfFlushDataBlock sends it as data.
JunkOnlyAfterFailedWrite ==
    mode = "read" /\ "meta" \notin failed
        => \A n \in 1 .. cursor : disk[n].type = "data" =>
               \A m \in 1 .. Len(disk[n].body) : disk[n].body[m].k = "data"

\* README.md:11 makes the CRC optional: a file written without a failure or a
\* crash inside a block reads back to its end and yields all that was given.
CleanFileReadsBack ==
    mode = "read" /\ ret # "ok" /\ failed = {} /\ (\A n \in 1 .. Len(disk) : Whole(disk[n]))
        => ret = "eof" /\ cursor = Len(disk) /\ DataOf(disk) = given

\* A crash loses no more than the block being gathered, and only from the end.
CrashLosesAtMostABlock ==
    [][Crash => /\ IsPrefix(given', given)
                /\ Len(given) - Len(given') <= BlockCap]_vars

\* A reader's loop ends: every reader gets a code other than 0.
ReaderStops == mode = "read" ~> ret # "ok"

\* edf.h:15 '"ab" - Append existing Binary file': a reader that is through with
\* a file has been handed all that was given to its writers and not lost in a
\* crash, whether it was written before the crash or appended after it.
AppendedIsRead ==
    mode = "read" /\ ret # "ok" /\ failed = {}
        => DataOf(SubSeq(disk, 1, cursor)) = given

\* edf.h:32, EdfFlushDataBlock brings the block to the disk: no call having
\* returned a code, and every block of the file being whole, a reader is handed
\* all that was given.
FlushedIsRead ==
    mode = "read" /\ ret # "ok" /\ failed \subseteq {"lost"}
        /\ (\A n \in 1 .. Len(disk) : Whole(disk[n]))
            => DataOf(SubSeq(disk, 1, cursor)) = given
=============================================================================
