# TLA+ models of EmbeddedDataFormat

EDF is a block format for records written by a device: `src/src` holds the C
library and its converters, `src/srcNet` a .NET library for the same files, and
`src/EdfBinGenerator` a source generator. These modules model the core of the C
library (the file of blocks, the writer of records into blocks, the reader of
records out of blocks, the memory stream between them), the C converters of research
files, the .NET writers with the converter from binary to text, and the type
descriptions of both libraries.

Run a check with `tlc -config X.cfg M` and the proofs of a module with `tlapm M.tla`, for
`SequenceProofs` (lemmas that the others share), `EdfFileProofs`, `EdfFileReadProofs`,
`MemStreamProofs`, `EdfRecordReaderProofs`, `EdfDataWriterProofs`, `EdfNetProofs` and
`EdfConvertersProofs` (a quarter of an hour, the others some minutes each).

## 1. The system

A binary file is a sequence of blocks `Type, Seq, Len, Data, Crc`. The first is
the header (with the flag `UseCrc`), then come type descriptions and data blocks;
a data block holds records of the last description before it. `Seq` is one byte
and wraps. A text file has the same records, without blocks.

| Component | Code | State | Operations | What makes it correct |
|---|---|---|---|---|
| Block file writer | `common/EdfWriter.c`, `converter/FileStreamImpl.c` | `BlkSeq`, `Block`/`DatLen`, the current type `t`, header flags; the file | `EdfOpen` (wb, ab, rb), `EdfWriteHeader`, `EdfWriteInfo`, `EdfFlushDataBlock`, `EdfClose` | a reader gets what was given, in order, once, under its type, after appends, failures and crashes |
| Block reader | `BlockWriter.c` 269-311, `SeekEnd` | `BlkSeq`, `Block`, flags, place in the file | `EdfReadBlock` | no error for a good block; a code at the end or in a torn block; it stops |
| Data writer | `BlockWriter.c` 6-213 | `Skip`, `Buf`/`BufLen`, `Block` | `EdfWriteDataBlock` with the walk `WriteSingleValue`, `WriteData`, `EdfWritePrimitive`, `EdfWriteSep` | records come out complete and in order wherever a block ends, for the ways the client may cut its data |
| Record reader | `BlockWriter.c` 215-264, `KeyValue.c`, loops of `ConverterDyn.c`, `ConverterEcho.c` | `skip`, the record being filled | `EdfReadBin`, `UnpackUInt16KeyVal`, ... | the inverse of the data writer |
| Memory stream | `MemStream.c` | `Buffer`, `RPos`, `WPos` | write, formatted write, read, `StreamCpy`, `MemAlloc` | a queue of bytes |
| Type description codec | `TypeInfo.c`, `EdfHeader.c` | none | `StreamWriteInfBin`, `StreamWriteBinToCBin` | what is written is what is parsed |
| Primitive conversions, CRC | `Primitives.c`, `PoType.c`, `MbCrc.c` | none | `BinToBin`, `BinToStr`, ... | codes -1 and 1 tell which side is short |
| C converters | `converter/*.c` | the structure being filled, `recN`, `precord`, `msDst`, `br.t` | `DatToEdf`, `DynToEdf`, `EchoToEdf`, `EdfToDat`, `EdfToDyn`, `EdfToEcho`, `BinToText` | a research comes back, whatever order its variables have; nothing is stored behind an array; a code tells what happened |
| .NET writers and readers | `srcNet/EdfNet/src` | `_skip`, `_currObj`, `_blkSeq`, the block | `Write(object)`, `Write(TypeRec)`, `Flush`, `ReadBlock`, `ReadObjects` | as in C, and readable by C |
| .NET encodings | `VarInt.cs` and others | none | encode, decode | the inverse of each other |
| Source generator | `EdfBinGenerator.cs` | none at run time | emits serialisers | outside these models |

Interaction is by call, in one thread. The converter or client calls the data
writer, which sends full blocks through `EdfFlushDataBlock` to a stream (a file or
memory); the reader fills `Block` and hands it as a memory stream to `EdfReadBin`,
which keeps its place in the caller's `skip`. Two components share state: the data
writer and the file writer share `Block`, `DatLen` and `t`, and the same structure
`EdfWriter_t` serves the reader and `SeekEnd`.

No thread is started and no lock is taken, so nothing interleaves inside a process.
What is hard: calls that stop in the middle of a record and are continued; the
states an `EdfWriter_t` is left in by a call that failed; a crash in the middle of a
block; a second session that appends; a writer and a reader that must agree on a
counter that wraps and on a flag in the file. `PROJECT.json` lists the hazards, each
at its line, with the property that covers it or the reason why none does yet.

## 2. The modules

**`EdfFile`** is the file with the writer or reader that has it open.

- `disk` is a sequence of frames. A frame that was cut short keeps a `part`:
  `"head"` when a reader meets the end before it knows the length, `"tail"` after.
- `mode` is `"shut"`, `"write"` or `"read"`. `BlkSeq`, `Block`, `t`, `crcOn` are
  fields of `EdfWriter_t`; `EdfOpenStream` sets them all, so `Shut` resets them.
- `OpenWrite`, `OpenAppend` (with `SeekEnd`), `OpenRead`; `WriteHeader`,
  `WriteInfo` (which flushes first), `WriteData`, `Flush`, `CloseWrite`;
  `ReadWhole`, `ReadEnd` (`EdfReadBlock` returning 0 or a code), `CloseRead`.
- `...Fails` is the call whose block the stream refuses, with a part of it
  written: the state is what the early return leaves, so a description stays in
  `Block`. `...Lost` is the call whose block is lost in `fflush`, whose result
  `FileStreamImpl.c:20` drops: the writer goes on as after a success.
- `Crash` stops the device between two calls or inside one, with any part of the
  blocks in flight on the disk. `given` is a history of what was accepted, less
  what a crash took from `Block`.
- A block's data are units, one for each record of one primitive, with the type
  they were written under. How longer records fill blocks is `EdfDataWriter`.

**`EdfDataWriter`** is one call of `EdfWriteDataBlock` after another. `EdfTypeTree`
flattens a type to the items of the walk, a separator or a primitive each; a step is
one item (`StepOver`, `WriteSep`, `WritePrimitive`, `WriteChars`), then `Settle...` is
the code behind the walk, by the code it returned. `need` is what a conversion asks of
the block, more than it writes when `vsnprintf` wants room for its NUL. It
implements **`RecordStream`**: bytes go in, items come out in the order of the type,
and a new type only comes after a complete record. The mapping is
`out <- FlattenSeq(file) \o Block`. `Totals` has the sums over items and tokens that both
modules count with. `MCEdfDataWriter` gives the record types; `SchemaAssumption` asks that
a record has a primitive, since the loop of a call does not end on a type that takes no bytes.
`CopiedChunk` is what a client may do for which the data writer keeps its promise: a call
that begins inside a primitive gives more of it, or ends at the end of a primitive of the same
record. In text the second needs `Single`: between two primitives stands one separator,
which fits behind the number before it, as that number had to leave room for the NUL of
`vsnprintf`. The array of Int32 that `Test.c` 359-383 cuts after 15 and 149 bytes is of this
kind, so that its pieces are admitted in both modes. Between two primitives of an array of
Structs stand several separators; one of them can stop the walk when a part of `Buf` has been
read, line 163 then copies the wrong bytes, and in text such a call is left out.

**`EdfRecordReader`** is the loop "read a block, then `EdfReadBin` until it fails",
for `KeyValue.c` (which keeps the record begun) and the charts (which do not). A
step is one field; `skip` counts and is negated as in the code. Blocks end anywhere, also
where the loops misread: the history variable `completed` says that every block so far has
completed the record it starts with (the charts': held whole points), and is the premise of
what is promised. `NoRoom` is `MemAlloc` failing when a loop has left a record behind.

**`MemStream`** is the stream opened `rw`, byte for byte. It implements
**`ByteQueue`**, with `queue <- Content`. `MCMemStream` names two streams.

**`EdfNetWriter`** has the variables and actions of a .NET writer, binary or text: one
step per item of the walk again, but over a sequence of objects, with `_skip`,
`_currObj`, and `pending` for the bytes behind `_blkQty` ("writed"), which an exception
drops. A separator that does not fit ends the walk (`SepOverflow`), a primitive is
written after a flush from inside it (`FlushInWalk`); a string that only just does not
fit makes the copy throw (`Throw`). **`EdfNet`** composes it with a client, the file and
`BinToTxtConverter.Execute`: the client gives numbered objects, cut anywhere, in one
session or two; a binary file is then read block by block into the same writer as
text. What is in a file are tokens, an item of the type with the object it carries, so
that the text of both ways can be compared. A stream is a sequence of parts, each a type
description (`inf`) with the data blocks behind it (`blocks`); the converter's place in its
file is `part` and `blk`, the descriptions read and the blocks read behind the last.

**`EdfTypeInfo`** is the way of type descriptions: written by the C or the .NET library as
bytes, one block each, then parsed by `BinToText`, `EdfToDyn` or
`BinToTxtConverter.Execute`, and written as text. Bytes are those of the code, as small
numbers; the C parser's memory is counted, as `MemAlloc` only ever adds to it. The two
libraries share the operators where their code does the same, and take `lib` where it
does not: limits of strings, null or empty comments. `MCEdfTypeInfo` has the trees.

**`EdfConverters`** is the way of a research file (`.dat`, `.dyn`, `.echo`) through EDF. One
`WriteVar` for each call of `EdfWriteInfRecData`, one `WritePoint` for each point or record of
the chart, which the data writer may cut at any unit (`PutUnits`); `Open` then takes the
file as it was written, or torn, or with a variable moved, copied, dropped, added or
refused by the parser, or with more points, since the readers find variables by name
and are meant for files of others. One step of `EdfToX` is one turn of the `while` over
`EdfReadBlock`: `ReadInfo`, `ReadVar`, `ReadPoints`, `ReadRecords`, or the ways out, `Leave`
(another type of file, `bDst` used up), `Crash` (a NULL pointer followed, a division by
zero), `Finish`, `OutputFails`. `Read` and `Written` have the conversions of each variable:
the rounding of a float, the digits of `Reflections`, the bit of `Level`, the division by a
step. A float is a whole number of 24 bits times or divided by a power of two (`FloatOf`):
`v / 10.0f` rounds twice, once where the int becomes a float and once in the division, and
ties go to the even number. `SourcesAssumption` says which research files there are: what the fields
of the structures hold (`Fields`, `Points`), products with a step that do not overflow an
int, which would be undefined in C, and a chart no longer than its array. `MCEdfConverters` gives
the research files of the run, which TLC checks against the assumption.

Definitions named "A mistaken ..." are plausible slips of the code; putting one in
place of the real definition makes a run report the property it is paired with.

## 3. The runs

| Run | Result | Question |
|---|---|---|
| `EdfFile` | holds | Sessions of writing, appending, crashing and failing, then a reader: order, types, block numbers, and that the reader stops |
| `EdfFileNoCrc` | `CleanFileReadsBack` violated | Is a file without CRC readable? The two bytes are written and not read |
| `EdfFileTornAppend` | `AppendedIsRead` violated | Is what is appended behind a torn block read? No, and `EdfOpen(.., "ab")` reports nothing |
| `EdfFileSilent` | `FlushedIsRead` violated | Does a code of 0 mean the block is in the file? Not when the disk is full |
| `EdfDataWriter` | holds | Does the data writer implement `RecordStream` for the cuts of `Test.c` 364-367, in binary and in text, with the text cuts over several separators left out? |
| `EdfDataWriterFree` | `SkipAndBufTellTheRest` violated | And for every way of cutting, in binary? No: the carry is copied from the wrong place |
| `EdfRecordReader` | holds | Is a record over two blocks put together again, and does the reader stay in bounds and end wherever blocks end? |
| `MemStream` | holds | Is the stream a queue? |
| `EdfNet` | holds | Does a .NET file have each object once and in order, wherever it was cut and blocks ended, and does a converted file equal the text written directly? |
| `EdfTypeInfo` | holds | Is a description read as it was written, by either library, refused only for a reason, and the same in text? |
| `EdfConverters` | holds | What does a research get back from EDF, when does a converter crash or give up, and does its code tell? |
| `EdfConvertersRoundTrip` | `RoundTrip` violated | Is a dynamogram that went through EDF the same file? Not with a pressure, a weight above 63, some travels, or a short name of a well |

The properties of `EdfFile`. `NoSpuriousSeqError`: no reader gets
`ERR_BLK_WRONG_SEQ` for a block in its place. `ReadsAPrefix`: what was read is a prefix
of what was given. `DataUnderItsInfo`: data is read under the type it was written
under. `JunkOnlyAfterFailedWrite`: bytes of a header or description are handed out
as data only after the write of one failed; the premise is needed, because
`EdfWriteInfo` leaves `DatLen` set when it fails. `CleanFileReadsBack`,
`CrashLosesAtMostABlock` bounds the pending block that a crash takes; that what was written
before is read is `ReadsAPrefix` and, where no block was torn, `CleanFileReadsBack`.
`ReaderStops`. The premises on `"lost"` are needed too: a session that
appends behind a block lost in silence reuses its number, and the gap goes unnoticed.

Bounds, and why they are enough:

- `EdfFile.cfg`: block numbers wrap at 3 and a file has up to 4 blocks, so a
  number is reused; blocks hold 2 records and 3 are given, so a data block fills
  by itself and a second one follows; two types and two values. `FailureMixes` lets one file meet
  failures of data, or of headers and descriptions, or a silent one; the two runs
  with violations also mix the first two kinds, and the proofs put no bound on
  them. `LosesAgain = FALSE` allows one silent loss: `SeqSpan` losses in
  a row (256 in the code) would bring the numbers together again, and are left out. A CRC that
  matches by chance is left out (the proofs do not cover it either).
- `EdfDataWriter.cfg`: a block of 5 bytes and records of 3 to 6 source bytes, so
  that blocks end at every item of a record; 9 bytes are at least one and a half
  records. `Chunks = "copied"` cuts as `CopiedChunk` says, section 2: `EdfWriteDataBlock`
  calls with whole records, and those of `Test.c` 364-367 in binary and text, are among
  these. `"free"` cuts everywhere. With `"copied"`, what is left out are calls that begin
  inside one primitive and end inside another, which `EdfDataWriterFree` shows to lose bytes, and in
  text those that begin inside a primitive and bring another behind several separators:
  `RecordsInOrder` is violated with `Single` taken out of `CopiedChunk`, by the array of two
  Structs.
- `EdfRecordReader.cfg`: four fields, as in `UInt16Value_t`, four records, blocks of
  any length, so that a record may lie in one to four of them. The promises
  `RecordsAsWritten` and `SkipTellsNextField` have the premise `completed`, and both fail
  without it: a block that ends before the record begun is complete makes `KeyValue.c:17`
  negate a `skip` that is positive, and a chart forgets the point begun
  (`ConverterDyn.c:310`). `TypeOK` and the end of the loops (`BlockIsConsumed`) are checked in
  all files. `MemRecords = 2` is the least at which a chart can take one record more.
- `MemStream.cfg`: two streams of 3 bytes with 5 bytes written reach every pair of
  positions, full and empty. `Formats = "short"` keeps to texts at least two bytes
  shorter than the room: with `"any"` the run fails, because a text one or two bytes
  longer is accepted with its end replaced by a NUL (`MemStream.c:39`).

- `EdfNet.cfg`: blocks of 7 bytes, records of 5 bytes in binary and 12 in text (a
  number and a string) or 6 and 13 (three numbers), so that a block ends at every
  item; five objects of each type are more than one record of either; two
  descriptions, with or without a session ended between them. The string makes
  `Throw` happen in both forms.

The properties of `EdfNet`. `WrittenInOrder`: under each description a file has the
front of the sequence of records that its objects make, also after an exception.
`SkipTellsTheRest`: between calls `_skip` is the place in the record and nothing is
held in `_currObj`. `IsOkTellsRecords`: the code tells whether the record is
complete, and then all of it has been written. `TextIsWhole`: when closed, a text has
all that the objects allow, converted or not, which is the comparison that
`TestStructSerialize.cs` makes for one sample. The premise `~threw` is needed: the
exception loses the bytes of the walk. A client gives a new type, or ends a session
it appends to, only after `IsOk`: `Write(TypeRec)` keeps `_skip`, and would step
over objects of the new type otherwise.

- `EdfTypeInfo.cfg`: `MaxStr = 4` stands for 255, with strings of 3, 4 and 5 bytes, one
  below the .NET limit, at it and above both; trees three deep, with arrays, unnamed
  fields and a dimension of two bytes; `BufSize` and `BlockSize` are the sizes of two of
  them, so that others are one byte or more too large; two descriptions in a file,
  so that a buffer has been used.

The properties of `EdfTypeInfo`. `ParsedIsWritten`: what a reader makes of a
description is what was given, its strings cut as the writer cuts them.
`RefusedOnlyForRoom` compares the memory the parser counts with what the structures
need; that `BinToText` still returns 0 behind a refusal is in no property. `ThrowsOnlyAtLongNames`: the .NET reader throws at a name or comment of 255 bytes,
which only C writes, and at nothing else. `SameText`: the text of a converted
description is the one either library would have written, whichever wrote the file
and whichever converted it. Its premise is needed: in C an empty comment is written
to text and lost in binary, and .NET does not cut strings in text.

- `EdfConverters.cfg`: charts of at most two points or records and one edit of a file are
  enough for each of the readers' branches; `ArrayLen = 2` stands for 1000 and 3000, so
  that two points behind the chart are more than the array holds; `MemCap = 6` stands for
  776 bytes, which one of each variable and one more fill (`SizesAssumption` asks for room
  for one of each, as the 776 have). Values are chosen for the
  conversions: a travel whose quotient falls below it, one too large to be a float exactly, travels of both signs, weights of 63, 70 and 1023
  against a mask of 63, a step of 0, both discretes, texts of length 0 to 6. Variables go to three places:
  the front, before the chart, behind it. A float too large for its integer, or one
  divided by a step of 0, becomes 0, which is what x86 makes of it; a negative `Temp`, or a
  step of a travel, cast to `uint16_t` as a float (`ConverterDyn.c:306`, 316), which C leaves
  undefined, keeps its low bits, as on x86. A block holds whole
  points; points and records cut by a block end are `EdfRecordReader` and, for `.dat`,
  the items of `PutUnits`.

The properties of `EdfConverters`. `RestoresVariables` says for each variable what may come
back, so that the losses are all listed in `Kept` and `Late`. `ChartInOrder`: points and
records come back in their order wherever blocks end. `NothingBehindCrc`: the loops store
one point more than the array has, which lands on the crc that is computed afterwards,
and no more. `CrashesOnlyFor`: the three reasons a converter crashes for. `CodeTells`: when 0
is returned without a file, and 1. `ConversionEnds`. Their premises name the edits under
which the promise cannot hold: a variable that was dropped has no value.

Fairness. The liveness properties concern loops in one thread that nothing else can
stop: `FairSpec` of `EdfFile` lets a reader that was opened go on calling
`EdfReadBlock` (as `while (!(err = EdfReadBlock(...)))` does), and `Spec` of
`EdfDataWriter`, `EdfRecordReader`, `EdfNet` (`Write` and `Execute`) and `EdfConverters` (`EdfToX`)
runs a call, once entered, to its end. Nothing
is assumed of clients: they may stop calling at any time, which is also why the
runs of these modules do not check for deadlock (a client that has given all the
bytes of the bound has nothing more to do). `EdfFile` does check for it.

## 4. What is proved

Each theorem holds for every value of the module's constants that its named assumptions
allow; bounds such as `MaxFrames` may have any value.

| Module | Theorem | States |
|---|---|---|
| `EdfFileProofs` | `TypeCorrect` | `Spec => []TypeOK` |
| | `SeqNumbersAgree` | `Spec => []NoSpuriousSeqError` |
| | `DataFollowsItsInfo` | `Spec => []DataUnderItsInfo` |
| | `NoJunkWithoutFailure` | `Spec => []JunkOnlyAfterFailedWrite` |
| | `Invariance` | `Spec => []IInv`, on which the others rest |
| `EdfFileReadProofs` | `PrefixIsRead` | `Spec => []ReadsAPrefix` |
| | `CleanIsRead` | `Spec => []CleanFileReadsBack`, if `FALSE \notin CrcChoices` |
| | `CrashTakesABlock` | `Spec => CrashLosesAtMostABlock` |
| | `Accounting` | `Spec => []RInv`, on which these three rest |
| `EdfDataWriterProofs` | `Refinement` | `Spec => RecordsInOrder`, that is `RecordStream` with `out <- FlattenSeq(file) \o Block` |
| | `ResumesWhereItStopped` | `Spec => []SkipAndBufTellTheRest` |
| | `CodesAreTrue` | `Spec => []CodeTellsWhatIsMissing` |
| | `FullBlocksOnly` | `Spec => BlocksAreFull` |
| | `NoBlockTooLarge` | `Spec => []BlocksFit` |
| | `TypeCorrect` | `Spec => []TypeOK` |
| | `Invariance` | `Spec => []IInv`, on which these six rest (all of them if `Chunks = "copied"`) |
| `MemStreamProofs` | `TypeCorrect` | `Spec => []TypeOK` |
| | `Refinement` | `Spec => StreamsAreQueues`, that is `ByteQueue` with `queue <- Content` |
| `EdfRecordReaderProofs` | `RecordsComeBack` | `Spec => []RecordsAsWritten` |
| | `SkipIsThePlace` | `Spec => []SkipTellsNextField` |
| | `TypeCorrect` | `Spec => []TypeOK` |
| | `Invariance` | `Spec => []IInv`, on which these three rest |
| `EdfNetProofs` | `AllInOrder` | `Spec => []WrittenInOrder` |
| | `SkipTells` | `Spec => []SkipTellsTheRest` |
| | `IsOkTells` | `Spec => []IsOkTellsRecords` |
| | `TextWhole` | `Spec => []TextIsWhole` |
| | `TypeCorrect` | `Spec => []TypeOK` |
| | `Invariance` | `Spec => []IInv`, on which these five rest |
| `EdfConvertersProofs` | `VariablesRestored` | `Spec => []RestoresVariables` |
| | `ChartRestored` | `Spec => []ChartInOrder` |
| | `NothingElseOverwritten` | `Spec => []NothingBehindCrc` |
| | `CrashesKnown` | `Spec => []CrashesOnlyFor` |
| | `ReturnTells` | `Spec => []CodeTells` |
| | `TypeCorrect` | `Spec => []TypeOK` |
| | `Invariance` | `Spec => []Inv`, on which these six rest |

**The file.** None of the safety properties is inductive: what a reader meets was decided
by a writer that has long been closed, perhaps by one that appended after a crash. `IInv`
therefore adds three parts. `FileOK` says what any file satisfies among the blocks a reader
can reach (those before the first torn one): block k is numbered k - 1 modulo `SeqSpan`,
data blocks carry the type of the description before them, and hold data unless a
description had failed. `NextOK` says the same of the block that an open writer would write
next, provided the file can be extended (it ends in no torn block; behind one, an
appender's `BlkSeq` is wrong and may be). `ReaderOK` places the reader: it has consumed
`cursor` reachable blocks and expects number `cursor`. A writer's step takes `NextOK` of one
block into `FileOK` of the file (`FileAppend`, `TornAppend`) and re-establishes `NextOK` for
the block after it; `OpenAppend` re-establishes it from `FileOK`, as `SeekEnd` does by
reading; a reader only uses `FileOK`. The proofs rest on `SeqSpanAssumption`,
`BlockCapAssumption`, `NoTypeAssumption` and `CrcAssumption`.

**What a reader gets.** `RInv` keeps an account: what was given is what was sent to the file,
followed by what the writer still has in `Block` (`Pending`). `Carries` says what the file has
of what was sent: up to any block that can be reached, a front of it, and all of it if the
file can be extended. A block more keeps this (`CarriesAppend`), whether it can be reached or
not, and a torn one adds nothing (`CarriesTorn`), so that a flush that was refused and is
tried again behind its own torn remains breaks nothing. A crash sends nothing, or the
pending block (`InFlightData`). `HeaderFirst` and `StopsAtEnd` add that a file without
failures starts with a header and that its reader stops at the end; the premise on
`CrcChoices` is the one that the run `EdfFileNoCrc` shows to be needed. `DataOf` is a
recursive function over the file, and what it does to one more block takes an induction:
`SequenceProofs` has it (`FlattenAppend`), over the set of lengths for which it holds.

**The data writer.** A walk always starts at the front of the record, so what the code keeps
between two calls, `Skip` and `Buf`, says nothing of the bytes by itself. The invariant is
written around the place `Cur` that has been reached, in items, and `Start`, the source byte
the record begins with. `PlaceOK`: the tokens written end at `Cur`, and `Start` is a
multiple of the record size. `WalkOK`: `skip`, `wqty` and `r` are what the walk has stepped
over and written since `Skip`. `BytesOK`: the bytes not written follow those written without
a gap, in `Buf`, in `Buf` and `xsrc`, or in `src`. `SourceOK` says which of the two `src`
was taken from, and `CutOK` what `CopiedChunk` leaves: the bytes carried end inside the next primitive, or, in
the call that brings the rest, at the end of one. From this follows `CarriedAllOrNone`: behind
a walk over carried bytes either none of `Buf` was read or all of it. In binary no separator
takes room and nothing can stop the walk in between; in text it takes `NoStopBetween`: if
`Single` holds, the primitive just put has left the room it asked for and did not take
(`WalkOK` says so), and the separator behind it is no longer than that. That is what makes line 163 right,
which copies from `src + r` after `src` has been advanced by `r`, and it is what
fails with `Chunks = "free"`, as `EdfDataWriterFree` shows; hence the premise. `StopOK` and
`IdleOK` say why a walk stopped and what the code of a call tells, `CharOK` that a Char array
is never stepped over. An item written (`PutStep`), a step that writes nothing (`WaitStep`),
and the three ways to settle keep all of it. The proofs rest on `SchemaAssumption`,
`CharAssumption` and `SizeAssumption`; sums over one token more are in `SequenceProofs`.

**The memory stream.** The queue is the window of the buffer between `RPos` and `WPos`, and
`TypeOK` (`RPos <= WPos <= size`) is inductive. A write appends to the window
(`AppendToWindow`), `MemStreamMove` carries it to the front unchanged (`MoveKeeps`), a read
takes from its front, and `StreamCpy` is the two together. The proof assumes
`Formats = "short"`, as the run does and for the reason given there, and `MaxByteAssumption`.

**The record reader.** `RecordsAsWritten` says what was delivered, in whole records; the
invariant adds the record begun. `Filled` says how many of its fields have been stored, which
the code only keeps in `skip`, with a sign that changes in the middle of `EdfReadBin`:
`IdleOK`, `EnterOK` and `FieldsOK` give the relation between two blocks, at the entry and
inside the walk. For the charts, which do not keep a record begun, `WholeBlocks` says there
is none. All this is `Tidy`, and holds while every block has completed the record it starts
with; `IInv` is `TypeOK`, `PlaceOK` and `completed => Tidy`. `PlaceOK` holds wherever blocks
end: where the caller's record and the field stand, and that `skip` stays in range although
it may be negated from a wrong sign. The theorems on what is delivered have the premise
`completed`, `TypeCorrect` has none. The proofs rest on `FieldsAssumption`,
`LoopsAssumption`, `MemRecordsAssumption` and `MaxFieldsAssumption`.

**The .NET writers and the converter.** Every safety property of `EdfNet` is about what has
been written, and none is inductive, since the code keeps only `_skip` and what the walk
counts. The invariant counts instead: `Handed`, the objects that the writer has been given
under the current description (by the client, or by the converter out of the blocks it has
read); `Written`, the tokens in the stream, the block and behind `_blkQty`; `DoneQty`, the
objects among these; and `Cur`, the place in the record that `_skip` and the walk have
reached. `SentInOrder` and `PlaceOK`: the tokens are the front of a sequence of records, and
end at `Cur`. `WaitOK`: `_currObj` and what the enumerator has still to give are exactly
the objects between `DoneQty` and `Handed`. `WalkOK` ties `wqty`, `skip` and `pending` to
`_skip`; it also says that a walk which has not yet come to a primitive has an object for
it, which is why no separators are written in front of a record that nobody began.
`RestOK`: between two calls the record is complete or a primitive comes next. `RoomOK` bounds
the block. `WholeBefore` adds that there are whole records before every description: the
client changes the type only after `IsOk`, and without that the new type would start with
a `_skip` of the old one. An item written, before or behind a flush (`TokenStep`), an item stepped
over, and the four ways to leave a walk keep all of it.

The converter composes two instances of this. `FileOK` is what a closed binary file keeps of
the invariant: tokens in order, and all of them unless `threw`. `ReadOK` places
`PrimitiveListReader` in it: the objects in `arr` are the next behind those handed over, the
tokens in `src` those behind what it has read, and `ReadCur`, the place in the record from
`rskip` and the walk over the block, agrees with the number of tokens read; therefore no
token is ever taken for another item (`ReadPrimitive` never appends -1). As the binary form
has no separators, one object is one token there (`DoneOfPrims`), and the text writer is in
the situation of a client that gives whole records before each description. `TextIsWhole`
follows for either way to the text, when the last step closes it; `Emptied` keeps it.
The proofs rest on `SizeAssumption`, `TypesAssumption` (a type has a primitive, only
separators take no bytes in binary, a string has its quotes, and any item fits an empty
block) and `BoundsAssumption`. `IInv` holds in all states of `EdfNet.cfg`.

**The converters.** That a research comes back relates the end of one conversion to the start
of the other, with a changed file between them, so the invariant `Inv` has two halves.
`Writing` follows `XToEdf`: the blocks before `next` are the descriptions and values of
`NamesOf`, in this order, and behind them is the chart's description with blocks whose units,
put together (`Got`), are those of its first points, wherever `PutUnits` has cut them
(`PutIs`, `PointMore`); the reader's variables are untouched. `HasRead` says that there are
places `c` and `e`, a shift `sh` and units `u` such that `FileIs` and `ReaderIs` hold.

`FileIs` is what every edit leaves: the chart's description would be block `c` and its last
block `e`, every other block but the header is a description or the value of the variable
described before it (`Shape`), and the units between are `u`, those of the chart, or begin
`u` if the end was torn off (`UnitsIn`, `Complete`). Where the variables are depends on the
edit: in the order of `NamesOf`, 0 or 2 blocks behind their places (`Ordered`), each once
(`Once`), nowhere else (`Only`), all there (`All`). An insertion shifts what is behind it and a
removal pulls it near, and each of them is first shown to leave the file sound
(`InsertBefore`, `InsertBehind`, `RemoveBefore`) and then where it leaves each description
(`InsertBase`, `BaseDrops`, and one lemma for each edit).

`ReaderIs` is what `XFromEdf` has made of the blocks before `cursor`: `TypeIs`, that `br.t` is the
description the next block of data belongs to; `MemIs`, what bDst has given out; `DatIs`, that
each variable seen has the value it is to come back with, and no other has changed; `DataIs`,
that the units read so far are what the points, or the records and the items of the one begun,
have been made of; `HeadIs`, when the header of the result was written and with which
variables. Two groups of variables need others before them: a travel is divided by a step, and
`Level` takes its bit from `Discrete`. `SpecialIs` has them only where the order is kept, which is what the
premises of `RestoresVariables` and `ChartInOrder` are for: with `"drop"` and `"move"` a step
may be read behind what it divides. `StepNotZero`: a conversion that has come past the largest
weight did not divide by a step of 0 there, hence the weights of the chart come back too.

What the conversions do to a value needs arithmetic. A travel is written as
`(double)(n * step / 10.0f)` and read as `(uint16_t)(d * 10 / step)`: `TravelBack` shows for every
product an int can hold that this is n or n - 1, from the bounds of the two roundings
(`WholeIs`, `TenthIs`): they take less than a step, as a product that is not a float
exactly has a step above 256. The other lemmas are the two digits of `Reflections`, the
six-bit travel and its sign, the two halves of an echogram's byte. The proofs rest on
`FormatsAssumption`, `EditsAssumption`, `SizesAssumption` and `SourcesAssumption`.

Only model-checked: everything about `EdfTypeInfo`; and all liveness
(`ReaderStops`, `CallReturns`, `WriteReturns`, `ConverterEnds`, `ConversionEnds` and the others), which is
outside the prover's reach. The descriptions of `EdfTypeInfo` are trees, and its operators
recurse over them: what they compute for every tree takes an induction that the installed
provers cannot do. The other recursive operators are in `EdfTypeTree`, which a
model-checking module alone uses, so that `EdfDataWriter` can be proved about.

## 5. Not modelled

- A Struct without children, which `TypeInfo.c:28` writes without a count that the
  parsers then miss: `RecsAssumption` of `EdfTypeInfo` excludes it, no caller writes one.
- The values of primitive conversions, `BinToText` on data blocks, the .NET reader on damaged files and `TryRead`: planned, below.
- In the converters: the text mode, which nothing reads back; a variable "Shop", which
  `EdfToDat` knows and no writer makes; `main.c`; `EdfWriteInfDataString`, which they do not call.
- A text record whose last separators did not fit the block when the type changes: the code
  drops them (`BlockWriter.c:205`), and `Retype` keeps to the other cases, so that no property
  catches the loss.
- A Char array larger than `Block`, on which a call does not end (`BlockWriter.c:55`):
  `SchemaAssumption` excludes it.
- A torn header whose `Flags`, taken from the block appended behind it, happen to clear
  `UseCrc`: `EdfReadBlock` (296-299) returns 0 once, and the reader goes on inside that
  block. `ReadEnd` of `EdfFile` ends there.
- In .NET: an object of another type than its item, which returns `WrongType` or throws;
  a client that goes on after an exception; block numbers, which the .NET reader does
  not look at.
- A flush that fails in the middle of a walk: what was written in the walk is counted
  twice (`BlockWriter.c:23`, `:183`), a code of 1 is tried again, another is returned with
  `Skip` as it was (`:197`), and -1 is taken for a short source (`:24`). No promise of the
  documentation is left to state; planned as an action whose effect is shown by a run.
- A Char array in text: `Primitives.c:221` asks for less room than it uses, and what
  happens next depends on the memory behind `Block`.
- Text headers: they are only formatted, nothing reads them back.
- CRC arithmetic, identifiers, .NET formatting tables and base classes, the source
  generator: pure functions or no state of the running system.
- A second header in a file, which no caller writes.

## 6. Plan

1. *Done:* `EdfFile`, `EdfFileProofs`, `EdfDataWriter` with `RecordStream`,
   `EdfRecordReader`, `MemStream` with `ByteQueue`.
2. Failing flushes in `EdfDataWriter` (the tail of stale bytes at `BlockWriter.c:183`,
   the comparison at 197, the code of a full memory stream taken for a short source).
3. *Done:* the type description codec, as `EdfTypeInfo`.
4. *Done:* the converters of research files, as `EdfConverters`. Left: `BinToText` on data.
5. *Done:* the .NET writers and the converter. Left: a new type given inside a record
   (`Write(TypeRec)` keeps `_skip` and `_currObj`), files appended to in .NET read by the C
   reader (`_blkSeq` starts at 0), and `ReadBlock` on the torn files of `EdfFile`, where
   it looks for the next byte that is a block type.
6. `VarInt` and the string conversions as operators over a small word width.
7. *Done:* the proofs of all safety properties of `EdfFile`, `EdfDataWriter`, `MemStream`,
   `EdfRecordReader`, `EdfNet` and `EdfConverters`, with both refinements.
