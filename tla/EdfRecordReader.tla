-------------------------- MODULE EdfRecordReader ---------------------------
(***************************************************************************)
(* Unpacking the records of data blocks: EdfReadBin (BlockWriter.c         *)
(* 215-264) and the two loops that call it again and again on each block,  *)
(* UnpackUInt16KeyVal and its like (KeyValue.c) and the charts of          *)
(* EdfToDyn and EdfToEcho.                                                 *)
(*                                                                         *)
(* A block may end inside a record.  The loop then negates skip, and the   *)
(* next call counts it up again: the fields at which it is still negative  *)
(* have been read before.  A primitive never spans two blocks              *)
(* (EdfDataWriter), so a read fails only where the block ends.             *)
(*                                                                         *)
(* Blocks may end anywhere here.  The loops do not cope with that: a       *)
(* second end inside a record negates a skip that is positive              *)
(* (KeyValue.c:17), and the charts forget the point begun                  *)
(* (ConverterDyn.c:310, 324).  The history variable completed tells the    *)
(* files in which neither happens, and the promises are made for them.     *)
(*                                                                         *)
(* The fields of all records are numbered 1, 2, ... as they are written.   *)
(***************************************************************************)
EXTENDS Integers, Sequences, SequencesExt

CONSTANTS
    Fields,      \* primitives of a record
    Loops,       \* which of the loops "unpack", "chart" is run
    MemRecords,  \* records that the memory behind dst takes
    MaxFields    \* bound on the primitives of the file

ASSUME FieldsAssumption == Fields \in Nat \ {0}
ASSUME LoopsAssumption == Loops \subseteq {"unpack", "chart"}
\* The charts leave a record allocated at the end of a block, and take another.
ASSUME MemRecordsAssumption == MemRecords \in Nat \ {0, 1}
ASSUME MaxFieldsAssumption == MaxFields \in Nat

VARIABLES
    loop,       \* the loop that runs
    written,    \* history: fields put into blocks so far
    src,        \* what is left of the block
    mem,        \* the records allocated in dst since its WPos was last 0
    s,          \* the record being filled, an index of mem; 0 for NULL
    skip,       \* the caller's skip
    field,      \* the field EdfReadBin is at
    pc,         \* where the loop stands
    delivered,  \* history: the records handed to DoOnItem, or made a point
    completed   \* history: no block so far has left a record begun unfinished

vars == <<loop, written, src, mem, s, skip, field, pc, delivered, completed>>

Blank == [f \in 1 .. Fields |-> 0]

Init ==
    /\ loop \in Loops
    /\ written = 0 /\ src = <<>> /\ mem = <<>> /\ s = 0
    /\ skip = 0 /\ field = 1 /\ pc = "idle" /\ delivered = <<>>
    /\ completed = TRUE

\* A block with the next n fields completes the record it starts with; the first
\* one need not, and the blocks of a chart hold whole points, as those of 256
\* bytes do.
Completes(n) ==
    \/ loop = "chart" /\ n % Fields = 0
    \/ loop = "unpack" /\ (written = 0 \/ (written % Fields) + n >= Fields)

\* A mistaken Block: the record begun is forgotten.
BlockAnew(n) ==
    /\ pc = "idle" /\ written + n <= MaxFields
    /\ src' = [k \in 1 .. n |-> written + k] /\ written' = written + n
    /\ completed' = (completed /\ Completes(n))
    /\ s' = 0 /\ pc' = "enter"
    /\ UNCHANGED <<loop, mem, skip, field, delivered>>

\* EdfReadBlock has returned a data block: the loop starts.
Block(n) ==
    /\ pc = "idle" /\ written + n <= MaxFields
    /\ src' = [k \in 1 .. n |-> written + k] /\ written' = written + n
    /\ completed' = (completed /\ Completes(n))
    /\ s' = IF loop = "unpack" /\ skip # 0 THEN 1 ELSE 0
    /\ pc' = "enter"
    /\ UNCHANGED <<loop, mem, skip, field, delivered>>

\* EdfReadBin is entered: a record is allocated unless the caller has one.
Enter ==
    /\ pc = "enter" /\ (s # 0 \/ Len(mem) < MemRecords)
    /\ IF s = 0 THEN mem' = Append(mem, Blank) /\ s' = Len(mem) + 1
                ELSE UNCHANGED <<mem, s>>
    /\ field' = 1 /\ pc' = "fields"
    /\ UNCHANGED <<loop, written, src, skip, delivered, completed>>

\* MemAlloc has no room for another one: EdfReadBin returns 1, and the loop ends
\* as it does at the end of the block.
NoRoom ==
    /\ pc = "enter" /\ s = 0 /\ Len(mem) >= MemRecords
    /\ skip' = -skip
    /\ pc' = "idle"
    /\ UNCHANGED <<loop, written, src, mem, s, field, delivered, completed>>

\* 247-261: a field read before.
PassField ==
    /\ pc = "fields" /\ field <= Fields /\ skip + 1 < 0
    /\ skip' = skip + 1 /\ field' = field + 1
    /\ UNCHANGED <<loop, written, src, mem, s, pc, delivered, completed>>

ReadField ==
    /\ pc = "fields" /\ field <= Fields /\ skip + 1 >= 0 /\ src # <<>>
    /\ mem' = [mem EXCEPT ![s][field] = Head(src)] /\ src' = Tail(src)
    /\ skip' = skip + 1 /\ field' = field + 1
    /\ UNCHANGED <<loop, written, s, pc, delivered, completed>>

\* Mistaken forms of Short: skip is not negated, or one too small.
ShortPositive ==
    /\ pc = "fields" /\ field <= Fields /\ skip + 1 >= 0 /\ src = <<>>
    /\ skip' = skip + 1
    /\ pc' = "idle"
    /\ UNCHANGED <<loop, written, src, mem, s, field, delivered, completed>>
ShortByOne ==
    /\ pc = "fields" /\ field <= Fields /\ skip + 1 >= 0 /\ src = <<>>
    /\ skip' = -skip
    /\ pc' = "idle"
    /\ UNCHANGED <<loop, written, src, mem, s, field, delivered, completed>>

\* The block is at its end: the loop ends, with skip counted and then negated.
Short ==
    /\ pc = "fields" /\ field <= Fields /\ skip + 1 >= 0 /\ src = <<>>
    /\ skip' = -(skip + 1)
    /\ pc' = "idle"
    /\ UNCHANGED <<loop, written, src, mem, s, field, delivered, completed>>

\* A mistaken Deliver: one record of a block is read, as with an if for the while.
DeliverOnce ==
    /\ pc = "fields" /\ field > Fields
    /\ delivered' = Append(delivered, mem[s])
    /\ s' = 0 /\ skip' = 0 /\ mem' = <<>>
    /\ pc' = "idle"
    /\ UNCHANGED <<loop, written, src, field, completed>>

\* EdfReadBin returned 0: the record is used, and its memory is free again.
Deliver ==
    /\ pc = "fields" /\ field > Fields
    /\ delivered' = Append(delivered, mem[s])
    /\ s' = 0 /\ skip' = 0 /\ mem' = <<>>
    /\ pc' = "enter"
    /\ UNCHANGED <<loop, written, src, field, completed>>

Run == Enter \/ NoRoom \/ PassField \/ ReadField \/ Short \/ Deliver
Next == (\E n \in 1 .. MaxFields : Block(n)) \/ Run

\* The loop over a block is run to its end; the file may end at any time.
Spec == Init /\ [][Next]_vars /\ WF_vars(Run)

-----------------------------------------------------------------------------
(* Properties *)

\* The variables keep their types.
TypeOK ==
    /\ loop \in Loops
    /\ written \in 0 .. MaxFields
    /\ src \in Seq(1 .. MaxFields)
    /\ mem \in Seq([1 .. Fields -> 0 .. MaxFields])
    /\ s \in 0 .. Len(mem)
    /\ skip \in -Fields .. Fields
    /\ field \in 1 .. Fields + 1
    /\ pc \in {"idle", "enter", "fields"}
    /\ delivered \in Seq([1 .. Fields -> 0 .. MaxFields])
    /\ completed \in BOOLEAN

Record(n) == [f \in 1 .. Fields |-> (n - 1) * Fields + f]

\* The records delivered are the records written, in order, with every field in
\* its place (edf.h:34 "reading of data by the schema"), in files whose blocks
\* each complete the record they start with, and for the charts hold whole
\* points.  In other files the loops of KeyValue.c:17 and ConverterDyn.c:308-326
\* put fields in the wrong place, and nothing is promised of them.
RecordsAsWritten ==
    completed => \A n \in 1 .. Len(delivered) : delivered[n] = Record(n)

\* In these files every complete record has been delivered between two blocks,
\* and skip tells the field the next block starts with.
SkipTellsNextField ==
    completed /\ pc = "idle" /\ written > 0 =>
        /\ Len(delivered) = written \div Fields
        /\ skip = -(1 + (written % Fields))

\* The loop over a block ends, wherever blocks end; and in these files it ends
\* behind the last byte of the block.
BlockIsConsumed == pc # "idle" ~> pc = "idle" /\ (completed => src = <<>>)
=============================================================================
