---------------------------- MODULE EdfNetWriter ----------------------------
(***************************************************************************)
(* The writers of the .NET library: BaseWriter.Write(object), which walks  *)
(* over the current type once for each record, and what BinWriter and      *)
(* TxtWriter add to it (srcNet/EdfNet/src).                                *)
(*                                                                         *)
(* A walk starts at the front of the type and steps over the first _skip   *)
(* items.  It takes the client's objects one by one from an enumerator,    *)
(* over which several walks go.  The text form has separators between the  *)
(* primitives, the binary one has not.  What a walk has put into the block *)
(* is counted in _blkQty when it ends: "pending" has what is not counted.  *)
(*                                                                         *)
(* A stream is the sequence of the type descriptions written to it, each   *)
(* with the data blocks behind it.                                         *)
(*                                                                         *)
(* This module has the variables and the actions of a writer; EdfNet is    *)
(* the system of clients, files and the converter around it.               *)
(***************************************************************************)
EXTENDS Integers, Sequences, SequencesExt, Totals

CONSTANTS
    Types,     \* the types: sequences of items [kind, bin, txt]
    BlockSize  \* Cfg.Blocksize

ASSUME SizeAssumption == BlockSize \in Nat

\* A primitive takes bin bytes of a binary block or txt of a text one, a
\* separator only txt, and a block takes any item.  txt counts the quotes of a
\* string, bin its length byte.
Item == [kind : {"sep", "num", "str"}, bin : 0 .. BlockSize, txt : 0 .. BlockSize]
ASSUME TypesAssumption ==
    \A ty \in Types :
        /\ ty \in Seq(Item)
        /\ \E n \in 1 .. Len(ty) : ty[n].kind # "sep"
        /\ \A n \in 1 .. Len(ty) :
             /\ (ty[n].kind = "sep") <=> (ty[n].bin = 0)
             /\ ty[n].kind = "str" => ty[n].txt >= 2

VARIABLES
    text,     \* the writer is a TxtWriter
    inf,      \* _currDataType; <<>> for null
    Skip,     \* _skip: items of the current record already written
    currObj,  \* _currObj, an object taken and not written; 0 for null
    objs,     \* what the enumerator has still to give
    Block,    \* the tokens in the block, _blkQty bytes of them
    pending,  \* those behind _blkQty: "writed" bytes
    pos, skip, wqty,  \* the item the walk is at, items to step over, items written
    pc,       \* "idle", "walk", "thrown": an exception has left Write
    ret,      \* what the last Write returned
    sent      \* what the stream got: [inf, blocks] for each description

walk == <<pos, skip, wqty>>
writer == <<text, inf, Skip, currObj, objs, Block, pending, walk, pc, ret, sent>>

IsPrim(item) == item.kind # "sep"

\* How many primitives are among the first 0, 1, ... items, and among all.
PrimFlags(items) == [n \in DOMAIN items |-> IsPrim(items[n])]
Prims(items) == Counts(PrimFlags(items))
PrimQty(items) == Prims(items)[Len(items)]

\* The binary form has only the primitives.
ItemsOf(ty, txt) ==
    IF txt THEN ty ELSE [k \in 1 .. PrimQty(ty) |-> ty[Nth(PrimFlags(ty), k)]]
Items == ItemsOf(inf, text)

Size(item) == IF text THEN item.txt ELSE item.bin
Used(tokens) == Total([n \in DOMAIN tokens |-> Size(Items[tokens[n].item])])
Room == BlockSize - Used(Block \o pending)

\* The stream s after a flush of a block of tokens.
Flushed(s, tokens) ==
    IF tokens = <<>> THEN s ELSE [s EXCEPT ![Len(s)].blocks = Append(@, tokens)]

\* What does not fit: a string is looked at by its characters alone (EdfBinString.cs
\* 30, Primitives.cs 145), and a block that has room for these, or in text for two
\* less, but not for all of it makes the copy throw.
Overflows(item, room) ==
    CASE item.kind # "str" -> Size(item) > room
      [] item.kind = "str" /\ text -> Size(item) - 2 > room + 2
      [] item.kind = "str" /\ ~text -> Size(item) - 1 > room \/ room = 0
Throws(item, room) == Size(item) > room /\ ~Overflows(item, room)

\* The fields of a new writer.
New(txt) ==
    /\ text' = txt /\ inf' = <<>> /\ Skip' = 0 /\ currObj' = 0 /\ objs' = <<>>
    /\ Block' = <<>> /\ pending' = <<>>
    /\ pos' = 1 /\ skip' = 0 /\ wqty' = 0 /\ ret' = "ok"

-----------------------------------------------------------------------------
(* Write(TypeRec), Flush, Write(object) *)

\* _skip and _currObj stay.
WriteInfo(ty) ==
    /\ pc = "idle"
    /\ sent' = Append(Flushed(sent, Block), [inf |-> ty, blocks |-> <<>>])
    /\ inf' = ty /\ Block' = <<>>
    /\ UNCHANGED <<text, Skip, currObj, objs, pending, walk, pc, ret>>

Flush ==
    /\ pc = "idle" /\ Block # <<>>
    /\ sent' = Flushed(sent, Block) /\ Block' = <<>>
    /\ UNCHANGED <<text, inf, Skip, currObj, objs, pending, walk, pc, ret>>

\* Write(object), whose primitives are os (PrimitiveDecomposer).
Write(os) ==
    /\ pc = "idle" /\ inf # <<>>
    /\ objs' = os
    /\ pos' = 1 /\ skip' = Skip /\ wqty' = 0 /\ pc' = "walk"
    /\ UNCHANGED <<text, inf, Skip, currObj, Block, pending, ret, sent>>

At == pc = "walk" /\ pos <= Len(Items)

StepOver ==
    /\ At /\ skip > 0
    /\ skip' = skip - 1 /\ pos' = pos + 1
    /\ UNCHANGED <<text, inf, Skip, currObj, objs, Block, pending, wqty, pc, ret, sent>>

Token(obj) == [item |-> pos, obj |-> obj]
Wrote == wqty' = wqty + 1 /\ pos' = pos + 1

\* A mistaken WriteSep: the room is not looked at.
WriteSepUnchecked ==
    /\ At /\ skip = 0 /\ ~IsPrim(Items[pos])
    /\ pending' = Append(pending, Token(0)) /\ Wrote
    /\ UNCHANGED <<text, inf, Skip, currObj, objs, Block, skip, pc, ret, sent>>

WriteSep ==
    /\ At /\ skip = 0 /\ ~IsPrim(Items[pos]) /\ Size(Items[pos]) <= Room
    /\ pending' = Append(pending, Token(0)) /\ Wrote
    /\ UNCHANGED <<text, inf, Skip, currObj, objs, Block, skip, pc, ret, sent>>

\* The walk is at a primitive and has an object for it.
AtObject == At /\ skip = 0 /\ IsPrim(Items[pos]) /\ (currObj # 0 \/ objs # <<>>)
Object == IF currObj # 0 THEN currObj ELSE Head(objs)
Taken == objs' = IF currObj # 0 THEN objs ELSE Tail(objs)

WritePrimitive ==
    /\ AtObject /\ Size(Items[pos]) <= Room
    /\ Taken /\ currObj' = 0
    /\ pending' = Append(pending, Token(Object)) /\ Wrote
    /\ UNCHANGED <<text, inf, Skip, Block, skip, pc, ret, sent>>

\* A primitive that does not fit sends the block from inside the walk.
FlushInWalk ==
    /\ AtObject /\ Overflows(Items[pos], Room)
    /\ sent' = Flushed(sent, Block \o pending) /\ Block' = <<>>
    /\ Taken /\ currObj' = 0
    /\ pending' = <<Token(Object)>> /\ Wrote
    /\ UNCHANGED <<text, inf, Skip, skip, pc, ret>>

\* The object has been taken; nothing of this walk is counted.
Throw ==
    /\ AtObject /\ Throws(Items[pos], Room)
    /\ Taken /\ currObj' = Object
    /\ pending' = <<>> /\ pc' = "thrown"
    /\ pos' = 1 /\ skip' = 0 /\ wqty' = 0
    /\ UNCHANGED <<text, inf, Skip, Block, ret, sent>>

-----------------------------------------------------------------------------
(* The loop of Write(object) behind a walk *)

Again(s) == pos' = 1 /\ skip' = s /\ wqty' = 0 /\ UNCHANGED <<pc, ret>>
Return(code) == pos' = 1 /\ skip' = 0 /\ wqty' = 0 /\ pc' = "idle" /\ ret' = code

\* A mistaken ObjectMissing: _skip is set where it should be added to.
ObjectMissingAnew ==
    /\ At /\ skip = 0 /\ IsPrim(Items[pos]) /\ currObj = 0 /\ objs = <<>>
    /\ Block' = Block \o pending /\ pending' = <<>>
    /\ Skip' = wqty
    /\ Return("src")
    /\ UNCHANGED <<text, inf, currObj, objs, sent>>

\* EdfErr.SrcDataRequred.
ObjectMissing ==
    /\ At /\ skip = 0 /\ IsPrim(Items[pos]) /\ currObj = 0 /\ objs = <<>>
    /\ Block' = Block \o pending /\ pending' = <<>>
    /\ Skip' = Skip + wqty
    /\ Return("src")
    /\ UNCHANGED <<text, inf, currObj, objs, sent>>

\* A mistaken RecordEnds: the loop is left after one record.
RecordEndsOnce ==
    /\ pc = "walk" /\ pos > Len(Items)
    /\ Block' = Block \o pending /\ pending' = <<>>
    /\ Skip' = 0
    /\ Return("ok")
    /\ UNCHANGED <<text, inf, currObj, objs, sent>>

\* EdfErr.IsOk: the next record, if there is another object.
RecordEnds ==
    /\ pc = "walk" /\ pos > Len(Items)
    /\ Block' = Block \o pending /\ pending' = <<>>
    /\ Skip' = 0
    /\ IF currObj = 0 /\ objs = <<>>
       THEN Return("ok") /\ UNCHANGED <<currObj, objs>>
       ELSE Again(0) /\ Taken /\ currObj' = Object
    /\ UNCHANGED <<text, inf, sent>>

\* A mistaken SepOverflow: the block is not sent.
SepOverflowUnsent ==
    /\ At /\ skip = 0 /\ ~IsPrim(Items[pos]) /\ Size(Items[pos]) > Room
    /\ Block' = Block \o pending /\ pending' = <<>>
    /\ Skip' = Skip + wqty
    /\ Again(Skip + wqty)
    /\ UNCHANGED <<text, inf, currObj, objs, sent>>

\* EdfErr.DstBufOverflow, of a separator.
SepOverflow ==
    /\ At /\ skip = 0 /\ ~IsPrim(Items[pos]) /\ Size(Items[pos]) > Room
    /\ sent' = Flushed(sent, Block \o pending) /\ Block' = <<>> /\ pending' = <<>>
    /\ Skip' = Skip + wqty
    /\ Again(Skip + wqty)
    /\ UNCHANGED <<text, inf, currObj, objs>>

Walk ==
    \/ StepOver \/ WriteSep \/ WritePrimitive \/ FlushInWalk \/ Throw
    \/ ObjectMissing \/ RecordEnds \/ SepOverflow
=============================================================================
