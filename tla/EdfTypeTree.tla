---------------------------- MODULE EdfTypeTree -----------------------------
(***************************************************************************)
(* The walk of WriteSingleValue and WriteData (BlockWriter.c 40-119) over  *)
(* a type description, as the sequence of items it visits.                 *)
(*                                                                         *)
(* A type is [type, count, childs]: count is the product of Dims, childs   *)
(* the members of a Struct.  SizeOf gives a primitive's bytes in the       *)
(* client's memory and in the block, in binary and in text.                *)
(***************************************************************************)
EXTENDS Integers, Sequences, SequencesExt

Sep(n) == [kind |-> "sep", src |-> 0, out |-> n, need |-> n]

\* The separators that EdfOpenStream sets (EdfWriter.c 183-189, 206-212): their
\* lengths in text ("\n<= " of PoType.h is cut to one), none in binary.
TextSeps ==
    [BeginStruct |-> 1, EndStruct |-> 1, BeginArray |-> 1, EndArray |-> 1,
     SepVarEnd |-> 1, RecBegin |-> 1, RecEnd |-> 1]
BinSeps == [f \in DOMAIN TextSeps |-> 0]

\* A primitive: binary copies its bytes; a text form is one byte longer here, and
\* a number wants room for the NUL of vsnprintf (Primitives.c 84-93).
Prim(kind, size, seps) ==
    [kind |-> kind, src |-> size, out |-> size + seps.SepVarEnd,
     need |-> size + 2 * seps.SepVarEnd]

RECURSIVE ItemsOf(_, _)
ItemsOf(t, seps) ==
    LET elements(e) == FlattenSeq([n \in 1 .. t.count |-> e])
        struct ==
            IF t.childs = <<>> THEN <<>>
            ELSE <<Sep(seps.BeginStruct)>>
                 \o FlattenSeq([n \in DOMAIN t.childs |-> ItemsOf(t.childs[n], seps)])
                 \o <<Sep(seps.EndStruct)>>
        element ==
            IF t.type = "Struct" THEN struct
            ELSE <<Prim("prim", t.size, seps), Sep(seps.SepVarEnd)>>
    IN  IF t.type = "Char"
        THEN <<Prim("char", t.count, seps), Sep(seps.SepVarEnd)>>
        ELSE IF t.count > 1
             THEN <<Sep(seps.BeginArray)>> \o elements(element) \o <<Sep(seps.EndArray)>>
             ELSE elements(element)

RecordItems(t, seps) == <<Sep(seps.RecBegin)>> \o ItemsOf(t, seps) \o <<Sep(seps.RecEnd)>>
=============================================================================
