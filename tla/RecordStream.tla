---------------------------- MODULE RecordStream ----------------------------
(***************************************************************************)
(* What EdfWriteDataBlock promises, whatever the block size and however    *)
(* the client cuts its data: the bytes it is given come out once each, in  *)
(* order, as the primitives of records of the current type, with the       *)
(* separators of the text form between them.                               *)
(*                                                                         *)
(* A record is a sequence of items: separators and primitives, each with   *)
(* the source bytes it takes (src).  Source bytes are numbered 1, 2, ...   *)
(* from the type description on.  A token is one item written.             *)
(***************************************************************************)
EXTENDS Integers, Sequences, Totals

CONSTANTS
    Schemas,   \* the record types: nonempty sequences of items
    MaxBytes   \* bound on the bytes given under one type

VARIABLES
    schema,  \* the items of a record of the current type
    given,   \* number of source bytes given
    out      \* the tokens written

TakenBy(tokens) == Total([n \in DOMAIN tokens |-> Len(tokens[n].bytes)])

\* Every byte given has been written, and the last record is complete.
Complete == Len(out) % Len(schema) = 0 /\ TakenBy(out) = given

Init ==
    /\ schema \in Schemas
    /\ given = 0 /\ out = <<>>

Give ==
    /\ given' \in given + 1 .. MaxBytes
    /\ UNCHANGED <<schema, out>>

\* The next item, with the next bytes.
Put ==
    LET item  == (Len(out) % Len(schema)) + 1
        taken == TakenBy(out)
    IN  /\ taken + schema[item].src <= given
        /\ out' = Append(out, [item  |-> item,
                               bytes |-> [n \in 1 .. schema[item].src |-> taken + n]])
        /\ UNCHANGED <<schema, given>>

\* A new type description.
Retype ==
    /\ Complete
    /\ schema' \in Schemas
    /\ given' = 0 /\ out' = <<>>

Next == Give \/ Put \/ Retype

Spec == Init /\ [][Next]_<<schema, given, out>>
=============================================================================
