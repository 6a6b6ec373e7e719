------------------------------ MODULE MCEdfNet -------------------------------
(***************************************************************************)
(* EdfNet with a Struct of a number and a string and an array of numbers,  *)
(* in blocks that end at any of their items.                               *)
(***************************************************************************)
EXTENDS EdfNet

Sep == [kind |-> "sep", bin |-> 0, txt |-> 1]
Num == [kind |-> "num", bin |-> 2, txt |-> 2]
Str == [kind |-> "str", bin |-> 3, txt |-> 4]

KeyValue == <<Sep, Sep, Num, Sep, Str, Sep, Sep, Sep>>
Array3 == <<Sep, Sep, Num, Sep, Num, Sep, Num, Sep, Sep, Sep>>
BothTypes == {KeyValue, Array3}
=============================================================================
