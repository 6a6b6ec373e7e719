-------------------------- MODULE MCEdfDataWriter ---------------------------
(***************************************************************************)
(* EdfDataWriter on small record types, in binary and in text: a Struct    *)
(* of two sizes, an array, and a Char array (Test.c 208-306 in small).     *)
(***************************************************************************)
EXTENDS EdfDataWriter, EdfTypeTree

Prim1(size) == [type |-> "Int", count |-> 1, size |-> size, childs |-> <<>>]
Array(n, size) == [type |-> "Int", count |-> n, size |-> size, childs |-> <<>>]
Chars(n) == [type |-> "Char", count |-> n, childs |-> <<>>]
Struct(members) == [type |-> "Struct", count |-> 1, childs |-> members]

\* Struct { Int8; Int16 }, and an array of Structs with an array and an empty
\* Struct in each.
MixedStruct == Struct(<<Prim1(1), Prim1(2)>>)
StructArray == [Struct(<<Prim1(1), Array(2, 1), Struct(<<>>)>>) EXCEPT !.count = 2]

PairArray == [Struct(<<Prim1(2)>>) EXCEPT !.count = 2]

BinSchemas ==
    {RecordItems(t, BinSeps) : t \in {MixedStruct, StructArray, Array(2, 3), Chars(3)}}
TextSchemas ==
    {RecordItems(t, TextSeps) : t \in {MixedStruct, StructArray, PairArray, Array(2, 2)}}
ArrayOnly == {RecordItems(Array(3, 3), BinSeps)}
AllSchemas == BinSchemas \cup TextSchemas
=============================================================================
