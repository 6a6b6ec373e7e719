--------------------------- MODULE MCEdfTypeInfo ----------------------------
(***************************************************************************)
(* EdfTypeInfo with the shapes the tests write: primitives, arrays in one  *)
(* and two dimensions, structures in structures.  Nested just fits BufSize,*)
(* Deep(Null) just fits BlockSize and Deep(a) does not.                    *)
(***************************************************************************)
EXTENDS EdfTypeInfo

\* Strings of the lengths about MaxStr = 4.
Empty == <<>>
a == <<65>>
abc == <<65, 66, 67>>
abcd == <<65, 66, 67, 68>>
abcde == <<65, 66, 67, 68, 69>>

Leaf(type, dims, name) == [Type |-> type, Dims |-> dims, Name |-> name, Childs |-> <<>>]
Node(dims, name, childs) == [Type |-> Struct, Dims |-> dims, Name |-> name, Childs |-> childs]

Leaves ==
    {Leaf(6, <<>>, Null), Leaf(13, <<>>, a), Leaf(1, <<20>>, Empty), Leaf(12, <<2, 258>>, abc),
     Leaf(6, <<>>, abcd), Leaf(6, <<>>, abcde)}
Nested == Node(<<3>>, a, <<Leaf(2, <<>>, a), Node(<<>>, Null, <<Leaf(6, <<>>, abc)>>)>>)
Deep(name) == Node(<<>>, name, <<Nested, Leaf(12, <<2, 2>>, Null)>>)
Structs ==
    {Node(<<>>, abc, <<Leaf(13, <<>>, a), Leaf(13, <<>>, abc)>>), Nested, Deep(Null), Deep(a)}

Rec(id, inf, name, desc) == [Id |-> id, Inf |-> inf, Name |-> name, Desc |-> desc]
SomeRecs ==
    {Rec(0, inf, a, Null) : inf \in Leaves \cup Structs}
    \cup {Rec(513, Leaf(6, <<>>, a), name, desc) :
             name \in {Null, abc, abcd, abcde}, desc \in {Null, Empty, abc, abcd}}
=============================================================================
