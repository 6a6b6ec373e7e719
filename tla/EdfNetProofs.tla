---------------------------- MODULE EdfNetProofs -----------------------------
(***************************************************************************)
(* The .NET writers and the converter for all types, all sizes of a block  *)
(* and all ways to cut the objects: what is written is in order, Skip      *)
(* tells the place in the record, what Write returns tells whether the     *)
(* record is complete, and a converted file is whole.                      *)
(***************************************************************************)
EXTENDS EdfNet, SequenceProofs

-----------------------------------------------------------------------------
(* The inductive invariant *)

\* The objects handed to the writer under the current description: those given by
\* the client, or those the converter has read and passed on.
ReadSoFar == FlattenSeq(SubSeq(file[part].blocks, 1, blk))
ReadQty == Len(ReadSoFar) - Len(src)
Handed ==
    IF converting THEN IF part = 0 THEN 0 ELSE ReadQty - Len(arr)
    ELSE IF given = <<>> THEN 0 ELSE given[Len(given)]

\* The tokens written under the current description, in the stream and the block,
\* and the objects among them.
Written == TokensOf(sent, Len(sent)) \o (Block \o pending)
DoneQty == Done(Items, Len(Written))

\* The place in the record that has been reached.
Cur == IF pc = "walk" THEN pos - 1 + skip ELSE Skip

Running == pc \in {"idle", "read", "walk"}

\* The last description of the stream is the current one.
TypeNow ==
    /\ inf # <<>> => sent # <<>> /\ sent[Len(sent)].inf = inf
    /\ inf = <<>> => /\ Skip = 0 /\ Block = <<>> /\ ret = "ok"
                     /\ pc \in {"idle", "closed"}

\* What the stream has is in order.
SentInOrder ==
    \A k \in 1 .. Len(sent) : InOrder(ItemsOf(sent[k].inf, text), TokensOf(sent, k))

\* So is what is in the block, and it ends at the place reached.
PlaceOK ==
    inf # <<>> =>
        /\ pc # "closed" => InOrder(Items, Written)
        /\ Running => /\ Len(Written) % Len(Items) = Cur % Len(Items)
                      /\ Cur <= Len(Items) /\ Skip < Len(Items)

\* What waits are the next objects, and all of those handed over.
Waits(o, os, d, n) ==
    /\ o # 0 => o = d + 1 /\ n = d + 1 + Len(os)
                /\ \A i \in 1 .. Len(os) : os[i] = d + 1 + i
    /\ o = 0 => n = d + Len(os) /\ \A i \in 1 .. Len(os) : os[i] = d + i
WaitOK(n) == inf # <<>> /\ Running => Waits(currObj, objs, DoneQty, n)

\* A walk starts at the front, steps over Skip items and counts the others; it
\* has an object for the first primitive.
WalkOK ==
    /\ pc = "walk" =>
         /\ wqty = Cur - Skip
         /\ skip > 0 => Cur = Skip /\ pending = <<>>
         /\ Prims(Items)[Cur] > 0 \/ currObj # 0 \/ objs # <<>>
    /\ pc # "walk" => skip = 0 /\ pos = 1 /\ wqty = 0 /\ pending = <<>>
    /\ pc \in {"idle", "read"} => currObj = 0 /\ objs = <<>>

\* Between two calls the record is complete, or a primitive comes next.
RestOK ==
    pc \in {"idle", "read"} /\ inf # <<>> =>
        /\ ret = "ok" <=> Skip = 0
        /\ Skip # 0 => Prims(Items)[Skip] > 0 /\ IsPrim(Items[Skip + 1])

RoomOK == Running => Used(Block \o pending) <= BlockSize

\* Before a description there are whole records, all that the client gave.
PartOK(ty, txt, n, m) == AllOf(ItemsOf(ty, txt), n, m) /\ n % PrimQty(ty) = 0
WholeBefore ==
    pc # "closed" =>
        /\ ~converting => Len(given) = Len(sent)
        /\ \A k \in 1 .. Len(sent) :
             k < Len(sent) \/ inf = <<>> =>
                 PartOK(sent[k].inf, text, given[k], Len(TokensOf(sent, k)))

\* The file that is converted: its tokens are in order, and none is missing but
\* behind the last description when the client was thrown out.
FileOK ==
    /\ ~converting =>
         /\ file = <<>> /\ part = 0 /\ blk = 0 /\ src = <<>> /\ arr = <<>>
         /\ rskip = 0 /\ rpos = 1 /\ rs = 0 /\ qty = 0 /\ pc # "read"
    /\ converting \/ pc = "closed" => text
    /\ pc = "thrown" => threw
    /\ converting =>
         /\ Len(file) = Len(given)
         /\ \A k \in 1 .. Len(file) :
              /\ InOrder(ItemsOf(file[k].inf, FALSE), TokensOf(file, k))
              /\ k < Len(file) => given[k] % PrimQty(file[k].inf) = 0
              /\ k < Len(file) \/ ~threw => Len(TokensOf(file, k)) = given[k]

\* The place in the record that the converter has reached, and what it has read.
ReadCur == IF pc = "read" THEN rpos - 1 + rs ELSE rskip
ReadOK ==
    converting /\ Running =>
        /\ part = Len(sent)
        /\ part = 0 => inf = <<>> /\ blk = 0 /\ rskip = 0
        /\ part # 0 =>
             /\ inf = file[part].inf
             /\ blk <= Len(file[part].blocks)
             /\ ReadQty >= Len(arr)
             /\ \A i \in 1 .. Len(src) : src[i] = ReadSoFar[ReadQty + i]
             /\ \A i \in 1 .. Len(arr) : arr[i] = Handed + i
             /\ ReadQty % Len(ReadItems) = ReadCur % Len(ReadItems)
             /\ ReadCur <= Len(ReadItems) /\ rskip < Len(ReadItems)
        /\ pc = "read" => qty = ReadCur - rskip /\ (rs > 0 => ReadCur = rskip)
        /\ pc # "read" => src = <<>> /\ arr = <<>> /\ rpos = 1 /\ rs = 0 /\ qty = 0

\* A closed writer has nothing in its block.
Emptied == pc = "closed" => Block = <<>>

WriterOK(n) ==
    TypeNow /\ SentInOrder /\ PlaceOK /\ WaitOK(n) /\ WalkOK /\ RestOK /\ RoomOK
IInv ==
    /\ TypeOK /\ WriterOK(Handed) /\ Emptied /\ WholeBefore /\ FileOK /\ ReadOK
    /\ TextIsWhole

-----------------------------------------------------------------------------
(* The types of the writer and of the rest *)

WriterType ==
    /\ text \in BOOLEAN /\ inf \in Types \cup {<<>>}
    /\ Skip \in 0 .. Len(Items) /\ skip \in 0 .. Skip /\ wqty \in 0 .. Len(Items)
    /\ pos \in 1 .. Len(Items) + 1
    /\ currObj \in -1 .. MaxObjects /\ objs \in Seq(-1 .. MaxObjects)
    /\ Block \in Seq(Tokens) /\ pending \in Seq(Tokens)
    /\ pc \in {"idle", "walk", "thrown", "read", "closed"}
    /\ ret \in {"ok", "src"}
    /\ sent \in Seq(Parts)
    /\ pc = "walk" => Room >= 0

ReaderType ==
    /\ converting \in BOOLEAN /\ threw \in BOOLEAN /\ file \in Seq(Parts)
    /\ Len(given) <= MaxTypes /\ given \in Seq(0 .. MaxObjects)
    /\ part \in 0 .. Len(file) /\ blk \in Nat
    /\ src \in Seq(Tokens) /\ arr \in Seq(-1 .. MaxObjects)
    /\ rskip \in 0 .. Len(ReadItems) /\ rs \in 0 .. rskip /\ qty \in 0 .. Len(ReadItems)
    /\ rpos \in 1 .. Len(ReadItems) + 1

\* Together they are the type invariant.
LEMMA TypeSplit == TypeOK <=> WriterType /\ ReaderType
BY DEF TypeOK, WriterType, ReaderType


-----------------------------------------------------------------------------
(* Types and their items *)

\* The items of a record: there is a primitive among them.
Records == {items \in Seq(Item) : Len(items) # 0 /\ PrimQty(items) # 0}

\* How many primitives are among the first items.
LEMMA PrimsIs ==
    ASSUME NEW items \in Seq(Item)
    PROVE  /\ Len(items) \in Nat /\ DOMAIN items = 1 .. Len(items)
           /\ PrimFlags(items) \in Seq(BOOLEAN) /\ Len(PrimFlags(items)) = Len(items)
           /\ \A k \in 1 .. Len(items) : PrimFlags(items)[k] = IsPrim(items[k])
           /\ Prims(items)[0] = 0 /\ PrimQty(items) \in Nat
           /\ \A k \in 1 .. Len(items) :
                Prims(items)[k] = Prims(items)[k - 1] + (IF IsPrim(items[k]) THEN 1 ELSE 0)
           /\ \A k \in 0 .. Len(items) : Prims(items)[k] \in Nat /\ Prims(items)[k] <= PrimQty(items)
           /\ \A k \in 0 .. Len(items), j \in 0 .. Len(items) :
                j <= k => Prims(items)[j] <= Prims(items)[k]
<1> DEFINE bs == PrimFlags(items)
<1>1. Len(items) \in Nat /\ DOMAIN items = 1 .. Len(items)
  BY LenProperties
<1>2. /\ bs \in Seq(BOOLEAN) /\ Len(bs) = Len(items)
      /\ \A k \in 1 .. Len(items) : bs[k] = IsPrim(items[k])
  <2>1. bs = [n \in 1 .. Len(items) |-> IsPrim(items[n])]
    BY <1>1 DEF PrimFlags
  <2>2. \A n \in 1 .. Len(items) : IsPrim(items[n]) \in BOOLEAN
    BY DEF IsPrim
  <2> QED BY <1>1, <2>1, <2>2
<1>3. Prims(items) = Counts(bs) /\ PrimQty(items) = Counts(bs)[Len(items)]
  BY DEF Prims, PrimQty
<1> HIDE DEF bs
<1>4. /\ Counts(bs)[0] = 0
      /\ \A k \in 1 .. Len(bs) : Counts(bs)[k] = Counts(bs)[k - 1] + (IF bs[k] THEN 1 ELSE 0)
  BY <1>2, CountsIs
<1>5. /\ \A k \in 0 .. Len(bs) : Counts(bs)[k] \in Nat
      /\ \A k \in 0 .. Len(bs), j \in 0 .. Len(bs) : j <= k => Counts(bs)[j] <= Counts(bs)[k]
  BY <1>2, CountsIs
<1>6. Len(items) \in 0 .. Len(items) /\ \A k \in 0 .. Len(items) : k <= Len(items)
  BY <1>1
<1>7. /\ PrimQty(items) \in Nat
      /\ \A k \in 0 .. Len(items) : Prims(items)[k] \in Nat /\ Prims(items)[k] <= PrimQty(items)
  BY <1>2, <1>3, <1>5, <1>6
<1> QED BY <1>1, <1>2, <1>3, <1>4, <1>5, <1>7 DEF bs

\* A type makes records, in text ...
LEMMA TypeIs ==
    ASSUME NEW ty \in Types
    PROVE  ty \in Records /\ ty # <<>>
<1>1. ty \in Seq(Item) /\ \E n \in 1 .. Len(ty) : IsPrim(ty[n])
  BY TypesAssumption DEF IsPrim
<1>2. PICK n \in 1 .. Len(ty) : IsPrim(ty[n])
  BY <1>1
<1>3. /\ Len(ty) \in Nat
      /\ \A k \in 1 .. Len(ty) :
           Prims(ty)[k] = Prims(ty)[k - 1] + (IF IsPrim(ty[k]) THEN 1 ELSE 0)
      /\ \A k \in 0 .. Len(ty) : Prims(ty)[k] \in Nat /\ Prims(ty)[k] <= PrimQty(ty)
      /\ PrimQty(ty) \in Nat
  BY <1>1, PrimsIs
<1>4. n - 1 \in 0 .. Len(ty) /\ n \in 0 .. Len(ty) /\ Len(ty) # 0
  BY <1>3
<1>5. Prims(ty)[n] = Prims(ty)[n - 1] + 1 /\ Prims(ty)[n - 1] \in Nat
  BY <1>2, <1>3, <1>4
<1>6. PrimQty(ty) # 0
  <2>1. Prims(ty)[n] <= PrimQty(ty)
    BY <1>3, <1>4
  <2> QED BY <1>3, <1>5, <2>1
<1>7. ty # <<>>
  BY <1>1, <1>4, EmptyLen
<1> QED BY <1>1, <1>4, <1>6, <1>7 DEF Records

\* ... and in binary, with the same primitives and nothing else.
LEMMA BinaryIs ==
    ASSUME NEW ty \in Types
    PROVE  /\ ItemsOf(ty, FALSE) \in Records
           /\ Len(ItemsOf(ty, FALSE)) = PrimQty(ty)
           /\ PrimQty(ItemsOf(ty, FALSE)) = PrimQty(ty)
           /\ \A k \in 1 .. PrimQty(ty) : IsPrim(ItemsOf(ty, FALSE)[k])
           /\ \A k \in 0 .. PrimQty(ty) : Prims(ItemsOf(ty, FALSE))[k] = k
<1> DEFINE its == ItemsOf(ty, FALSE)
           bs == PrimFlags(ty)
           q == PrimQty(ty)
<1>1. /\ ty \in Seq(Item) /\ q \in Nat \ {0}
      /\ bs \in Seq(BOOLEAN) /\ Len(bs) = Len(ty)
      /\ \A k \in 1 .. Len(ty) : bs[k] = IsPrim(ty[k])
  BY TypeIs, PrimsIs DEF Records
<1>2. q = Counts(bs)[Len(bs)]
  BY <1>1 DEF Prims, PrimQty
<1>3. its = [k \in 1 .. q |-> ty[Nth(bs, k)]]
  BY DEF ItemsOf
<1> HIDE DEF its, bs, q
<1>4. \A k \in 1 .. q : Nth(bs, k) \in 1 .. Len(ty) /\ bs[Nth(bs, k)]
  BY <1>1, <1>2, NthIs
<1>5. \A k \in 1 .. q : ty[Nth(bs, k)] \in Item /\ IsPrim(ty[Nth(bs, k)])
  BY <1>1, <1>4, ElementOfSeq
<1>6. /\ its \in Seq(Item) /\ Len(its) = q
      /\ \A k \in 1 .. q : IsPrim(its[k])
  BY <1>1, <1>3, <1>5
<1>7. /\ PrimFlags(its) \in Seq(BOOLEAN) /\ Len(PrimFlags(its)) = q
      /\ \A k \in 1 .. q : PrimFlags(its)[k]
  BY <1>6, PrimsIs
<1>8. \A k \in 0 .. q : Prims(its)[k] = k
  BY <1>7, CountsAll DEF Prims
<1>9. PrimQty(its) = q
  <2>1. q \in 0 .. q
    BY <1>1
  <2> QED BY <1>6, <1>8, <2>1 DEF PrimQty
<1> QED BY <1>1, <1>6, <1>8, <1>9 DEF Records, its, q

\* Both.
LEMMA ItemsIs ==
    ASSUME NEW ty \in Types, NEW txt \in BOOLEAN
    PROVE  ItemsOf(ty, txt) \in Records /\ PrimQty(ItemsOf(ty, txt)) = PrimQty(ty)
<1>1. CASE txt
  BY <1>1, TypeIs DEF ItemsOf
<1>2. CASE ~txt
  <2>1. txt = FALSE
    BY <1>2
  <2> QED BY <2>1, BinaryIs
<1> QED BY <1>1, <1>2

\* Null has no items.
LEMMA NullIs ==
    ASSUME NEW txt \in BOOLEAN
    PROVE  ItemsOf(<<>>, txt) = <<>> /\ Len(ItemsOf(<<>>, txt)) = 0
<1>1. <<>> \in Seq(Item) /\ Len(<<>>) = 0
  BY EmptySeq
<1>2. PrimQty(<<>>) = 0
  BY <1>1, PrimsIs DEF PrimQty
<1>3. CASE txt
  BY <1>1, <1>3 DEF ItemsOf
<1>4. CASE ~txt
  <2> DEFINE E(k) == (<<>>)[Nth(PrimFlags(<<>>), k)]
             q == PrimQty(<<>>)
  <2>1. ItemsOf(<<>>, txt) = [k \in 1 .. q |-> E(k)]
    BY <1>4 DEF ItemsOf
  <2> HIDE DEF E, q
  <2>2. q \in Nat /\ q = 0 /\ \A k \in 1 .. q : E(k) \in {}
    BY <1>2 DEF q
  <2> DEFINE f == [k \in 1 .. q |-> E(k)]
  <2>3. f \in Seq({})
    BY <2>2
  <2>4. DOMAIN f = 1 .. q
    OBVIOUS
  <2> HIDE DEF f
  <2>5. Len(f) = q
    BY <2>2, <2>3, <2>4, LenProperties
  <2> QED BY <2>1, <2>2, <2>3, <2>5, EmptyLen DEF f
<1> QED BY <1>3, <1>4

-----------------------------------------------------------------------------
(* Places in the sequence of records *)

\* One item more: the place of it, and the record.
LEMMA PlaceNext ==
    ASSUME NEW L \in Nat \ {0}, NEW m \in Nat
    PROVE  /\ m % L \in 0 .. L - 1 /\ m \div L \in Nat
           /\ (m % L) + 1 < L => (m + 1) % L = (m % L) + 1 /\ (m + 1) \div L = m \div L
           /\ (m % L) + 1 = L => (m + 1) % L = 0 /\ (m + 1) \div L = m \div L + 1
<1>1. m \div L \in Nat /\ m = L * (m \div L) + (m % L) /\ m % L \in 0 .. L - 1
  OBVIOUS
<1>2. PICK q \in Nat, c \in 0 .. L - 1 : m = L * q + c /\ m \div L = q /\ m % L = c
  BY <1>1
<1>3. CASE c + 1 < L
  <2>1. m + 1 = L * q + (c + 1) /\ c + 1 \in 0 .. L - 1
    BY <1>2, <1>3
  <2>2. (L * q + (c + 1)) % L = c + 1 /\ (L * q + (c + 1)) \div L = q
    BY <2>1, SMTT(30)
  <2> QED BY <1>2, <1>3, <2>1, <2>2
<1>4. CASE c + 1 = L
  <2>1. m + 1 = L * (q + 1) + 0
    BY <1>2, <1>4
  <2>2. (L * (q + 1) + 0) % L = 0 /\ (L * (q + 1) + 0) \div L = q + 1
    OBVIOUS
  <2> QED BY <1>2, <1>4, <2>1, <2>2
<1> QED BY <1>1, <1>2, <1>3, <1>4

\* A product more.
LEMMA Products ==
    ASSUME NEW P \in Nat, NEW q \in Nat
    PROVE  q * P \in Nat /\ (q + 1) * P = q * P + P
OBVIOUS

\* The next token, and the objects up to it.
LEMMA TokenNext ==
    ASSUME NEW items \in Records, NEW m \in Nat
    PROVE  /\ m % Len(items) \in 0 .. Len(items) - 1
           /\ Done(items, m) \in Nat
           /\ Expected(items, m + 1) =
                [item |-> (m % Len(items)) + 1,
                 obj |-> IF IsPrim(items[(m % Len(items)) + 1]) THEN Done(items, m) + 1 ELSE 0]
           /\ Done(items, m + 1) =
                Done(items, m) + (IF IsPrim(items[(m % Len(items)) + 1]) THEN 1 ELSE 0)
<1> DEFINE L == Len(items)
           P == PrimQty(items)
           c == m % L
           q == m \div L
           one == IF IsPrim(items[c + 1]) THEN 1 ELSE 0
<1>1. /\ L \in Nat \ {0} /\ P \in Nat /\ P = Prims(items)[L] /\ Prims(items)[0] = 0
      /\ \A k \in 1 .. L :
           Prims(items)[k] = Prims(items)[k - 1] + (IF IsPrim(items[k]) THEN 1 ELSE 0)
      /\ \A k \in 0 .. L : Prims(items)[k] \in Nat
  BY PrimsIs DEF Records, PrimQty
<1>2. c \in 0 .. L - 1 /\ q \in Nat
  BY <1>1, PlaceNext
<1>3. /\ c + 1 < L => (m + 1) % L = c + 1 /\ (m + 1) \div L = q
      /\ c + 1 = L => (m + 1) % L = 0 /\ (m + 1) \div L = q + 1
  BY <1>1, PlaceNext
<1>4. /\ Done(items, m) = q * P + Prims(items)[c]
      /\ Done(items, m + 1) = ((m + 1) \div L) * P + Prims(items)[(m + 1) % L]
  BY DEF Done
<1>5. /\ Expected(items, m + 1) =
           [item |-> c + 1,
            obj |-> IF IsPrim(items[c + 1]) THEN q * P + Prims(items)[c + 1] ELSE 0]
  <2>1. (m + 1) - 1 = m
    OBVIOUS
  <2> QED BY <2>1 DEF Expected
<1> HIDE DEF L, P, c, q
<1>6. c + 1 \in 1 .. L /\ c \in 0 .. L /\ (c + 1) - 1 = c
  BY <1>1, <1>2
<1>7. Prims(items)[c + 1] = Prims(items)[c] + one /\ Prims(items)[c] \in Nat
  <2>1. Prims(items)[c + 1] = Prims(items)[(c + 1) - 1] + one
    BY <1>1, <1>6
  <2> QED BY <1>1, <1>6, <2>1
<1>8. q * P \in Nat /\ (q + 1) * P = q * P + P
  BY <1>1, <1>2, Products
<1>9. Done(items, m + 1) = Done(items, m) + one
  <2>1. CASE c + 1 < L
    <3>1. Done(items, m + 1) = q * P + Prims(items)[c + 1]
      BY <1>3, <1>4, <2>1
    <3>2. one \in Nat
      OBVIOUS
    <3> HIDE DEF one
    <3> QED BY <1>4, <1>7, <1>8, <3>1, <3>2
  <2>2. CASE c + 1 = L
    <3>1. Done(items, m + 1) = (q + 1) * P + 0
      BY <1>1, <1>3, <1>4, <2>2
    <3>2. P = Prims(items)[c] + one /\ one \in Nat
      BY <1>1, <1>7, <2>2
    <3> HIDE DEF one
    <3> QED BY <1>1, <1>4, <1>7, <1>8, <3>1, <3>2
  <2> QED BY <1>1, <1>2, <2>1, <2>2
<1>10. IsPrim(items[c + 1]) => q * P + Prims(items)[c + 1] = Done(items, m) + 1
  <2> SUFFICES ASSUME IsPrim(items[c + 1])
               PROVE  q * P + Prims(items)[c + 1] = Done(items, m) + 1
    OBVIOUS
  <2>1. Prims(items)[c + 1] = Prims(items)[c] + 1
    BY <1>7
  <2> QED BY <1>4, <1>7, <1>8, <2>1
<1>11. Done(items, m) \in Nat
  BY <1>4, <1>7, <1>8
<1>12. Expected(items, m + 1) =
         [item |-> c + 1, obj |-> IF IsPrim(items[c + 1]) THEN Done(items, m) + 1 ELSE 0]
  BY <1>5, <1>10, Zenon
<1> QED BY <1>2, <1>9, <1>11, <1>12 DEF c, L

\* Nothing is done by nothing.
LEMMA DoneNothing ==
    ASSUME NEW items \in Records
    PROVE  Done(items, 0) = 0
<1>1. Len(items) \in Nat \ {0} /\ PrimQty(items) \in Nat /\ Prims(items)[0] = 0
  BY PrimsIs DEF Records
<1>2. 0 % Len(items) = 0 /\ 0 \div Len(items) = 0
  BY <1>1
<1> QED BY <1>1, <1>2 DEF Done

\* In records of primitives alone each token is an object.
LEMMA DoneOfPrims ==
    ASSUME NEW items \in Records, NEW m \in Nat,
           PrimQty(items) = Len(items), \A k \in 0 .. Len(items) : Prims(items)[k] = k
    PROVE  Done(items, m) = m
<1>1. Len(items) \in Nat \ {0}
  BY PrimsIs DEF Records
<1>2. m % Len(items) \in 0 .. Len(items) /\ m \div Len(items) \in Nat
      /\ m = Len(items) * (m \div Len(items)) + (m % Len(items))
  BY <1>1
<1>3. Done(items, m) = (m \div Len(items)) * Len(items) + (m % Len(items))
  BY <1>2 DEF Done
<1> DEFINE q == m \div Len(items)
           c == m % Len(items)
           L == Len(items)
<1> HIDE DEF q, c, L
<1>4. L \in Nat /\ q \in Nat /\ c \in Nat /\ m = L * q + c /\ Done(items, m) = q * L + c
  BY <1>1, <1>2, <1>3 DEF q, c, L
<1> QED BY <1>4

\* q records, and r of the primitives of the next.
LEMMA Remainder ==
    ASSUME NEW P \in Nat \ {0}, NEW q \in Nat, NEW r \in 0 .. P - 1
    PROVE  (q * P + r) % P = r
<1>1. q * P + r = P * q + r
  OBVIOUS
<1>2. (P * q + r) % P = r
  BY SMTT(30)
<1> QED BY <1>1, <1>2

\* At a place where no object waits, the objects tell whether the record is
\* complete.
LEMMA WholeRecords ==
    ASSUME NEW items \in Records, NEW m \in Nat,
           m % Len(items) # 0 =>
             /\ Prims(items)[m % Len(items)] > 0
             /\ IsPrim(items[(m % Len(items)) + 1])
    PROVE  Done(items, m) % PrimQty(items) = 0 <=> m % Len(items) = 0
<1> DEFINE L == Len(items)
           P == PrimQty(items)
           c == m % L
           q == m \div L
           r == IF c = 0 THEN 0 ELSE Prims(items)[c]
<1>1. /\ L \in Nat \ {0} /\ P \in Nat \ {0} /\ Prims(items)[0] = 0
      /\ \A k \in 1 .. L :
           Prims(items)[k] = Prims(items)[k - 1] + (IF IsPrim(items[k]) THEN 1 ELSE 0)
      /\ \A k \in 0 .. L : Prims(items)[k] \in Nat /\ Prims(items)[k] <= P
  BY PrimsIs DEF Records
<1>2. c \in 0 .. L - 1 /\ q \in Nat
  BY <1>1, PlaceNext
<1>3. Done(items, m) = q * P + Prims(items)[c]
  BY DEF Done
<1>4. c # 0 => Prims(items)[c] > 0 /\ IsPrim(items[c + 1])
  OBVIOUS
<1> HIDE DEF L, P, c, q
<1>5. ASSUME c # 0
      PROVE  Prims(items)[c] \in 0 .. P - 1 /\ Prims(items)[c] # 0
  <2>1. c + 1 \in 1 .. L /\ c + 1 \in 0 .. L /\ c \in 0 .. L /\ (c + 1) - 1 = c
    BY <1>1, <1>2
  <2>2. Prims(items)[c + 1] = Prims(items)[(c + 1) - 1] + 1
    BY <1>1, <1>4, <1>5, <2>1
  <2>3. Prims(items)[c + 1] <= P /\ Prims(items)[c] \in Nat /\ Prims(items)[c] > 0
    BY <1>1, <1>4, <1>5, <2>1
  <2> QED BY <1>1, <2>1, <2>2, <2>3
<1>6. r \in 0 .. P - 1 /\ Done(items, m) = q * P + r /\ (r = 0 <=> c = 0)
  BY <1>1, <1>3, <1>5
<1> HIDE DEF r
<1>7. (q * P + r) % P = r
  BY <1>1, <1>2, <1>6, Remainder
<1> QED BY <1>6, <1>7 DEF c, P, L

-----------------------------------------------------------------------------
(* Tokens in order *)

\* Sequences of tokens, put together in one way or the other.
LEMMA Reassociate ==
    \A a \in Seq(Tokens), b \in Seq(Tokens), c \in Seq(Tokens) :
        a \o (b \o c) = (a \o b) \o c
<1> TAKE a \in Seq(Tokens), b \in Seq(Tokens), c \in Seq(Tokens)
<1> DEFINE T == Tokens
<1>1. a \in Seq(T) /\ b \in Seq(T) /\ c \in Seq(T)
  OBVIOUS
<1> HIDE DEF T
<1> QED BY <1>1, ConcatAssociative

\* One element more, appended or as a sequence of its own.
LEMMA OneMore ==
    ASSUME NEW T, NEW s \in Seq(T), NEW v \in Seq(T), Len(v) = 1
    PROVE  v[1] \in T /\ s \o v = Append(s, v[1])
<1>1. v[1] \in T /\ Len(s) \in Nat
  <2>1. 1 \in 1 .. Len(v)
    OBVIOUS
  <2>2. v[1] \in T
    BY <2>1, ElementOfSeq
  <2> QED BY <2>2, LenProperties
<1>2. /\ s \o v \in Seq(T) /\ Len(s \o v) = Len(s) + 1
      /\ \A i \in 1 .. Len(s) + 1 : (s \o v)[i] = IF i <= Len(s) THEN s[i] ELSE v[i - Len(s)]
  <2>1. /\ s \o v \in Seq(T) /\ Len(s \o v) = Len(s) + Len(v)
        /\ \A i \in 1 .. Len(s) + Len(v) :
             (s \o v)[i] = IF i <= Len(s) THEN s[i] ELSE v[i - Len(s)]
    BY ConcatProperties
  <2> QED BY <2>1
<1> DEFINE a == Append(s, v[1])
<1>3. /\ a \in Seq(T) /\ Len(a) = Len(s) + 1 /\ a[Len(s) + 1] = v[1]
      /\ \A i \in 1 .. Len(s) : a[i] = s[i]
  BY <1>1, AppendProperties
<1> HIDE DEF a
<1>4. ASSUME NEW i \in 1 .. Len(s) + 1 PROVE (s \o v)[i] = a[i]
  <2>1. CASE i <= Len(s)
    BY <1>1, <1>2, <1>3, <2>1
  <2>2. CASE ~(i <= Len(s))
    <3>1. i = Len(s) + 1 /\ i - Len(s) = 1
      BY <1>1, <2>2
    <3> QED BY <1>2, <1>3, <2>2, <3>1
  <2> QED BY <2>1, <2>2
<1>5. s \o v = a
  BY <1>1, <1>2, <1>3, <1>4, SameSeq
<1> QED BY <1>1, <1>5 DEF a

\* A sequence of one.
LEMMA Single ==
    ASSUME NEW T, NEW t \in T
    PROVE  /\ <<t>> \in Seq(T) /\ Len(<<t>>) = 1 /\ (<<t>>)[1] = t
           /\ \A s \in Seq(T) : Append(s, t) = s \o <<t>>
<1> DEFINE v == <<t>>
<1>1. v \in Seq(T) /\ Len(v) = 1 /\ v[1] = t
  OBVIOUS
<1> HIDE DEF v
<1>2. \A s \in Seq(T) : Append(s, t) = s \o v
  BY <1>1, OneMore
<1> QED BY <1>1, <1>2 DEF v

\* A front of tokens in order is in order.
LEMMA InOrderFront ==
    ASSUME NEW items, NEW T, NEW r \in Seq(T), NEW s \in Seq(T),
           Begins(r, s), InOrder(items, s)
    PROVE  InOrder(items, r)
<1>1. Len(r) \in Nat /\ Len(s) \in Nat /\ Len(r) <= Len(s)
  BY LenProperties DEF Begins
<1>2. \A n \in 1 .. Len(r) : n \in 1 .. Len(s)
  BY <1>1
<1>3. \A n \in 1 .. Len(r) : r[n] = s[n]
  BY DEF Begins
<1> QED BY <1>2, <1>3 DEF InOrder

\* A sequence begins with its first part ...
LEMMA BeginsConcat ==
    ASSUME NEW T, NEW r \in Seq(T), NEW s \in Seq(T)
    PROVE  Begins(r, r \o s)
<1>1. /\ Len(r) \in Nat /\ Len(s) \in Nat
      /\ Len(r \o s) = Len(r) + Len(s)
      /\ \A i \in 1 .. Len(r) + Len(s) :
           (r \o s)[i] = IF i <= Len(r) THEN r[i] ELSE s[i - Len(r)]
  BY LenProperties, ConcatProperties
<1> QED BY <1>1 DEF Begins

\* ... which is in order when all is.
LEMMA InOrderFirst ==
    ASSUME NEW items, NEW T, NEW r \in Seq(T), NEW s \in Seq(T), InOrder(items, r \o s)
    PROVE  InOrder(items, r)
BY BeginsConcat, InOrderFront, ConcatProperties

\* The next token keeps them in order.
LEMMA InOrderNext ==
    ASSUME NEW items, NEW T, NEW s \in Seq(T), NEW v \in Seq(T), Len(v) = 1,
           InOrder(items, s), v[1] = Expected(items, Len(s) + 1)
    PROVE  InOrder(items, s \o v) /\ Len(s \o v) = Len(s) + 1
<1>1. /\ Len(s) \in Nat /\ Len(s \o v) = Len(s) + 1
      /\ \A i \in 1 .. Len(s) + 1 : (s \o v)[i] = IF i <= Len(s) THEN s[i] ELSE v[i - Len(s)]
  <2>1. /\ Len(s) \in Nat /\ Len(s \o v) = Len(s) + Len(v)
        /\ \A i \in 1 .. Len(s) + Len(v) :
             (s \o v)[i] = IF i <= Len(s) THEN s[i] ELSE v[i - Len(s)]
    BY LenProperties, ConcatProperties
  <2> QED BY <2>1
<1>2. \A n \in 1 .. Len(s) : s[n] = Expected(items, n)
  BY DEF InOrder
<1>3. ASSUME NEW n \in 1 .. Len(s \o v) PROVE (s \o v)[n] = Expected(items, n)
  <2>1. CASE n = Len(s) + 1
    <3>1. ~(n <= Len(s)) /\ n - Len(s) = 1
      BY <1>1, <2>1
    <3> QED BY <1>1, <2>1, <3>1
  <2>2. CASE n # Len(s) + 1
    <3>1. n \in 1 .. Len(s) /\ n <= Len(s)
      BY <1>1, <2>2
    <3> QED BY <1>1, <1>2, <3>1
  <2> QED BY <2>1, <2>2
<1> QED BY <1>1, <1>3 DEF InOrder

\* No token is out of order.
LEMMA InOrderEmpty == \A items : InOrder(items, <<>>)
<1>1. Len(<<>>) = 0
  BY EmptySeq
<1> QED BY <1>1 DEF InOrder

-----------------------------------------------------------------------------
(* Streams *)

\* What is behind a description.
LEMMA PartIs ==
    ASSUME NEW s \in Seq(Parts), NEW k \in 1 .. Len(s)
    PROVE  /\ s[k] \in Parts /\ s[k].inf \in Types
           /\ s[k].blocks \in Seq(Seq(Tokens)) /\ TokensOf(s, k) \in Seq(Tokens)
<1>1. s[k] \in Parts
  BY ElementOfSeq
<1>2. s[k].inf \in Types /\ s[k].blocks \in Seq(Seq(Tokens))
  BY <1>1 DEF Parts
<1>3. <<>> \in Seq(Tokens)
  BY EmptySeq
<1> QED BY <1>1, <1>2, <1>3, FlattenAppend DEF TokensOf

\* s2 is s but for the blocks behind the last description.
Kept(s, s2) ==
    /\ s2 \in Seq(Parts) /\ Len(s2) = Len(s)
    /\ \A k \in 1 .. Len(s) : s2[k].inf = s[k].inf
    /\ \A k \in 1 .. Len(s) : k < Len(s) => s2[k] = s[k]

\* So is s itself.
LEMMA KeptSame == \A s \in Seq(Parts) : Kept(s, s)
BY DEF Kept

\* A flush puts its tokens behind the last description.
LEMMA FlushedIs ==
    ASSUME NEW s \in Seq(Parts), s # <<>>, NEW tokens \in Seq(Tokens)
    PROVE  /\ Len(s) \in Nat \ {0} /\ Kept(s, Flushed(s, tokens))
           /\ TokensOf(Flushed(s, tokens), Len(s)) = TokensOf(s, Len(s)) \o tokens
<1> DEFINE n == Len(s)
           p == [s[n] EXCEPT !.blocks = Append(@, tokens)]
           f == [s EXCEPT ![n] = p]
<1>1. n \in Nat \ {0} /\ n \in 1 .. n /\ DOMAIN s = 1 .. n
  <2>1. n \in Nat \ {0}
    BY EmptySeq
  <2> QED BY <2>1, LenProperties
<1>2. s[n] \in Parts /\ s[n].blocks \in Seq(Seq(Tokens)) /\ TokensOf(s, n) \in Seq(Tokens)
  BY <1>1, PartIs
<1>3. CASE tokens = <<>>
  <2>1. Flushed(s, tokens) = s
    BY <1>3 DEF Flushed
  <2>2. TokensOf(s, n) \o tokens = TokensOf(s, n)
    BY <1>2, <1>3, ConcatEmptySeq
  <2> QED BY <1>1, <2>1, <2>2, KeptSame
<1>4. CASE tokens # <<>>
  <2>1. Flushed(s, tokens) = f
    BY <1>4 DEF Flushed
  <2>2. Append(s[n].blocks, tokens) \in Seq(Seq(Tokens))
    BY <1>2, AppendProperties
  <2>3. p \in Parts /\ p.inf = s[n].inf /\ p.blocks = Append(s[n].blocks, tokens)
    BY <1>2, <2>2 DEF Parts
  <2> HIDE DEF p
  <2>4. /\ f \in Seq(Parts) /\ Len(f) = n
        /\ \A k \in 1 .. n : f[k] = IF k = n THEN p ELSE s[k]
    BY <1>1, <2>3, ExceptSeq
  <2> HIDE DEF f
  <2>5. \A k \in 1 .. n : k < n => f[k] = s[k]
    <3> HIDE DEF n
    <3>1. \A k \in 1 .. n : k < n => k # n
      BY <1>1
    <3> QED BY <2>4, <3>1, Zenon
  <2>6. \A k \in 1 .. n : f[k].inf = s[k].inf
    BY <2>3, <2>4
  <2>7. Kept(s, f)
    BY <2>4, <2>5, <2>6 DEF Kept
  <2>8. FlattenSeq(Append(s[n].blocks, tokens)) = FlattenSeq(s[n].blocks) \o tokens
    BY <1>2, FlattenAppend
  <2>9. TokensOf(f, n) = TokensOf(s, n) \o tokens
    BY <1>1, <2>3, <2>4, <2>8 DEF TokensOf
  <2> QED BY <1>1, <2>1, <2>7, <2>9
<1> QED BY <1>3, <1>4

\* A description more, with nothing behind it.
LEMMA InfoMore ==
    ASSUME NEW s \in Seq(Parts), NEW ty \in Types,
           NEW s2, s2 = Append(s, [inf |-> ty, blocks |-> <<>>])
    PROVE  /\ s2 \in Seq(Parts) /\ Len(s) \in Nat /\ Len(s2) = Len(s) + 1 /\ s2 # <<>>
           /\ \A k \in 1 .. Len(s) : s2[k] = s[k]
           /\ s2[Len(s2)].inf = ty /\ TokensOf(s2, Len(s2)) = <<>>
<1> DEFINE p == [inf |-> ty, blocks |-> <<>>]
<1>1. <<>> \in Seq(Seq(Tokens))
  BY EmptySeq
<1>2. p \in Parts /\ p.inf = ty /\ p.blocks = <<>>
  BY <1>1 DEF Parts
<1> HIDE DEF p
<1>3. s2 = Append(s, p)
  BY DEF p
<1>4. /\ s2 \in Seq(Parts) /\ Len(s) \in Nat /\ Len(s2) = Len(s) + 1
      /\ \A k \in 1 .. Len(s) : s2[k] = s[k]
      /\ s2[Len(s) + 1] = p
  BY <1>2, <1>3, AppendProperties, LenProperties
<1>5. s2 # <<>>
  BY <1>4, EmptySeq
<1> QED BY <1>2, <1>4, <1>5, FlattenEmpty DEF TokensOf

-----------------------------------------------------------------------------
(* The room in the block *)

\* A token takes the size of its item.
LEMMA UsedMore ==
    ASSUME WriterType, inf # <<>>, NEW h \in Seq(Tokens), NEW t \in Tokens,
           \A n \in 1 .. Len(h) : h[n].item \in 1 .. Len(Items),
           t.item \in 1 .. Len(Items)
    PROVE  /\ Used(h) \in Nat /\ Size(Items[t.item]) \in 0 .. BlockSize
           /\ Used(Append(h, t)) = Used(h) + Size(Items[t.item])
<1> DEFINE S(x) == Size(Items[x.item])
           f == [n \in DOMAIN h |-> S(h[n])]
           a == Append(h, t)
           g == [n \in DOMAIN a |-> S(a[n])]
<1>1. Items \in Seq(Item) /\ BlockSize \in Nat
  BY ItemsIs, SizeAssumption DEF WriterType, Items, Records
<1>2. \A n \in 1 .. Len(Items) : Size(Items[n]) \in 0 .. BlockSize
  <2> TAKE n \in 1 .. Len(Items)
  <2>1. Items[n] \in Item
    BY <1>1, ElementOfSeq
  <2>2. Items[n].bin \in 0 .. BlockSize /\ Items[n].txt \in 0 .. BlockSize
    BY <2>1 DEF Item
  <2> QED BY <2>2 DEF Size
<1>3. /\ Len(h) \in Nat /\ DOMAIN h = 1 .. Len(h)
      /\ a \in Seq(Tokens) /\ Len(a) = Len(h) + 1 /\ DOMAIN a = 1 .. Len(h) + 1
      /\ \A n \in 1 .. Len(h) : a[n] = h[n]
      /\ a[Len(h) + 1] = t
  BY LenProperties, AppendProperties
<1>4. /\ \A n \in 1 .. Len(h) : S(h[n]) \in Nat
      /\ S(t) \in Nat /\ S(t) \in 0 .. BlockSize
  BY <1>1, <1>2
<1>5. Used(h) = Total(f) /\ Used(a) = Total(g)
  BY DEF Used
<1> HIDE DEF S, a
<1>6. f \in Seq(Nat) /\ Len(f) = Len(h)
  <2>1. f = [n \in 1 .. Len(h) |-> S(h[n])]
    BY <1>3
  <2> QED BY <1>3, <1>4, <2>1
<1>7. g = Append(f, S(t))
  <2>1. g = [n \in 1 .. Len(h) + 1 |-> S(a[n])]
    BY <1>3
  <2>2. \A n \in 1 .. Len(h) + 1 : S(a[n]) \in Nat
    <3> TAKE n \in 1 .. Len(h) + 1
    <3>1. n \in 1 .. Len(h) \/ n = Len(h) + 1
      BY <1>3
    <3> QED BY <1>3, <1>4, <3>1
  <2>3. g \in Seq(Nat) /\ Len(g) = Len(h) + 1
    BY <1>3, <2>1, <2>2
  <2> DEFINE b == Append(f, S(t))
  <2>4. /\ b \in Seq(Nat) /\ Len(b) = Len(h) + 1 /\ b[Len(h) + 1] = S(t)
        /\ \A n \in 1 .. Len(h) : b[n] = f[n]
    BY <1>4, <1>6, AppendProperties
  <2>5. \A n \in 1 .. Len(h) : f[n] = S(h[n])
    BY <1>3
  <2> HIDE DEF b, f, g
  <2>6. ASSUME NEW n \in 1 .. Len(h) + 1 PROVE g[n] = b[n]
    <3>1. CASE n = Len(h) + 1
      BY <1>3, <2>1, <2>4, <3>1
    <3>2. CASE n # Len(h) + 1
      <4>1. n \in 1 .. Len(h)
        BY <1>3, <3>2
      <4> QED BY <1>3, <2>1, <2>4, <2>5, <4>1
    <3> QED BY <3>1, <3>2
  <2>7. g = b
    BY <2>3, <2>4, <2>6, SameSeq
  <2> QED BY <2>7 DEF b
<1> HIDE DEF f, g
<1>8. Total(g) = Total(f) + S(t) /\ Total(f) \in Nat
  BY <1>4, <1>6, <1>7, SumsAppend
<1> QED BY <1>4, <1>5, <1>8 DEF S, a

\* The same with the token in a sequence of its own.
LEMMA UsedOne ==
    ASSUME WriterType, inf # <<>>, NEW h \in Seq(Tokens), NEW v \in Seq(Tokens), Len(v) = 1,
           \A n \in 1 .. Len(h) : h[n].item \in 1 .. Len(Items),
           v[1].item \in 1 .. Len(Items)
    PROVE  /\ Used(h) \in Nat /\ Size(Items[v[1].item]) \in 0 .. BlockSize
           /\ Used(h \o v) = Used(h) + Size(Items[v[1].item])
<1>1. v[1] \in Tokens /\ h \o v = Append(h, v[1])
  BY OneMore
<1> DEFINE t == v[1]
<1>2. t \in Tokens /\ t.item \in 1 .. Len(Items) /\ h \o v = Append(h, t)
  BY <1>1
<1> HIDE DEF t
<1>3. /\ Used(h) \in Nat /\ Size(Items[t.item]) \in 0 .. BlockSize
      /\ Used(Append(h, t)) = Used(h) + Size(Items[t.item])
  BY <1>2, UsedMore
<1> QED BY <1>2, <1>3 DEF t

\* An empty block.
LEMMA UsedNothing == Used(<<>>) = 0 /\ Used(<<>>)' = 0
<1> DEFINE f == [n \in DOMAIN <<>> |-> Size(Items[(<<>>)[n].item])]
           g == [n \in DOMAIN <<>> |-> Size(Items[(<<>>)[n].item])']
<1>1. f = <<>> /\ g = <<>>
  <2>1. DOMAIN <<>> = 1 .. 0
    BY EmptySeq, LenProperties
  <2> QED BY <2>1
<1>2. Used(<<>>) = Total(f) /\ Used(<<>>)' = Total(g)
  BY DEF Used
<1> QED BY <1>1, <1>2, TotalEmpty

-----------------------------------------------------------------------------
(* The steps of the writer *)

\* What is known of a writer that has a type.
LEMMA WriterFacts ==
    ASSUME WriterType, TypeNow, inf # <<>>
    PROVE  /\ inf \in Types /\ Items \in Records /\ Len(Items) \in Nat \ {0}
           /\ sent # <<>> /\ Len(sent) \in Nat \ {0} /\ Len(sent) \in 1 .. Len(sent)
           /\ sent[Len(sent)].inf = inf
           /\ TokensOf(sent, Len(sent)) \in Seq(Tokens)
           /\ Block \o pending \in Seq(Tokens)
           /\ Written \in Seq(Tokens) /\ Len(Written) \in Nat
           /\ DoneQty \in Nat
<1>1. inf \in Types /\ sent # <<>> /\ sent[Len(sent)].inf = inf /\ sent \in Seq(Parts)
  BY DEF WriterType, TypeNow
<1>2. Items \in Records
  BY <1>1, ItemsIs DEF WriterType, Items
<1>3. Len(Items) \in Nat \ {0}
  BY <1>2, PrimsIs DEF Records
<1>4. Len(sent) \in Nat \ {0} /\ Len(sent) \in 1 .. Len(sent)
  <2>1. Len(sent) \in Nat \ {0}
    BY <1>1, EmptySeq
  <2> QED BY <2>1
<1>5. TokensOf(sent, Len(sent)) \in Seq(Tokens)
  BY <1>1, <1>4, PartIs
<1>6. Block \o pending \in Seq(Tokens)
  BY ConcatProperties DEF WriterType
<1>7. Written \in Seq(Tokens) /\ Len(Written) \in Nat
  <2>1. Written \in Seq(Tokens)
    BY <1>5, <1>6, ConcatProperties DEF Written
  <2> QED BY <2>1, LenProperties
<1>8. DoneQty \in Nat
  BY <1>2, <1>7, TokenNext DEF DoneQty
<1> QED BY <1>1, <1>2, <1>3, <1>4, <1>5, <1>6, <1>7, <1>8

\* The tokens in the block are of the current type.
LEMMA HeldItems ==
    ASSUME WriterType, TypeNow, inf # <<>>, InOrder(Items, Written)
    PROVE  \A i \in 1 .. Len(Block \o pending) :
               (Block \o pending)[i].item \in 1 .. Len(Items)
<1> DEFINE u == TokensOf(sent, Len(sent))
           h == Block \o pending
           L == Len(Items)
<1>1. /\ u \in Seq(Tokens) /\ h \in Seq(Tokens) /\ Written = u \o h
      /\ Items \in Records /\ L \in Nat \ {0}
  BY WriterFacts DEF Written
<1>2. /\ Len(u) \in Nat /\ Len(h) \in Nat /\ Len(u \o h) = Len(u) + Len(h)
      /\ \A i \in 1 .. Len(u) + Len(h) :
           (u \o h)[i] = IF i <= Len(u) THEN u[i] ELSE h[i - Len(u)]
  BY <1>1, ConcatProperties, LenProperties
<1> HIDE DEF u, h
<1>3. ASSUME NEW i \in 1 .. Len(h)
      PROVE  h[i].item \in 1 .. L
  <2> DEFINE k == Len(u) + i
  <2>1. k \in 1 .. Len(u) + Len(h) /\ ~(k <= Len(u)) /\ k - Len(u) = i
    BY <1>2
  <2>2. k - 1 \in Nat /\ (k - 1) + 1 = k
    BY <1>2
  <2> HIDE DEF k
  <2>3. (u \o h)[k] = h[i]
    BY <1>2, <2>1
  <2>4. h[i] = Expected(Items, k)
    BY <1>1, <1>2, <2>1, <2>3 DEF InOrder
  <2>5. Expected(Items, k).item = ((k - 1) % L) + 1 /\ (k - 1) % L \in 0 .. L - 1
    <3> DEFINE m == k - 1
    <3>1. m \in Nat /\ m + 1 = k
      BY <2>2
    <3> HIDE DEF m
    <3> DEFINE o == IF IsPrim(Items[(m % L) + 1]) THEN Done(Items, m) + 1 ELSE 0
    <3>2. m % L \in 0 .. L - 1 /\ Expected(Items, m + 1) = [item |-> (m % L) + 1, obj |-> o]
      BY <1>1, <3>1, TokenNext
    <3> HIDE DEF o
    <3>3. m % L \in 0 .. L - 1 /\ Expected(Items, m + 1).item = (m % L) + 1
      BY <3>2
    <3> QED BY <3>1, <3>3 DEF m
  <2> QED BY <1>1, <2>4, <2>5
<1> QED BY <1>3 DEF h, L

\* They take a number of bytes.
LEMMA UsedIs ==
    ASSUME WriterType, TypeNow, inf # <<>>, InOrder(Items, Written)
    PROVE  Used(Block \o pending) \in Nat
<1> DEFINE h == Block \o pending
           t == [item |-> 1, obj |-> 0]
<1>1. \A i \in 1 .. Len(h) : h[i].item \in 1 .. Len(Items)
  BY HeldItems
<1>2. h \in Seq(Tokens) /\ Len(Items) \in Nat \ {0}
  BY WriterFacts
<1>3. t \in Tokens /\ t.item = 1
  BY BoundsAssumption DEF Tokens
<1> HIDE DEF h, t
<1>4. t.item \in 1 .. Len(Items)
  BY <1>2, <1>3
<1>5. Used(h) \in Nat
  BY <1>1, <1>2, <1>3, <1>4, UsedMore
<1> QED BY <1>5 DEF h

\* A step that keeps what is written, with or without a flush.
LEMMA SameStep ==
    ASSUME WriterType, TypeNow, SentInOrder, inf # <<>>,
           InOrder(Items, Written), Used(Block \o pending) <= BlockSize,
           text' = text, inf' = inf,
           \/ /\ sent' = sent /\ Block' \o pending' = Block \o pending
              /\ Block' \in Seq(Tokens) /\ pending' \in Seq(Tokens)
           \/ sent' = Flushed(sent, Block \o pending) /\ Block' = <<>> /\ pending' = <<>>
    PROVE  /\ Kept(sent, sent') /\ sent' \in Seq(Parts)
           /\ Block' \in Seq(Tokens) /\ pending' \in Seq(Tokens)
           /\ sent' # <<>> /\ sent'[Len(sent')].inf = inf'
           /\ Items' = Items /\ Written' = Written /\ DoneQty' = DoneQty
           /\ InOrder(Items', Written') /\ SentInOrder'
           /\ Used(Block \o pending)' <= BlockSize /\ Room' >= 0
<1> DEFINE u == TokensOf(sent, Len(sent))
           h == Block \o pending
           n == Len(sent)
<1>1. /\ u \in Seq(Tokens) /\ h \in Seq(Tokens) /\ Written = u \o h
      /\ n \in Nat \ {0} /\ n \in 1 .. n /\ sent # <<>> /\ sent \in Seq(Parts)
      /\ sent[n].inf = inf
  BY WriterFacts DEF Written, WriterType
<1>2. Items' = Items /\ ItemsOf(inf, text) = Items
  BY DEF Items
<1>3. \A k \in 1 .. n : InOrder(ItemsOf(sent[k].inf, text), TokensOf(sent, k))
  BY DEF SentInOrder
<1>4. InOrder(Items, u \o h)
  BY <1>1
<1>5. \A x : Used(x)' = Used(x)
  BY <1>2 DEF Used, Size
<1>6. Used(Block \o pending)' = Used(Block' \o pending')
  BY <1>2 DEF Used, Size
<1>7. Used(h) \in Nat /\ Used(h) <= BlockSize
  BY UsedIs
<1>8. Room' = BlockSize - Used(Block' \o pending')
  BY <1>6 DEF Room
<1> HIDE DEF u, h, n
<1>9. CASE sent' = sent /\ Block' \o pending' = h
           /\ Block' \in Seq(Tokens) /\ pending' \in Seq(Tokens)
  <2>1. Written' = Written
    BY <1>9 DEF Written, h, u, TokensOf
  <2>2. DoneQty' = DoneQty
    BY <1>2, <2>1 DEF DoneQty, Done
  <2>3. SentInOrder'
    BY <1>3, <1>9 DEF SentInOrder, TokensOf, n
  <2>4. Kept(sent, sent')
    BY <1>1, <1>9, KeptSame
  <2>5. Used(Block \o pending)' <= BlockSize /\ Room' >= 0
    BY <1>6, <1>9, <1>7, <1>8, SizeAssumption
  <2> QED BY <1>1, <1>2, <1>9, <2>1, <2>2, <2>3, <2>4, <2>5 DEF n
<1>10. CASE sent' = Flushed(sent, h) /\ Block' = <<>> /\ pending' = <<>>
  <2>1. Kept(sent, sent') /\ TokensOf(sent', n) = u \o h
    BY <1>1, <1>10, FlushedIs DEF u, n
  <2>2. /\ sent' \in Seq(Parts) /\ Len(sent') = n
        /\ \A k \in 1 .. n : sent'[k].inf = sent[k].inf
        /\ \A k \in 1 .. n : k < n => sent'[k] = sent[k]
    BY <2>1 DEF Kept, n
  <2>3. <<>> \in Seq(Tokens) /\ <<>> \o <<>> = <<>>
    BY EmptySeq, ConcatEmptySeq
  <2>4. u \o h \in Seq(Tokens) /\ (u \o h) \o <<>> = u \o h
    BY <1>1, ConcatProperties, ConcatEmptySeq
  <2>5. Written' = TokensOf(sent', n) \o (<<>> \o <<>>)
    BY <1>10, <2>2 DEF Written, TokensOf
  <2>6. Written' = Written
    BY <1>1, <2>1, <2>3, <2>4, <2>5
  <2>7. DoneQty' = DoneQty
    BY <1>2, <2>6 DEF DoneQty, Done
  <2>8. ASSUME NEW k \in 1 .. n
        PROVE  InOrder(ItemsOf(sent'[k].inf, text'), TokensOf(sent', k))
    <3>1. CASE k = n
      BY <1>1, <1>2, <1>4, <2>1, <2>2, <3>1
    <3>2. CASE k # n
      <4>1. k < n
        BY <1>1, <3>2
      <4> QED BY <1>3, <2>2, <4>1 DEF TokensOf
    <3> QED BY <3>1, <3>2
  <2>9. SentInOrder'
    BY <2>2, <2>8 DEF SentInOrder, TokensOf
  <2>10. sent' # <<>> /\ sent'[Len(sent')].inf = inf'
    BY <1>1, <2>2, EmptySeq
  <2>11. Used(Block \o pending)' <= BlockSize /\ Room' >= 0
    BY <1>6, <1>10, <1>8, <2>3, UsedNothing, SizeAssumption
  <2> QED BY <1>1, <1>2, <1>10, <2>1, <2>2, <2>3, <2>6, <2>7, <2>9, <2>10, <2>11
<1> QED BY <1>9, <1>10 DEF h

\* Remainders of small numbers.
LEMMA SmallMod == \A L \in Nat \ {0} : \A c \in 0 .. L - 1 : c % L = c
OBVIOUS

\* The end of a record is the place 0 of the next.
LEMMA FullMod == \A L \in Nat \ {0} : L % L = 0
OBVIOUS

\* A walk: where it is.
LEMMA WalkFacts ==
    ASSUME WriterType, NEW n \in Nat, WriterOK(n), pc = "walk"
    PROVE  /\ inf # <<>> /\ InOrder(Items, Written)
           /\ Cur = pos - 1 + skip /\ Cur \in 0 .. Len(Items) /\ Skip \in 0 .. Len(Items) - 1
           /\ Len(Written) % Len(Items) = Cur % Len(Items)
           /\ Waits(currObj, objs, DoneQty, n)
           /\ wqty = Cur - Skip /\ (skip > 0 => Cur = Skip /\ pending = <<>>)
           /\ Prims(Items)[Cur] > 0 \/ currObj # 0 \/ objs # <<>>
           /\ Used(Block \o pending) <= BlockSize
           /\ skip \in Nat /\ pos \in 1 .. Len(Items) + 1
<1>1. inf # <<>>
  BY DEF WriterOK, TypeNow
<1>2. Len(Items) \in Nat \ {0}
  BY <1>1, WriterFacts DEF WriterOK
<1>3. Running
  BY DEF Running
<1>4. /\ InOrder(Items, Written) /\ Len(Written) % Len(Items) = Cur % Len(Items)
      /\ Cur <= Len(Items) /\ Skip < Len(Items)
  BY <1>1, <1>3 DEF WriterOK, PlaceOK
<1>5. Waits(currObj, objs, DoneQty, n)
  BY <1>1, <1>3 DEF WriterOK, WaitOK
<1>6. /\ wqty = Cur - Skip /\ (skip > 0 => Cur = Skip /\ pending = <<>>)
      /\ Prims(Items)[Cur] > 0 \/ currObj # 0 \/ objs # <<>>
  BY DEF WriterOK, WalkOK
<1>7. Cur = pos - 1 + skip
  BY DEF Cur
<1>8. Used(Block \o pending) <= BlockSize
  BY <1>3 DEF WriterOK, RoomOK
<1>9. /\ skip \in Nat /\ pos \in 1 .. Len(Items) + 1 /\ Skip \in Nat
      /\ Cur \in 0 .. Len(Items) /\ Skip \in 0 .. Len(Items) - 1
  BY <1>2, <1>4, <1>7 DEF WriterType
<1> QED BY <1>1, <1>4, <1>5, <1>6, <1>7, <1>8, <1>9

\* The token that comes next.
LEMMA NextToken ==
    ASSUME WriterType, NEW n \in Nat, WriterOK(n), At, skip = 0
    PROVE  /\ pos \in 1 .. Len(Items) /\ Cur = pos - 1
           /\ Expected(Items, Len(Written) + 1) =
                [item |-> pos, obj |-> IF IsPrim(Items[pos]) THEN DoneQty + 1 ELSE 0]
           /\ Done(Items, Len(Written) + 1) =
                DoneQty + (IF IsPrim(Items[pos]) THEN 1 ELSE 0)
           /\ (Len(Written) + 1) % Len(Items) = pos % Len(Items)
           /\ Prims(Items)[pos] = Prims(Items)[Cur] + (IF IsPrim(Items[pos]) THEN 1 ELSE 0)
           /\ Prims(Items)[Cur] \in Nat
<1> DEFINE m == Len(Written)
           L == Len(Items)
           c == pos - 1
<1>1. pc = "walk" /\ pos <= L
  BY DEF At
<1>2. /\ inf # <<>> /\ Cur = c /\ m % L = Cur % L /\ pos \in 1 .. L + 1
  BY <1>1, WalkFacts
<1>3. Items \in Records /\ L \in Nat \ {0} /\ m \in Nat
  BY <1>2, WriterFacts DEF WriterOK
<1>4. pos \in 1 .. L /\ c \in 0 .. L - 1 /\ c + 1 = pos /\ c \in 0 .. L
  BY <1>1, <1>2, <1>3
<1> DEFINE e == Expected(Items, m + 1)
           d == Done(Items, m)
           f == Done(Items, m + 1)
<1>5. /\ e = [item |-> (m % L) + 1,
              obj |-> IF IsPrim(Items[(m % L) + 1]) THEN d + 1 ELSE 0]
      /\ f = d + (IF IsPrim(Items[(m % L) + 1]) THEN 1 ELSE 0)
  BY <1>3, TokenNext
<1>6. DoneQty = d
  BY DEF DoneQty
<1>7. /\ Prims(Items)[c] \in Nat
      /\ Prims(Items)[pos] = Prims(Items)[pos - 1] + (IF IsPrim(Items[pos]) THEN 1 ELSE 0)
  BY <1>3, <1>4, PrimsIs DEF Records
<1> HIDE DEF m, L, c, e, d, f
<1>8. m % L = c % L /\ c % L = c
  BY <1>2, <1>3, <1>4, SmallMod
<1>9. (m + 1) % L = pos % L
  <2>1. L \in Nat \ {0} /\ m \in Nat /\ c \in 0 .. L - 1 /\ m % L = c % L
    BY <1>3, <1>4, <1>8
  <2>2. (m + 1) % L = (c + 1) % L
    BY <2>1, ModNext, ZenonT(30)
  <2> QED BY <1>4, <2>2
<1>10. (m % L) + 1 = pos
  BY <1>4, <1>8
<1>11. /\ e = [item |-> pos, obj |-> IF IsPrim(Items[pos]) THEN d + 1 ELSE 0]
       /\ f = d + (IF IsPrim(Items[pos]) THEN 1 ELSE 0)
  BY <1>5, <1>10
<1> QED BY <1>2, <1>4, <1>6, <1>7, <1>9, <1>11 DEF m, L, c, e, d, f

\* A step that adds it, to the block or behind a flush.
LEMMA TokenStep ==
    ASSUME WriterType, NEW n \in Nat, WriterOK(n), At, skip = 0,
           NEW v \in Seq(Tokens), Len(v) = 1, v[1] = Expected(Items, Len(Written) + 1),
           text' = text, inf' = inf, Skip' = Skip, skip' = 0, pc' = "walk",
           pos' = pos + 1, wqty' = wqty + 1,
           \/ /\ Size(Items[pos]) <= Room
              /\ sent' = sent /\ Block' = Block /\ pending' = pending \o v
           \/ sent' = Flushed(sent, Block \o pending) /\ Block' = <<>> /\ pending' = v
    PROVE  /\ Kept(sent, sent') /\ sent' \in Seq(Parts)
           /\ Block' \in Seq(Tokens) /\ pending' \in Seq(Tokens)
           /\ TypeNow' /\ SentInOrder' /\ PlaceOK' /\ RoomOK' /\ RestOK' /\ Room' >= 0
           /\ Items' = Items /\ Cur' = pos
           /\ DoneQty' = DoneQty + (IF IsPrim(Items[pos]) THEN 1 ELSE 0)
           /\ pos' \in 1 .. Len(Items) + 1 /\ wqty' \in 0 .. Len(Items)
           /\ wqty' = Cur' - Skip'
<1> DEFINE u == TokensOf(sent, Len(sent))
           h == Block \o pending
           L == Len(Items)
<1>1. /\ pc = "walk" /\ TypeNow /\ SentInOrder
      /\ InOrder(Items, Written) /\ inf # <<>> /\ Used(h) <= BlockSize
      /\ wqty = Cur - Skip /\ Skip \in 0 .. L - 1 /\ wqty \in Nat
  BY WalkFacts DEF At, WriterOK, WriterType
<1>2. /\ pos \in 1 .. L /\ Cur = pos - 1 /\ v[1].item = pos
      /\ Done(Items, Len(Written) + 1) = DoneQty + (IF IsPrim(Items[pos]) THEN 1 ELSE 0)
      /\ (Len(Written) + 1) % L = pos % L
  <2> DEFINE o == IF IsPrim(Items[pos]) THEN DoneQty + 1 ELSE 0
  <2>1. v[1] = [item |-> pos, obj |-> o]
    BY NextToken
  <2> HIDE DEF o
  <2>2. v[1].item = pos
    BY <2>1
  <2> QED BY <2>2, NextToken
<1>3. /\ u \in Seq(Tokens) /\ h \in Seq(Tokens) /\ Written = u \o h
      /\ Written \in Seq(Tokens) /\ L \in Nat \ {0} /\ sent \in Seq(Parts) /\ sent # <<>>
      /\ Block \in Seq(Tokens) /\ pending \in Seq(Tokens) /\ Len(sent) \in Nat \ {0}
      /\ sent[Len(sent)].inf = inf
  BY <1>1, WriterFacts DEF Written, WriterType
<1>4. Items' = Items /\ ItemsOf(inf, text) = Items
  BY DEF Items
<1>5. InOrder(Items, Written \o v) /\ Len(Written \o v) = Len(Written) + 1
  BY <1>1, <1>2, <1>3, InOrderNext
<1>6. /\ Used(h) \in Nat /\ Size(Items[pos]) \in 0 .. BlockSize
      /\ Used(h \o v) = Used(h) + Size(Items[pos])
      /\ Used(<<>> \o v) = 0 + Size(Items[pos])
  <2>1. \A i \in 1 .. Len(h) : h[i].item \in 1 .. L
    BY <1>1, HeldItems
  <2>2. <<>> \in Seq(Tokens) /\ Len(<<>>) = 0
    BY EmptySeq
  <2>3. \A i \in 1 .. Len(<<>>) : (<<>>)[i].item \in 1 .. L
    BY <2>2
  <2>4. /\ Used(h) \in Nat /\ Size(Items[pos]) \in 0 .. BlockSize
        /\ Used(h \o v) = Used(h) + Size(Items[pos])
    BY <1>1, <1>2, <1>3, <2>1, UsedOne
  <2>5. Used(<<>> \o v) = Used(<<>>) + Size(Items[pos])
    BY <1>1, <1>2, <2>2, <2>3, UsedOne
  <2> QED BY <2>4, <2>5, UsedNothing
<1>7. Used(Block \o pending)' = Used(Block' \o pending')
  BY <1>4 DEF Used, Size
<1>8. Block \o (pending \o v) = h \o v
  <2>1. Block \in Seq(Tokens) /\ pending \in Seq(Tokens)
    BY <1>3
  <2> QED BY <2>1, Reassociate, Zenon
<1> HIDE DEF u, h, L
<1>8a. u \o (h \o v) = (u \o h) \o v
  <2>1. u \in Seq(Tokens) /\ h \in Seq(Tokens)
    BY <1>3
  <2> QED BY <2>1, Reassociate, Zenon
<1>9. /\ Kept(sent, sent') /\ Block' \in Seq(Tokens) /\ pending' \in Seq(Tokens)
      /\ SentInOrder' /\ Written' = Written \o v
      /\ Block' \o pending' = h \o v \/ Block' \o pending' = <<>> \o v
      /\ Used(Block' \o pending') <= BlockSize /\ Used(Block' \o pending') \in Nat
  <2>1. CASE /\ Size(Items[pos]) <= Room
             /\ sent' = sent /\ Block' = Block /\ pending' = pending \o v
    <3>1. Kept(sent, sent')
      BY <1>3, <2>1, KeptSame
    <3>2. pending' \in Seq(Tokens)
      BY <1>3, <2>1, ConcatProperties
    <3>3. Block' \o pending' = h \o v
      BY <1>8, <2>1
    <3>4. Written' = Written \o v
      <4>1. Written' = u \o (Block' \o pending')
        BY <2>1 DEF Written, u, TokensOf
      <4> QED BY <1>3, <1>8a, <3>3, <4>1
    <3>5. SentInOrder'
      BY <1>1, <2>1 DEF SentInOrder, TokensOf
    <3>6. Size(Items[pos]) <= BlockSize - Used(h)
      BY <2>1 DEF Room, h
    <3>7. Used(h \o v) <= BlockSize /\ Used(h \o v) \in Nat
      BY <1>6, <3>6, SizeAssumption
    <3> QED BY <1>3, <2>1, <3>1, <3>2, <3>3, <3>4, <3>5, <3>7
  <2>2. CASE sent' = Flushed(sent, h) /\ Block' = <<>> /\ pending' = v
    <3>1. Kept(sent, sent') /\ TokensOf(sent', Len(sent)) = u \o h
      BY <1>3, <2>2, FlushedIs DEF u
    <3>2. /\ Len(sent') = Len(sent)
          /\ \A k \in 1 .. Len(sent) : sent'[k].inf = sent[k].inf
          /\ \A k \in 1 .. Len(sent) : k < Len(sent) => sent'[k] = sent[k]
      BY <3>1 DEF Kept
    <3>3. <<>> \in Seq(Tokens) /\ <<>> \o v = v
      BY EmptySeq, ConcatEmptySeq
    <3>4. Written' = Written \o v
      <4>1. Written' = TokensOf(sent', Len(sent)) \o (Block' \o pending')
        BY <3>2 DEF Written, TokensOf
      <4>2. Block' \o pending' = v
        BY <2>2, <3>3
      <4> QED BY <1>3, <3>1, <4>1, <4>2
    <3>5. InOrder(Items, u \o h)
      BY <1>1, <1>3
    <3>6. ASSUME NEW k \in 1 .. Len(sent)
          PROVE  InOrder(ItemsOf(sent'[k].inf, text'), TokensOf(sent', k))
      <4>1. CASE k = Len(sent)
        BY <1>3, <1>4, <3>1, <3>2, <3>5, <4>1
      <4>2. CASE k # Len(sent)
        <5>1. k < Len(sent)
          BY <1>3, <4>2
        <5>2. InOrder(ItemsOf(sent[k].inf, text), TokensOf(sent, k))
          BY <1>1 DEF SentInOrder
        <5> QED BY <3>2, <5>1, <5>2 DEF TokensOf
      <4> QED BY <4>1, <4>2
    <3>7. SentInOrder'
      BY <3>2, <3>6 DEF SentInOrder, TokensOf
    <3>8. Used(<<>> \o v) <= BlockSize /\ Used(<<>> \o v) \in Nat
      BY <1>6, SizeAssumption
    <3> QED BY <2>2, <3>1, <3>3, <3>4, <3>7, <3>8
  <2> QED BY <2>1, <2>2 DEF h
<1>10. Len(Written') = Len(Written) + 1 /\ InOrder(Items', Written')
  BY <1>4, <1>5, <1>9
<1>11. DoneQty' = DoneQty + (IF IsPrim(Items[pos]) THEN 1 ELSE 0)
  <2>1. DoneQty' = Done(Items, Len(Written'))
    BY <1>4 DEF DoneQty, Done
  <2> QED BY <1>2, <1>10, <2>1
<1>12. Cur' = pos
  BY <1>2 DEF Cur
<1>13. PlaceOK'
  <2>1. Len(Written') % Len(Items') = Cur' % Len(Items')
    BY <1>2, <1>4, <1>10, <1>12 DEF L
  <2>2. Cur' <= Len(Items') /\ Skip' < Len(Items')
    BY <1>1, <1>2, <1>3, <1>4, <1>12 DEF L
  <2> QED BY <1>10, <2>1, <2>2 DEF PlaceOK
<1>14. sent' \in Seq(Parts) /\ Len(sent') = Len(sent)
       /\ \A k \in 1 .. Len(sent) : sent'[k].inf = sent[k].inf
  BY <1>9 DEF Kept
<1>15. TypeNow'
  <2>1. sent' # <<>> /\ sent'[Len(sent')].inf = inf'
    BY <1>3, <1>14, EmptySeq
  <2> QED BY <1>1, <2>1 DEF TypeNow
<1>16. RoomOK' /\ RestOK'
  BY <1>7, <1>9 DEF RoomOK, RestOK
<1>17. Room' >= 0
  <2>1. Room' = BlockSize - Used(Block' \o pending')
    BY <1>7 DEF Room
  <2> QED BY <1>9, <2>1, SizeAssumption
<1>18. pos' \in 1 .. L + 1 /\ wqty' \in 0 .. L /\ wqty' = Cur' - Skip'
  <2>1. L \in Nat /\ pos \in 1 .. L /\ Skip \in 0 .. L - 1 /\ wqty \in Nat
    BY <1>1, <1>2, <1>3
  <2>2. wqty = (pos - 1) - Skip
    BY <1>1, <1>2
  <2>3. wqty + 1 = pos - Skip
    BY <2>1, <2>2
  <2>4. pos + 1 \in 1 .. L + 1 /\ wqty + 1 \in 0 .. L
    BY <2>1, <2>3
  <2> QED BY <1>12, <2>3, <2>4
<1> QED BY <1>4, <1>9, <1>11, <1>12, <1>13, <1>14, <1>15, <1>16, <1>17, <1>18 DEF L

-----------------------------------------------------------------------------
(* Each step of a walk *)

\* The object that is taken is the next, and those behind it wait.
LEMMA TakenIs ==
    ASSUME objs \in Seq(-1 .. MaxObjects), currObj \in -1 .. MaxObjects,
           NEW n \in Nat, NEW d \in Nat, Waits(currObj, objs, d, n),
           currObj # 0 \/ objs # <<>>, Taken
    PROVE  /\ Object = d + 1 /\ Object \in -1 .. MaxObjects /\ Object # 0
           /\ objs' \in Seq(-1 .. MaxObjects)
           /\ Waits(0, objs', d + 1, n) /\ Waits(Object, objs', d, n)
<1>1. /\ Object = d + 1 /\ Object \in -1 .. MaxObjects
      /\ objs' \in Seq(-1 .. MaxObjects) /\ Len(objs') \in Nat
      /\ n = d + 1 + Len(objs') /\ \A i \in 1 .. Len(objs') : objs'[i] = d + 1 + i
  <2>1. CASE currObj # 0
    <3>1. objs' = objs /\ Object = currObj
      BY <2>1 DEF Taken, Object
    <3> QED BY <2>1, <3>1, LenProperties DEF Waits
  <2>2. CASE currObj = 0
    <3>1. objs' = Tail(objs) /\ Object = Head(objs) /\ objs # <<>>
      BY <2>2 DEF Taken, Object
    <3>2. /\ Len(objs) \in Nat \ {0} /\ Head(objs) = objs[1] /\ objs[1] \in -1 .. MaxObjects
          /\ Tail(objs) \in Seq(-1 .. MaxObjects) /\ Len(Tail(objs)) = Len(objs) - 1
          /\ \A i \in 1 .. Len(objs) - 1 : Tail(objs)[i] = objs[i + 1]
      <4>1. Len(objs) \in Nat \ {0}
        BY <3>1, EmptyLen
      <4>2. 1 \in 1 .. Len(objs)
        BY <4>1
      <4>3. objs[1] \in -1 .. MaxObjects
        BY <4>2, ElementOfSeq
      <4> QED BY <3>1, <4>1, <4>3, HeadTailProperties
    <3>3. n = d + Len(objs) /\ \A i \in 1 .. Len(objs) : objs[i] = d + i
      BY <2>2 DEF Waits
    <3> HIDE DEF Object
    <3>4. objs[1] = d + 1
      BY <3>2, <3>3
    <3>5. \A i \in 1 .. Len(objs) - 1 : objs[i + 1] = d + 1 + i
      <4> TAKE i \in 1 .. Len(objs) - 1
      <4>1. i + 1 \in 1 .. Len(objs)
        BY <3>2
      <4>2. objs[i + 1] = d + (i + 1)
        BY <3>3, <4>1
      <4> QED BY <4>2
    <3> QED BY <3>1, <3>2, <3>3, <3>4, <3>5
  <2> QED BY <2>1, <2>2
<1> HIDE DEF Object
<1> QED BY <1>1 DEF Waits

\* Over an item that the record has already.
LEMMA StepOverOK ==
    ASSUME WriterType, NEW n \in Nat, WriterOK(n), StepOver
    PROVE  WriterType' /\ WriterOK(n)' /\ Kept(sent, sent')
<1>1. /\ pc = "walk" /\ pos <= Len(Items) /\ skip > 0 /\ skip' = skip - 1 /\ pos' = pos + 1
      /\ text' = text /\ inf' = inf /\ Skip' = Skip /\ currObj' = currObj /\ objs' = objs
      /\ Block' = Block /\ pending' = pending /\ wqty' = wqty /\ pc' = pc /\ ret' = ret
      /\ sent' = sent
  BY DEF StepOver, At
<1>2. /\ inf # <<>> /\ InOrder(Items, Written)
      /\ Cur = pos - 1 + skip /\ Cur \in 0 .. Len(Items) /\ Skip \in 0 .. Len(Items) - 1
      /\ Len(Written) % Len(Items) = Cur % Len(Items)
      /\ Waits(currObj, objs, DoneQty, n)
      /\ wqty = Cur - Skip /\ Cur = Skip /\ pending = <<>>
      /\ Prims(Items)[Cur] > 0 \/ currObj # 0 \/ objs # <<>>
      /\ Used(Block \o pending) <= BlockSize
      /\ skip \in Nat /\ pos \in 1 .. Len(Items) + 1
  BY <1>1, WalkFacts
<1>3. /\ Kept(sent, sent') /\ Items' = Items /\ Written' = Written /\ DoneQty' = DoneQty
      /\ InOrder(Items', Written') /\ SentInOrder'
      /\ Used(Block \o pending)' <= BlockSize /\ Room' >= 0
      /\ sent' # <<>> /\ sent'[Len(sent')].inf = inf' /\ sent' \in Seq(Parts)
  <2>1. Block' \o pending' = Block \o pending /\ Block' \in Seq(Tokens) /\ pending' \in Seq(Tokens)
    BY <1>1 DEF WriterType
  <2> QED BY <1>1, <1>2, <2>1, SameStep DEF WriterOK, Kept
<1>4. Cur' = Cur
  <2>1. Cur' = pos' - 1 + skip'
    BY <1>1 DEF Cur
  <2> QED BY <1>1, <1>2, <2>1
<1>5. WriterType'
  BY <1>1, <1>2, <1>3 DEF WriterType
<1>6. PlaceOK' /\ WaitOK(n)' /\ WalkOK'
  BY <1>1, <1>2, <1>3, <1>4 DEF PlaceOK, WaitOK, WalkOK
<1>7. TypeNow' /\ RestOK' /\ RoomOK'
  BY <1>1, <1>2, <1>3 DEF TypeNow, RestOK, RoomOK
<1> QED BY <1>3, <1>5, <1>6, <1>7 DEF WriterOK

\* A separator.
LEMMA WriteSepOK ==
    ASSUME WriterType, NEW n \in Nat, WriterOK(n), WriteSep
    PROVE  WriterType' /\ WriterOK(n)' /\ Kept(sent, sent')
<1> DEFINE v == <<Token(0)>>
<1>1. /\ At /\ skip = 0 /\ ~IsPrim(Items[pos]) /\ Size(Items[pos]) <= Room /\ pc = "walk"
      /\ pending' = Append(pending, Token(0)) /\ wqty' = wqty + 1 /\ pos' = pos + 1
      /\ text' = text /\ inf' = inf /\ Skip' = Skip /\ currObj' = currObj /\ objs' = objs
      /\ Block' = Block /\ skip' = 0 /\ pc' = "walk" /\ ret' = ret /\ sent' = sent
  BY DEF WriteSep, At, Wrote
<1>2. /\ inf # <<>> /\ Waits(currObj, objs, DoneQty, n) /\ Skip \in 0 .. Len(Items) - 1
      /\ Prims(Items)[Cur] > 0 \/ currObj # 0 \/ objs # <<>>
  BY <1>1, WalkFacts
<1>3. /\ pos \in 1 .. Len(Items) /\ Prims(Items)[Cur] \in Nat
      /\ Prims(Items)[pos] = Prims(Items)[Cur] /\ DoneQty \in Nat
      /\ Expected(Items, Len(Written) + 1) = [item |-> pos, obj |-> 0]
      /\ (IF IsPrim(Items[pos]) THEN 1 ELSE 0) = 0
  <2>1. DoneQty \in Nat
    BY <1>2, WriterFacts DEF WriterOK
  <2>2. /\ pos \in 1 .. Len(Items) /\ Prims(Items)[Cur] \in Nat
        /\ Prims(Items)[pos] = Prims(Items)[Cur] + (IF IsPrim(Items[pos]) THEN 1 ELSE 0)
    BY <1>1, NextToken
  <2>3. Expected(Items, Len(Written) + 1) =
          [item |-> pos, obj |-> IF IsPrim(Items[pos]) THEN DoneQty + 1 ELSE 0]
    BY <1>1, NextToken
  <2>4. (IF IsPrim(Items[pos]) THEN DoneQty + 1 ELSE 0) = 0
    BY <1>1
  <2>5. Prims(Items)[pos] = Prims(Items)[Cur] + 0
    BY <1>1, <2>2
  <2> QED BY <1>1, <2>1, <2>2, <2>3, <2>4, <2>5
<1>4. Token(0) = [item |-> pos, obj |-> 0] /\ Token(0) \in Tokens
  BY <1>3, BoundsAssumption DEF Token, Tokens
<1>5. /\ v \in Seq(Tokens) /\ Len(v) = 1 /\ v[1] = Token(0)
      /\ \A s \in Seq(Tokens) : Append(s, Token(0)) = s \o v
  BY <1>4, Single
<1>6. pending' = pending \o v
  BY <1>1, <1>5 DEF WriterType
<1> HIDE DEF v
<1>7. /\ Kept(sent, sent') /\ sent' \in Seq(Parts)
      /\ Block' \in Seq(Tokens) /\ pending' \in Seq(Tokens)
      /\ TypeNow' /\ SentInOrder' /\ PlaceOK' /\ RoomOK' /\ RestOK' /\ Room' >= 0
      /\ Items' = Items /\ Cur' = pos /\ DoneQty' = DoneQty
      /\ pos' \in 1 .. Len(Items) + 1 /\ wqty' \in 0 .. Len(Items)
      /\ wqty' = Cur' - Skip'
  <2>1. v[1] = Expected(Items, Len(Written) + 1)
    BY <1>3, <1>4, <1>5
  <2> DEFINE one == IF IsPrim(Items[pos]) THEN 1 ELSE 0
  <2>2. /\ Kept(sent, sent') /\ sent' \in Seq(Parts)
        /\ Block' \in Seq(Tokens) /\ pending' \in Seq(Tokens)
        /\ TypeNow' /\ SentInOrder' /\ PlaceOK' /\ RoomOK' /\ RestOK' /\ Room' >= 0
        /\ Items' = Items /\ Cur' = pos /\ DoneQty' = DoneQty + one
        /\ pos' \in 1 .. Len(Items) + 1 /\ wqty' \in 0 .. Len(Items)
        /\ wqty' = Cur' - Skip'
    BY <1>1, <1>5, <1>6, <2>1, TokenStep
  <2>3. one = 0
    BY <1>3
  <2> HIDE DEF one
  <2>4. DoneQty' = DoneQty
    BY <1>3, <2>2, <2>3
  <2> QED BY <2>2, <2>4
<1>8. WriterType'
  BY <1>1, <1>2, <1>7 DEF WriterType
<1>9. WaitOK(n)' /\ WalkOK'
  <2>1. Prims(Items')[Cur'] = Prims(Items)[Cur]
    BY <1>3, <1>7
  <2> QED BY <1>1, <1>2, <1>7, <2>1 DEF WaitOK, WalkOK
<1> QED BY <1>7, <1>8, <1>9 DEF WriterOK

\* A primitive with its object, where there is room and behind a flush.
LEMMA PrimitiveOK ==
    ASSUME WriterType, NEW n \in Nat, WriterOK(n), WritePrimitive \/ FlushInWalk
    PROVE  WriterType' /\ WriterOK(n)' /\ Kept(sent, sent')
<1> DEFINE t == Token(Object)
           v == <<t>>
<1>1. /\ At /\ skip = 0 /\ IsPrim(Items[pos]) /\ pc = "walk"
      /\ currObj # 0 \/ objs # <<>>
      /\ Taken /\ currObj' = 0 /\ wqty' = wqty + 1 /\ pos' = pos + 1
      /\ text' = text /\ inf' = inf /\ Skip' = Skip
      /\ skip' = 0 /\ pc' = "walk" /\ ret' = ret
  BY DEF WritePrimitive, FlushInWalk, AtObject, At, Wrote
<1>2. \/ /\ Size(Items[pos]) <= Room /\ sent' = sent /\ Block' = Block
         /\ pending' = Append(pending, t)
      \/ sent' = Flushed(sent, Block \o pending) /\ Block' = <<>> /\ pending' = v
  BY DEF WritePrimitive, FlushInWalk
<1>3. /\ inf # <<>> /\ Waits(currObj, objs, DoneQty, n) /\ Skip \in 0 .. Len(Items) - 1
  BY <1>1, WalkFacts
<1>4. /\ pos \in 1 .. Len(Items) /\ Prims(Items)[Cur] \in Nat
      /\ Prims(Items)[pos] = Prims(Items)[Cur] + 1 /\ DoneQty \in Nat
      /\ Expected(Items, Len(Written) + 1) = [item |-> pos, obj |-> DoneQty + 1]
  BY <1>1, <1>3, NextToken, WriterFacts DEF WriterOK
<1>5. /\ Object = DoneQty + 1 /\ Object \in -1 .. MaxObjects
      /\ objs' \in Seq(-1 .. MaxObjects) /\ Waits(0, objs', DoneQty + 1, n)
  BY <1>1, <1>3, <1>4, TakenIs DEF WriterType
<1>6. t = Expected(Items, Len(Written) + 1) /\ t \in Tokens
  BY <1>4, <1>5 DEF Token, Tokens
<1>7. pending \in Seq(Tokens)
  BY DEF WriterType
<1> HIDE DEF t
<1>8. /\ v \in Seq(Tokens) /\ Len(v) = 1 /\ v[1] = t
      /\ Append(pending, t) = pending \o v
  BY <1>6, <1>7, Single
<1> HIDE DEF v
<1>9. /\ Kept(sent, sent') /\ sent' \in Seq(Parts)
      /\ Block' \in Seq(Tokens) /\ pending' \in Seq(Tokens)
      /\ TypeNow' /\ SentInOrder' /\ PlaceOK' /\ RoomOK' /\ RestOK' /\ Room' >= 0
      /\ Items' = Items /\ Cur' = pos /\ DoneQty' = DoneQty + 1
      /\ pos' \in 1 .. Len(Items) + 1 /\ wqty' \in 0 .. Len(Items)
      /\ wqty' = Cur' - Skip'
  <2>1. \/ Size(Items[pos]) <= Room /\ sent' = sent /\ Block' = Block /\ pending' = pending \o v
        \/ sent' = Flushed(sent, Block \o pending) /\ Block' = <<>> /\ pending' = v
    BY <1>2, <1>8
  <2>2. v \in Seq(Tokens) /\ Len(v) = 1 /\ v[1] = Expected(Items, Len(Written) + 1)
    BY <1>6, <1>8
  <2> QED BY <1>1, <2>1, <2>2, TokenStep
<1>10. WriterType'
  BY <1>1, <1>3, <1>5, <1>9, BoundsAssumption DEF WriterType
<1>11. WaitOK(n)' /\ WalkOK'
  <2>1. Prims(Items')[Cur'] > 0
    BY <1>4, <1>9
  <2> QED BY <1>1, <1>5, <1>9, <2>1 DEF WaitOK, WalkOK
<1> QED BY <1>9, <1>10, <1>11 DEF WriterOK

\* An exception: what the walk has written is not counted.
LEMMA ThrowOK ==
    ASSUME WriterType, NEW n \in Nat, WriterOK(n), Throw
    PROVE  WriterType' /\ WriterOK(n)' /\ Kept(sent, sent')
<1> DEFINE u == TokensOf(sent, Len(sent))
<1>1. /\ pc = "walk" /\ (currObj # 0 \/ objs # <<>>)
      /\ Taken /\ currObj' = Object /\ pending' = <<>> /\ pc' = "thrown"
      /\ pos' = 1 /\ skip' = 0 /\ wqty' = 0
      /\ text' = text /\ inf' = inf /\ Skip' = Skip /\ Block' = Block /\ ret' = ret
      /\ sent' = sent
  BY DEF Throw, AtObject, At
<1>2. inf # <<>> /\ InOrder(Items, Written) /\ Waits(currObj, objs, DoneQty, n)
  BY <1>1, WalkFacts
<1>3. /\ u \in Seq(Tokens) /\ Block \in Seq(Tokens) /\ pending \in Seq(Tokens)
      /\ Written = u \o (Block \o pending) /\ DoneQty \in Nat
      /\ sent # <<>> /\ sent[Len(sent)].inf = inf /\ sent \in Seq(Parts) /\ Len(Items) \in Nat
  BY <1>2, WriterFacts DEF WriterOK, WriterType, Written
<1>4. Object \in -1 .. MaxObjects /\ objs' \in Seq(-1 .. MaxObjects)
  BY <1>1, <1>2, <1>3, TakenIs DEF WriterType
<1>5. Items' = Items
  BY <1>1 DEF Items
<1>6. Written' = u \o Block
  <2>1. Written' = u \o (Block \o <<>>)
    BY <1>1 DEF Written, TokensOf
  <2>2. Block \o <<>> = Block
    BY <1>3, ConcatEmptySeq
  <2> QED BY <2>1, <2>2
<1> HIDE DEF u
<1>7. InOrder(Items, u \o Block)
  <2>1. Written = (u \o Block) \o pending /\ u \o Block \in Seq(Tokens)
    <3>1. u \o (Block \o pending) = (u \o Block) \o pending
      BY <1>3, Reassociate, Zenon
    <3> QED BY <1>3, <3>1, ConcatProperties
  <2> QED BY <1>2, <1>3, <2>1, InOrderFirst
<1>8. WriterType'
  BY <1>1, <1>3, <1>4, <1>5, EmptySeq DEF WriterType
<1>9. TypeNow' /\ SentInOrder'
  BY <1>1, <1>2, <1>3 DEF TypeNow, SentInOrder, TokensOf, WriterOK
<1>10. PlaceOK' /\ WaitOK(n)' /\ WalkOK' /\ RestOK' /\ RoomOK'
  BY <1>1, <1>5, <1>6, <1>7 DEF PlaceOK, WaitOK, WalkOK, RestOK, RoomOK, Running
<1>11. Kept(sent, sent')
  BY <1>1, <1>3, KeptSame
<1> QED BY <1>8, <1>9, <1>10, <1>11 DEF WriterOK

\* What is pending is counted.
LEMMA Counted ==
    ASSUME WriterType
    PROVE  /\ Block \o pending \in Seq(Tokens) /\ <<>> \in Seq(Tokens)
           /\ (Block \o pending) \o <<>> = Block \o pending
BY ConcatProperties, ConcatEmptySeq, EmptySeq DEF WriterType

\* No object is left, and a primitive comes next.
LEMMA ObjectMissingOK ==
    ASSUME WriterType, NEW n \in Nat, WriterOK(n), ObjectMissing
    PROVE  WriterType' /\ WriterOK(n)' /\ Kept(sent, sent')
<1>1. /\ pc = "walk" /\ pos <= Len(Items) /\ skip = 0 /\ IsPrim(Items[pos])
      /\ currObj = 0 /\ objs = <<>>
      /\ Block' = Block \o pending /\ pending' = <<>> /\ Skip' = Skip + wqty
      /\ pos' = 1 /\ skip' = 0 /\ wqty' = 0 /\ pc' = "idle" /\ ret' = "src"
      /\ text' = text /\ inf' = inf /\ currObj' = currObj /\ objs' = objs /\ sent' = sent
  BY DEF ObjectMissing, At, Return
<1>2. /\ inf # <<>> /\ InOrder(Items, Written)
      /\ Cur = pos - 1 + skip /\ Cur \in 0 .. Len(Items) /\ Skip \in 0 .. Len(Items) - 1
      /\ Len(Written) % Len(Items) = Cur % Len(Items)
      /\ Waits(currObj, objs, DoneQty, n) /\ wqty = Cur - Skip
      /\ Prims(Items)[Cur] > 0 \/ currObj # 0 \/ objs # <<>>
      /\ Used(Block \o pending) <= BlockSize
      /\ pos \in 1 .. Len(Items) + 1
  BY <1>1, WalkFacts
<1>3. /\ Kept(sent, sent') /\ Items' = Items /\ Written' = Written /\ DoneQty' = DoneQty
      /\ InOrder(Items', Written') /\ SentInOrder'
      /\ Used(Block \o pending)' <= BlockSize
      /\ sent' # <<>> /\ sent'[Len(sent')].inf = inf' /\ sent' \in Seq(Parts)
      /\ Block' \in Seq(Tokens) /\ pending' \in Seq(Tokens)
  <2>1. Block' \o pending' = Block \o pending /\ Block' \in Seq(Tokens) /\ pending' \in Seq(Tokens)
    BY <1>1, Counted
  <2> QED BY <1>1, <1>2, <2>1, SameStep DEF WriterOK, Kept
<1>4. /\ Skip' = Cur /\ Cur' = Cur /\ Cur < Len(Items) /\ Cur + 1 = pos /\ Cur \in Nat
      /\ Len(Items) \in Nat
  <2>1. Len(Items) \in Nat
    BY <1>2, WriterFacts DEF WriterOK
  <2>2. Cur' = Skip'
    BY <1>1 DEF Cur
  <2>3. Skip' = Skip + (Cur - Skip)
    BY <1>1, <1>2
  <2> QED BY <1>1, <1>2, <2>1, <2>2, <2>3
<1>5. Prims(Items)[Cur] > 0 /\ Cur # 0
  <2>1. Prims(Items)[0] = 0
    BY <1>2, WriterFacts, PrimsIs DEF WriterOK, Records
  <2> QED BY <1>1, <1>2, <2>1
<1>6. WriterType'
  <2>1. /\ Skip' \in 0 .. Len(Items') /\ skip' \in 0 .. Skip' /\ wqty' \in 0 .. Len(Items')
        /\ pos' \in 1 .. Len(Items') + 1
    BY <1>1, <1>3, <1>4
  <2> QED BY <1>1, <1>3, <2>1 DEF WriterType
<1>7. PlaceOK' /\ WaitOK(n)' /\ WalkOK'
  BY <1>1, <1>2, <1>3, <1>4 DEF PlaceOK, WaitOK, WalkOK
<1>8. TypeNow' /\ RestOK' /\ RoomOK'
  BY <1>1, <1>2, <1>3, <1>4, <1>5 DEF TypeNow, RestOK, RoomOK
<1> QED BY <1>3, <1>6, <1>7, <1>8 DEF WriterOK

\* The record is complete.
LEMMA RecordEndsOK ==
    ASSUME WriterType, NEW n \in Nat, WriterOK(n), RecordEnds
    PROVE  WriterType' /\ WriterOK(n)' /\ Kept(sent, sent')
<1>1. /\ pc = "walk" /\ pos > Len(Items)
      /\ Block' = Block \o pending /\ pending' = <<>> /\ Skip' = 0
      /\ pos' = 1 /\ skip' = 0 /\ wqty' = 0
      /\ text' = text /\ inf' = inf /\ sent' = sent
  BY DEF RecordEnds, Return, Again
<1>2. /\ inf # <<>> /\ InOrder(Items, Written)
      /\ Cur = pos - 1 + skip /\ Cur \in 0 .. Len(Items)
      /\ Len(Written) % Len(Items) = Cur % Len(Items)
      /\ Waits(currObj, objs, DoneQty, n)
      /\ Used(Block \o pending) <= BlockSize
      /\ pos \in 1 .. Len(Items) + 1 /\ skip \in Nat
  BY <1>1, WalkFacts
<1>3. /\ Kept(sent, sent') /\ Items' = Items /\ Written' = Written /\ DoneQty' = DoneQty
      /\ InOrder(Items', Written') /\ SentInOrder'
      /\ Used(Block \o pending)' <= BlockSize /\ Room' >= 0
      /\ sent' # <<>> /\ sent'[Len(sent')].inf = inf' /\ sent' \in Seq(Parts)
      /\ Block' \in Seq(Tokens) /\ pending' \in Seq(Tokens)
  <2>1. Block' \o pending' = Block \o pending /\ Block' \in Seq(Tokens) /\ pending' \in Seq(Tokens)
    BY <1>1, Counted
  <2> QED BY <1>1, <1>2, <2>1, SameStep DEF WriterOK, Kept
<1>4. Len(Items) \in Nat \ {0} /\ DoneQty \in Nat
  BY <1>2, WriterFacts DEF WriterOK
<1>5. Cur' = 0
  BY <1>1 DEF Cur
<1>6. PlaceOK'
  <2>1. Cur = Len(Items)
    BY <1>1, <1>2, <1>4
  <2>2. Len(Items) % Len(Items) = 0 /\ 0 % Len(Items) = 0
    <3>1. 0 \in 0 .. Len(Items) - 1
      BY <1>4
    <3> QED BY <1>4, <3>1, FullMod, SmallMod
  <2>3. Len(Written') % Len(Items') = Cur' % Len(Items')
    BY <1>2, <1>3, <1>5, <2>1, <2>2
  <2>4. Cur' <= Len(Items') /\ Skip' < Len(Items')
    BY <1>1, <1>3, <1>4, <1>5
  <2> QED BY <1>3, <2>3, <2>4 DEF PlaceOK
<1>7. /\ Skip' \in 0 .. Len(Items') /\ skip' \in 0 .. Skip' /\ wqty' \in 0 .. Len(Items')
      /\ pos' \in 1 .. Len(Items') + 1 /\ wqty' = Cur' - Skip'
  BY <1>1, <1>3, <1>4, <1>5
<1>8. CASE currObj = 0 /\ objs = <<>>
  <2>1. pc' = "idle" /\ ret' = "ok" /\ currObj' = currObj /\ objs' = objs
    BY <1>8 DEF RecordEnds, Return
  <2>2. WriterType'
    BY <1>1, <1>3, <1>7, <2>1 DEF WriterType
  <2>3. WaitOK(n)' /\ WalkOK'
    BY <1>1, <1>2, <1>3, <1>8, <2>1 DEF WaitOK, WalkOK
  <2>4. TypeNow' /\ RestOK' /\ RoomOK'
    BY <1>1, <1>2, <1>3, <2>1 DEF TypeNow, RestOK, RoomOK
  <2> QED BY <1>3, <1>6, <2>2, <2>3, <2>4 DEF WriterOK
<1>9. CASE currObj # 0 \/ objs # <<>>
  <2>1. pc' = "walk" /\ ret' = ret /\ Taken /\ currObj' = Object
    BY <1>1, <1>9 DEF RecordEnds, Again
  <2>2. /\ Object \in -1 .. MaxObjects /\ Object # 0
        /\ objs' \in Seq(-1 .. MaxObjects) /\ Waits(Object, objs', DoneQty, n)
    BY <1>2, <1>4, <1>9, <2>1, TakenIs DEF WriterType
  <2>3. WriterType'
    BY <1>1, <1>3, <1>7, <2>1, <2>2 DEF WriterType
  <2>4. WaitOK(n)'
    <3>1. Waits(currObj', objs', DoneQty', n)
      BY <1>3, <2>1, <2>2
    <3> QED BY <3>1 DEF WaitOK
  <2>6. WalkOK'
    <3>1. currObj' # 0
      BY <2>1, <2>2
    <3>2. pc' = "walk" /\ wqty' = Cur' - Skip' /\ skip' = 0
      BY <1>1, <1>7, <2>1
    <3>3. ~(skip' > 0)
      BY <3>2
    <3> QED BY <3>1, <3>2, <3>3, Zenon DEF WalkOK
  <2>5. TypeNow' /\ RestOK' /\ RoomOK'
    BY <1>1, <1>2, <1>3, <2>1 DEF TypeNow, RestOK, RoomOK
  <2> QED BY <1>3, <1>6, <2>3, <2>4, <2>5, <2>6 DEF WriterOK
<1> QED BY <1>8, <1>9

\* A separator that does not fit.
LEMMA SepOverflowOK ==
    ASSUME WriterType, NEW n \in Nat, WriterOK(n), SepOverflow
    PROVE  WriterType' /\ WriterOK(n)' /\ Kept(sent, sent')
<1>1. /\ pc = "walk" /\ pos <= Len(Items) /\ skip = 0
      /\ sent' = Flushed(sent, Block \o pending) /\ Block' = <<>> /\ pending' = <<>>
      /\ Skip' = Skip + wqty /\ pos' = 1 /\ skip' = Skip + wqty /\ wqty' = 0
      /\ pc' = "walk" /\ ret' = ret
      /\ text' = text /\ inf' = inf /\ currObj' = currObj /\ objs' = objs
  BY DEF SepOverflow, At, Again
<1>2. /\ inf # <<>> /\ InOrder(Items, Written)
      /\ Cur = pos - 1 + skip /\ Cur \in 0 .. Len(Items) /\ Skip \in 0 .. Len(Items) - 1
      /\ Len(Written) % Len(Items) = Cur % Len(Items)
      /\ Waits(currObj, objs, DoneQty, n) /\ wqty = Cur - Skip
      /\ Prims(Items)[Cur] > 0 \/ currObj # 0 \/ objs # <<>>
      /\ Used(Block \o pending) <= BlockSize
      /\ pos \in 1 .. Len(Items) + 1
  BY <1>1, WalkFacts
<1>3. /\ Kept(sent, sent') /\ Items' = Items /\ Written' = Written /\ DoneQty' = DoneQty
      /\ InOrder(Items', Written') /\ SentInOrder'
      /\ Used(Block \o pending)' <= BlockSize /\ Room' >= 0
      /\ sent' # <<>> /\ sent'[Len(sent')].inf = inf' /\ sent' \in Seq(Parts)
      /\ Block' \in Seq(Tokens) /\ pending' \in Seq(Tokens)
  BY <1>1, <1>2, SameStep DEF WriterOK, Kept
<1>4. /\ Skip' = Cur /\ skip' = Cur /\ Cur < Len(Items) /\ Cur \in Nat /\ Len(Items) \in Nat
  <2>1. Len(Items) \in Nat
    BY <1>2, WriterFacts DEF WriterOK
  <2>2. Skip' = Skip + (Cur - Skip)
    BY <1>1, <1>2
  <2> QED BY <1>1, <1>2, <2>1, <2>2
<1>5. Cur' = Cur
  <2>1. Cur' = pos' - 1 + skip'
    BY <1>1 DEF Cur
  <2> QED BY <1>1, <1>4, <2>1
<1>6. WriterType'
  <2>1. /\ Skip' \in 0 .. Len(Items') /\ skip' \in 0 .. Skip' /\ wqty' \in 0 .. Len(Items')
        /\ pos' \in 1 .. Len(Items') + 1
    BY <1>1, <1>3, <1>4
  <2> QED BY <1>1, <1>3, <2>1 DEF WriterType
<1>7. PlaceOK' /\ WaitOK(n)' /\ WalkOK'
  <2>1. wqty' = Cur' - Skip' /\ Cur' = Skip'
    BY <1>1, <1>4, <1>5
  <2> QED BY <1>1, <1>2, <1>3, <1>4, <1>5, <2>1 DEF PlaceOK, WaitOK, WalkOK
<1>8. TypeNow' /\ RestOK' /\ RoomOK'
  BY <1>1, <1>2, <1>3 DEF TypeNow, RestOK, RoomOK
<1> QED BY <1>3, <1>6, <1>7, <1>8 DEF WriterOK

\* Whatever a walk does.
LEMMA WalkStep ==
    ASSUME WriterType, NEW n \in Nat, WriterOK(n), Walk
    PROVE  WriterType' /\ WriterOK(n)' /\ Kept(sent, sent')
BY StepOverOK, WriteSepOK, PrimitiveOK, ThrowOK, ObjectMissingOK, RecordEndsOK,
   SepOverflowOK DEF Walk

-----------------------------------------------------------------------------
(* A writer between two calls *)

\* What a flush leaves in the stream.
LEMMA FlushIdle ==
    ASSUME WriterType, TypeNow, SentInOrder, PlaceOK, pc # "closed", pending = <<>>,
           NEW s, s = Flushed(sent, Block)
    PROVE  /\ Kept(sent, s) /\ s \in Seq(Parts) /\ Len(s) = Len(sent)
           /\ inf # <<>> => TokensOf(s, Len(s)) = Written
           /\ inf # <<>> => s # <<>> /\ s[Len(s)].inf = inf
           /\ inf = <<>> => s = sent
           /\ \A k \in 1 .. Len(s) : k < Len(sent) => s[k] = sent[k]
           /\ \A k \in 1 .. Len(s) : InOrder(ItemsOf(s[k].inf, text), TokensOf(s, k))
<1>1. sent \in Seq(Parts) /\ Block \in Seq(Tokens)
  BY DEF WriterType
<1>2. \A k \in 1 .. Len(sent) : InOrder(ItemsOf(sent[k].inf, text), TokensOf(sent, k))
  BY DEF SentInOrder
<1>3. CASE inf = <<>>
  <2>1. s = sent
    BY <1>3 DEF TypeNow, Flushed
  <2> QED BY <1>1, <1>2, <1>3, <2>1, KeptSame
<1>4. CASE inf # <<>>
  <2>1. /\ sent # <<>> /\ Len(sent) \in Nat \ {0} /\ sent[Len(sent)].inf = inf
        /\ InOrder(Items, Written)
    BY <1>4, WriterFacts DEF PlaceOK
  <2>2. Kept(sent, s) /\ TokensOf(s, Len(sent)) = TokensOf(sent, Len(sent)) \o Block
    BY <1>1, <2>1, FlushedIs
  <2>3. Written = TokensOf(sent, Len(sent)) \o Block
    <3>1. Block \o <<>> = Block
      BY <1>1, ConcatEmptySeq
    <3> QED BY <3>1 DEF Written
  <2>4. /\ s \in Seq(Parts) /\ Len(s) = Len(sent)
        /\ \A k \in 1 .. Len(sent) : s[k].inf = sent[k].inf
        /\ \A k \in 1 .. Len(sent) : k < Len(sent) => s[k] = sent[k]
    BY <2>2 DEF Kept
  <2>5. s # <<>> /\ s[Len(s)].inf = inf
    BY <2>1, <2>4, EmptySeq
  <2>6. ItemsOf(inf, text) = Items
    BY DEF Items
  <2>7. ASSUME NEW k \in 1 .. Len(s)
        PROVE  InOrder(ItemsOf(s[k].inf, text), TokensOf(s, k))
    <3>1. CASE k = Len(sent)
      BY <2>1, <2>2, <2>3, <2>4, <2>5, <2>6, <3>1
    <3>2. CASE k # Len(sent)
      <4>1. k < Len(sent)
        BY <2>1, <2>4, <3>2
      <4> QED BY <1>2, <2>4, <4>1 DEF TokensOf
    <3> QED BY <3>1, <3>2
  <2> QED BY <1>4, <2>2, <2>3, <2>4, <2>5, <2>7
<1> QED BY <1>3, <1>4

\* All that the objects allow is written, and Skip tells where it ends.
LEMMA WholeNow ==
    ASSUME WriterType, NEW n \in Nat, WriterOK(n), pc \in {"idle", "read"}, inf # <<>>
    PROVE  /\ AllOf(Items, n, Len(Written)) /\ n = DoneQty
           /\ Skip = Len(Written) % Len(Items)
           /\ ret = "ok" <=> Skip = 0
           /\ ret = "ok" <=> n % PrimQty(Items) = 0
           /\ currObj = 0 /\ objs = <<>> /\ pending = <<>>
<1>1. Items \in Records /\ Len(Items) \in Nat \ {0} /\ Len(Written) \in Nat /\ DoneQty \in Nat
  BY WriterFacts DEF WriterOK
<1>2. /\ Len(Written) % Len(Items) = Cur % Len(Items)
      /\ Cur <= Len(Items) /\ Skip < Len(Items)
  BY DEF WriterOK, PlaceOK, Running
<1>3. currObj = 0 /\ objs = <<>> /\ pending = <<>>
  BY DEF WriterOK, WalkOK
<1>4. Skip \in 0 .. Len(Items) - 1 /\ Cur = Skip
  BY <1>1, <1>2 DEF Cur, WriterType
<1>5. Skip = Len(Written) % Len(Items)
  BY <1>1, <1>2, <1>4, SmallMod
<1>6. Waits(currObj, objs, DoneQty, n)
  BY DEF WriterOK, WaitOK, Running
<1>7. n = DoneQty
  <2>1. n = DoneQty + Len(<<>>) /\ Len(<<>>) = 0
    BY <1>3, <1>6, EmptySeq DEF Waits
  <2> QED BY <1>1, <2>1
<1>8. /\ ret = "ok" <=> Skip = 0
      /\ Skip # 0 => Prims(Items)[Skip] > 0 /\ IsPrim(Items[Skip + 1])
  BY DEF WriterOK, RestOK
<1>9. Done(Items, Len(Written)) % PrimQty(Items) = 0 <=> Skip = 0
  BY <1>1, <1>5, <1>8, WholeRecords
<1>10. AllOf(Items, n, Len(Written))
  BY <1>5, <1>7, <1>8 DEF AllOf, DoneQty
<1> QED BY <1>3, <1>5, <1>7, <1>8, <1>9, <1>10 DEF DoneQty

\* The writer before its first type, or when a new one takes over.
LEMMA NewOK ==
    ASSUME New(TRUE) \/ New(FALSE), pc' = "idle",
           sent' \in Seq(Parts),
           \A k \in 1 .. Len(sent') : InOrder(ItemsOf(sent'[k].inf, text'), TokensOf(sent', k))
    PROVE  WriterType' /\ \A n : WriterOK(n)'
<1>1. /\ text' \in BOOLEAN /\ inf' = <<>> /\ Skip' = 0 /\ currObj' = 0 /\ objs' = <<>>
      /\ Block' = <<>> /\ pending' = <<>>
      /\ pos' = 1 /\ skip' = 0 /\ wqty' = 0 /\ ret' = "ok"
  BY DEF New
<1>2. /\ <<>> \in Seq(Tokens) /\ <<>> \in Seq(-1 .. MaxObjects) /\ <<>> \o <<>> = <<>>
  BY EmptySeq, ConcatEmptySeq
<1>3. Len(Items') = 0
  BY <1>1, NullIs DEF Items
<1>4. Used(Block \o pending)' = 0
  <2>1. Used(<<>>)' = 0
    BY UsedNothing
  <2>2. Used(Block \o pending)' = Used(<<>>)'
    BY <1>1, <1>2 DEF Used, Size
  <2> QED BY <2>1, <2>2
<1>5. Room' >= 0
  BY <1>4, SizeAssumption DEF Room
<1>6. WriterType'
  BY <1>1, <1>2, <1>3, <1>5, BoundsAssumption DEF WriterType
<1>7. TypeNow' /\ SentInOrder' /\ PlaceOK' /\ WalkOK' /\ RestOK'
  BY <1>1 DEF TypeNow, SentInOrder, TokensOf, PlaceOK, WalkOK, RestOK
<1>8. RoomOK'
  BY <1>4, SizeAssumption DEF RoomOK
<1>9. \A n : WaitOK(n)'
  BY <1>1 DEF WaitOK
<1> QED BY <1>6, <1>7, <1>8, <1>9 DEF WriterOK

\* The next type, behind whole records.
LEMMA InfoOK ==
    ASSUME WriterType, NEW n \in Nat, WriterOK(n), NEW ty \in Types, WriteInfo(ty),
           ret = "ok", WholeBefore, inf # <<>> => given[Len(sent)] = n
    PROVE  /\ WriterType' /\ WriterOK(0)' /\ inf' # <<>>
           /\ Len(sent) \in Nat /\ Len(sent') = Len(sent) + 1
           /\ \A k \in 1 .. Len(sent) :
                PartOK(sent'[k].inf, text, given[k], Len(TokensOf(sent', k)))
<1> DEFINE s == Flushed(sent, Block)
<1>1. /\ pc = "idle" /\ sent' = Append(s, [inf |-> ty, blocks |-> <<>>])
      /\ inf' = ty /\ Block' = <<>>
      /\ text' = text /\ Skip' = Skip /\ currObj' = currObj /\ objs' = objs
      /\ pending' = pending /\ pos' = pos /\ skip' = skip /\ wqty' = wqty
      /\ pc' = pc /\ ret' = ret
  BY DEF WriteInfo, walk
<1>2. /\ TypeNow /\ SentInOrder /\ PlaceOK
      /\ skip = 0 /\ pos = 1 /\ wqty = 0 /\ pending = <<>> /\ currObj = 0 /\ objs = <<>>
  BY <1>1 DEF WriterOK, WalkOK
<1>3. Skip = 0
  <2>1. CASE inf = <<>>
    BY <1>2, <2>1 DEF TypeNow
  <2>2. CASE inf # <<>>
    BY <1>1, <2>2, WholeNow
  <2> QED BY <2>1, <2>2
<1>4. /\ s \in Seq(Parts) /\ Len(s) = Len(sent) /\ Kept(sent, s)
      /\ inf # <<>> => TokensOf(s, Len(s)) = Written
      /\ inf # <<>> => s # <<>> /\ s[Len(s)].inf = inf
      /\ inf = <<>> => s = sent
      /\ \A k \in 1 .. Len(s) : k < Len(sent) => s[k] = sent[k]
      /\ \A k \in 1 .. Len(s) : InOrder(ItemsOf(s[k].inf, text), TokensOf(s, k))
  BY <1>1, <1>2, FlushIdle
<1> HIDE DEF s
<1>5. /\ sent' \in Seq(Parts) /\ Len(s) \in Nat /\ Len(sent') = Len(s) + 1 /\ sent' # <<>>
      /\ \A k \in 1 .. Len(s) : sent'[k] = s[k]
      /\ sent'[Len(sent')].inf = ty /\ TokensOf(sent', Len(sent')) = <<>>
  <2>1. \A s2 : s2 = Append(s, [inf |-> ty, blocks |-> <<>>]) =>
          /\ s2 \in Seq(Parts) /\ Len(s) \in Nat /\ Len(s2) = Len(s) + 1 /\ s2 # <<>>
          /\ \A k \in 1 .. Len(s) : s2[k] = s[k]
          /\ s2[Len(s2)].inf = ty /\ TokensOf(s2, Len(s2)) = <<>>
    BY <1>4, InfoMore
  <2> QED BY <1>1, <2>1, Zenon
<1>6. ty # <<>> /\ text \in BOOLEAN
  BY TypeIs DEF WriterType
<1>7. Items' = ItemsOf(ty, text) /\ Items' \in Records /\ Len(Items') \in Nat \ {0}
  <2>1. Items' = ItemsOf(ty, text)
    BY <1>1 DEF Items
  <2>2. Items' \in Records
    BY <1>6, <2>1, ItemsIs
  <2> QED BY <2>1, <2>2, PrimsIs DEF Records
<1>8. /\ <<>> \in Seq(Tokens) /\ <<>> \o <<>> = <<>> /\ Len(<<>>) = 0
      /\ <<>> \in Seq(-1 .. MaxObjects)
  BY EmptySeq, ConcatEmptySeq
<1>9. Written' = <<>>
  <2>1. Written' = TokensOf(sent', Len(sent')) \o (Block' \o pending')
    BY DEF Written, TokensOf
  <2> QED BY <1>1, <1>2, <1>5, <1>8, <2>1
<1>10. DoneQty' = 0
  <2>1. DoneQty' = Done(Items', Len(Written'))
    BY DEF DoneQty, Done
  <2> QED BY <1>7, <1>8, <1>9, <2>1, DoneNothing
<1>11. Used(Block \o pending)' = 0
  <2>1. Used(<<>>)' = 0
    BY UsedNothing
  <2>2. Used(Block \o pending)' = Used(<<>>)'
    BY <1>1, <1>2, <1>8 DEF Used, Size
  <2> QED BY <2>1, <2>2
<1>12. Room' >= 0
  BY <1>11, SizeAssumption DEF Room
<1>13. WriterType'
  <2>1. /\ Skip' \in 0 .. Len(Items') /\ skip' \in 0 .. Skip' /\ wqty' \in 0 .. Len(Items')
        /\ pos' \in 1 .. Len(Items') + 1
    BY <1>1, <1>2, <1>3, <1>7
  <2> QED BY <1>1, <1>2, <1>5, <1>8, <1>12, <2>1, BoundsAssumption DEF WriterType
<1>14. SentInOrder'
  <2>1. ASSUME NEW k \in 1 .. Len(sent')
        PROVE  InOrder(ItemsOf(sent'[k].inf, text'), TokensOf(sent', k))
    <3>1. CASE k = Len(sent')
      BY <1>5, <3>1, InOrderEmpty
    <3>2. CASE k # Len(sent')
      <4>1. k \in 1 .. Len(s)
        BY <1>5, <3>2
      <4> QED BY <1>1, <1>4, <1>5, <4>1 DEF TokensOf
    <3> QED BY <3>1, <3>2
  <2> QED BY <2>1 DEF SentInOrder, TokensOf
<1>15. TypeNow'
  BY <1>1, <1>5, <1>6 DEF TypeNow
<1>16. PlaceOK'
  <2>1. Cur' = 0
    BY <1>1, <1>3 DEF Cur
  <2>2. InOrder(Items', Written') /\ Len(Written') = 0
    BY <1>8, <1>9, InOrderEmpty
  <2> QED BY <1>1, <1>3, <1>7, <2>1, <2>2 DEF PlaceOK
<1>17. WaitOK(0)' /\ WalkOK'
  <2>1. Waits(currObj', objs', DoneQty', 0)
    BY <1>1, <1>2, <1>8, <1>10 DEF Waits
  <2> QED BY <1>1, <1>2, <2>1 DEF WaitOK, WalkOK
<1>18. RestOK' /\ RoomOK'
  BY <1>1, <1>3, <1>11, SizeAssumption DEF RestOK, RoomOK
<1>19. ASSUME NEW k \in 1 .. Len(sent)
       PROVE  PartOK(sent'[k].inf, text, given[k], Len(TokensOf(sent', k)))
  <2>1. sent'[k] = s[k]
    BY <1>4, <1>5
  <2>2. CASE k < Len(sent) \/ inf = <<>>
    <3>1. s[k] = sent[k]
      BY <1>4, <2>2
    <3>2. PartOK(sent[k].inf, text, given[k], Len(TokensOf(sent, k)))
      BY <1>1, <2>2 DEF WholeBefore
    <3> QED BY <2>1, <3>1, <3>2 DEF TokensOf
  <2>3. CASE ~(k < Len(sent)) /\ inf # <<>>
    <3>1. k = Len(s) /\ k = Len(sent)
      BY <1>4, <1>5, <2>3
    <3>2. sent'[k].inf = inf /\ TokensOf(sent', k) = Written /\ given[k] = n
      BY <1>4, <2>1, <2>3, <3>1 DEF TokensOf
    <3>3. AllOf(Items, n, Len(Written)) /\ n % PrimQty(Items) = 0
      BY <1>1, <2>3, WholeNow
    <3>4. Items = ItemsOf(inf, text) /\ PrimQty(Items) = PrimQty(inf)
      BY <1>6, <2>3, ItemsIs DEF Items, WriterType
    <3> QED BY <3>2, <3>3, <3>4 DEF PartOK
  <2> QED BY <2>2, <2>3
<1> QED BY <1>1, <1>4, <1>5, <1>6, <1>13, <1>14, <1>15, <1>16, <1>17, <1>18, <1>19 DEF WriterOK

\* Objects for the next walks.
LEMMA WriteOK ==
    ASSUME WriterType, NEW n \in Nat, WriterOK(n), pc \in {"idle", "read"}, inf # <<>>,
           objs' \in Seq(-1 .. MaxObjects), objs' # <<>>,
           NEW m \in Nat, m = n + Len(objs'), \A i \in 1 .. Len(objs') : objs'[i] = n + i,
           pos' = 1, skip' = Skip, wqty' = 0, pc' = "walk",
           UNCHANGED <<text, inf, Skip, currObj, Block, pending, ret, sent>>
    PROVE  WriterType' /\ WriterOK(m)' /\ Kept(sent, sent')
<1>1. /\ text' = text /\ inf' = inf /\ Skip' = Skip /\ currObj' = currObj
      /\ Block' = Block /\ pending' = pending /\ ret' = ret /\ sent' = sent
  OBVIOUS
<1>2. /\ n = DoneQty /\ Skip = Len(Written) % Len(Items)
      /\ currObj = 0 /\ objs = <<>> /\ pending = <<>>
  BY WholeNow
<1>3. /\ InOrder(Items, Written) /\ Skip < Len(Items) /\ Cur <= Len(Items)
      /\ Len(Written) % Len(Items) = Cur % Len(Items) /\ Cur = Skip
      /\ Used(Block \o pending) <= BlockSize
  BY DEF WriterOK, PlaceOK, RoomOK, Running, Cur
<1>4. /\ Kept(sent, sent') /\ Items' = Items /\ Written' = Written /\ DoneQty' = DoneQty
      /\ InOrder(Items', Written') /\ SentInOrder'
      /\ Used(Block \o pending)' <= BlockSize /\ Room' >= 0
      /\ sent' # <<>> /\ sent'[Len(sent')].inf = inf' /\ sent' \in Seq(Parts)
  <2>1. Block' \o pending' = Block \o pending /\ Block' \in Seq(Tokens) /\ pending' \in Seq(Tokens)
    BY <1>1 DEF WriterType
  <2> QED BY <1>1, <1>3, <2>1, SameStep DEF WriterOK, Kept
<1>5. Skip \in Nat /\ Len(Items) \in Nat
  BY WriterFacts DEF WriterOK, WriterType
<1>6. Cur' = Skip /\ wqty' = Cur' - Skip'
  <2>1. Cur' = pos' - 1 + skip'
    BY DEF Cur
  <2> QED BY <1>1, <1>5, <2>1
<1>7. WriterType'
  <2>1. /\ Skip' \in 0 .. Len(Items') /\ skip' \in 0 .. Skip' /\ wqty' \in 0 .. Len(Items')
        /\ pos' \in 1 .. Len(Items') + 1
    BY <1>1, <1>3, <1>4, <1>5
  <2> QED BY <1>1, <1>4, <2>1 DEF WriterType
<1>8. PlaceOK' /\ WalkOK'
  BY <1>1, <1>2, <1>3, <1>4, <1>6 DEF PlaceOK, WalkOK
<1>9. WaitOK(m)'
  <2>1. Waits(currObj', objs', DoneQty', m)
    BY <1>1, <1>2, <1>4 DEF Waits
  <2> QED BY <2>1 DEF WaitOK
<1>10. TypeNow' /\ RestOK' /\ RoomOK'
  BY <1>1, <1>4 DEF TypeNow, RestOK, RoomOK
<1> QED BY <1>4, <1>7, <1>8, <1>9, <1>10 DEF WriterOK

\* The block goes out between two calls.
LEMMA FlushOK ==
    ASSUME WriterType, NEW n \in Nat, WriterOK(n), Flush
    PROVE  WriterType' /\ WriterOK(n)' /\ Kept(sent, sent')
<1>1. /\ pc = "idle" /\ Block # <<>> /\ sent' = Flushed(sent, Block) /\ Block' = <<>>
      /\ text' = text /\ inf' = inf /\ Skip' = Skip /\ currObj' = currObj /\ objs' = objs
      /\ pending' = pending /\ pos' = pos /\ skip' = skip /\ wqty' = wqty
      /\ pc' = pc /\ ret' = ret
  BY DEF Flush, walk
<1>2. inf # <<>> /\ pending = <<>>
  BY <1>1 DEF WriterOK, TypeNow, WalkOK
<1>3. Block \o pending = Block
  BY <1>2, ConcatEmptySeq DEF WriterType
<1>4. /\ InOrder(Items, Written) /\ Used(Block \o pending) <= BlockSize
  BY <1>1, <1>2 DEF WriterOK, PlaceOK, RoomOK, Running
<1>5. /\ Kept(sent, sent') /\ Items' = Items /\ Written' = Written /\ DoneQty' = DoneQty
      /\ InOrder(Items', Written') /\ SentInOrder'
      /\ Used(Block \o pending)' <= BlockSize /\ Room' >= 0
      /\ sent' # <<>> /\ sent'[Len(sent')].inf = inf' /\ sent' \in Seq(Parts)
      /\ Block' \in Seq(Tokens) /\ pending' \in Seq(Tokens)
  <2>1. sent' = Flushed(sent, Block \o pending) /\ Block' = <<>> /\ pending' = <<>>
    BY <1>1, <1>2, <1>3
  <2> QED BY <1>1, <1>2, <1>4, <2>1, SameStep DEF WriterOK, Kept
<1>6. Cur' = Cur
  BY <1>1 DEF Cur
<1>7. WriterType'
  BY <1>1, <1>5 DEF WriterType
<1>8. PlaceOK' /\ WaitOK(n)' /\ WalkOK'
  BY <1>1, <1>5, <1>6 DEF WriterOK, PlaceOK, WaitOK, WalkOK, Running
<1>9. TypeNow' /\ RestOK' /\ RoomOK'
  BY <1>1, <1>2, <1>5 DEF WriterOK, TypeNow, RestOK, RoomOK
<1> QED BY <1>5, <1>7, <1>8, <1>9 DEF WriterOK

\* The writer rests, while the converter begins or ends a block.
LEMMA RestStep ==
    ASSUME WriterType, NEW n \in Nat, WriterOK(n),
           pc \in {"idle", "read"}, pc' \in {"idle", "read"}, inf = <<>> => pc' = "idle",
           UNCHANGED <<text, inf, Skip, currObj, objs, Block, pending, walk, ret, sent>>
    PROVE  WriterType' /\ WriterOK(n)'
<1>1. /\ text' = text /\ inf' = inf /\ Skip' = Skip /\ currObj' = currObj /\ objs' = objs
      /\ Block' = Block /\ pending' = pending /\ pos' = pos /\ skip' = skip /\ wqty' = wqty
      /\ ret' = ret /\ sent' = sent
  BY DEF walk
<1>2. /\ Items' = Items /\ Cur' = Cur /\ Cur = Skip
  BY <1>1 DEF Items, Cur
<1>3. Written' = Written /\ Used(Block \o pending)' = Used(Block \o pending)
  BY <1>1, <1>2 DEF Written, TokensOf, Used, Size
<1>4. DoneQty' = DoneQty
  BY <1>2, <1>3 DEF DoneQty, Done
<1>5. WriterType'
  BY <1>1, <1>2 DEF WriterType
<1>6. TypeNow' /\ SentInOrder'
  BY <1>1 DEF WriterOK, TypeNow, SentInOrder, TokensOf
<1>7. PlaceOK' /\ WaitOK(n)' /\ WalkOK'
  BY <1>1, <1>2, <1>3, <1>4 DEF WriterOK, PlaceOK, WaitOK, WalkOK, Running
<1>8. RestOK' /\ RoomOK'
  BY <1>1, <1>2, <1>3 DEF WriterOK, RestOK, RoomOK, Running
<1> QED BY <1>5, <1>6, <1>7, <1>8 DEF WriterOK

\* The writer is closed.
LEMMA ClosedOK ==
    ASSUME WriterType, TypeNow, SentInOrder, PlaceOK, WalkOK, pc \in {"idle", "thrown"},
           sent' = Flushed(sent, Block), Block' = <<>>, pc' = "closed",
           UNCHANGED <<text, inf, Skip, currObj, objs, pending, walk, ret>>
    PROVE  WriterType' /\ \A n : WriterOK(n)'
<1>1. /\ text' = text /\ inf' = inf /\ Skip' = Skip /\ currObj' = currObj /\ objs' = objs
      /\ pending' = pending /\ pos' = pos /\ skip' = skip /\ wqty' = wqty /\ ret' = ret
      /\ pc # "walk" /\ pc # "closed" /\ pending = <<>>
  BY DEF walk, WalkOK
<1>2. /\ sent' \in Seq(Parts)
      /\ inf # <<>> => sent' # <<>> /\ sent'[Len(sent')].inf = inf
      /\ \A k \in 1 .. Len(sent') : InOrder(ItemsOf(sent'[k].inf, text), TokensOf(sent', k))
  <2>1. \A s : s = Flushed(sent, Block) =>
          /\ s \in Seq(Parts)
          /\ inf # <<>> => s # <<>> /\ s[Len(s)].inf = inf
          /\ \A k \in 1 .. Len(s) : InOrder(ItemsOf(s[k].inf, text), TokensOf(s, k))
    BY <1>1, FlushIdle
  <2> QED BY <2>1, Zenon
<1>3. Items' = Items
  BY <1>1 DEF Items
<1>4. WriterType'
  BY <1>1, <1>2, <1>3, EmptySeq DEF WriterType
<1>5. SentInOrder'
  BY <1>1, <1>2 DEF SentInOrder, TokensOf
<1>6. TypeNow'
  BY <1>1, <1>2 DEF TypeNow
<1>7. PlaceOK' /\ WalkOK' /\ RestOK' /\ RoomOK' /\ \A n : WaitOK(n)'
  BY <1>1 DEF PlaceOK, WalkOK, RestOK, RoomOK, WaitOK, Running
<1> QED BY <1>4, <1>5, <1>6, <1>7 DEF WriterOK

-----------------------------------------------------------------------------
(* Steps of the writer in the system *)

\* How many objects have been handed over is a number.
LEMMA HandedIs ==
    ASSUME IInv, Running
    PROVE  Handed \in Nat
<1>1. ReaderType /\ ReadOK
  BY TypeSplit DEF IInv
<1>2. CASE ~converting
  <2>1. CASE given = <<>>
    BY <1>2, <2>1 DEF Handed
  <2>2. CASE given # <<>>
    <3>1. Len(given) \in Nat \ {0} /\ given \in Seq(0 .. MaxObjects)
      BY <1>1, <2>2, EmptyLen DEF ReaderType
    <3>2. Len(given) \in 1 .. Len(given)
      BY <3>1
    <3>3. given[Len(given)] \in 0 .. MaxObjects
      BY <3>1, <3>2, ElementOfSeq
    <3> QED BY <1>2, <2>2, <3>3, BoundsAssumption DEF Handed
  <2> QED BY <2>1, <2>2
<1>3. CASE converting /\ part = 0
  BY <1>3 DEF Handed
<1>4. CASE converting /\ part # 0
  <2>1. part \in 1 .. Len(file) /\ file \in Seq(Parts) /\ blk \in Nat
    BY <1>1, <1>4 DEF ReaderType
  <2>2. ReadQty >= Len(arr) /\ blk <= Len(file[part].blocks)
    BY <1>1, <1>4 DEF ReadOK
  <2>3. file[part].blocks \in Seq(Seq(Tokens))
    BY <2>1, PartIs
  <2> DEFINE bs == file[part].blocks
  <2>4. bs \in Seq(Seq(Tokens)) /\ blk <= Len(bs) /\ Len(bs) \in Nat
    BY <2>2, <2>3, LenProperties
  <2>5. ReadSoFar = FlattenSeq(SubSeq(bs, 1, blk))
    BY DEF ReadSoFar
  <2> HIDE DEF bs
  <2>6. blk \in 0 .. Len(bs)
    BY <2>1, <2>4
  <2>7. ReadSoFar \in Seq(Tokens)
    BY <2>4, <2>5, <2>6, FlattenFront
  <2>8. Len(ReadSoFar) \in Nat /\ Len(src) \in Nat /\ Len(arr) \in Nat
    BY <1>1, <2>7, LenProperties DEF ReaderType
  <2>9. ReadQty = Len(ReadSoFar) - Len(src)
    BY DEF ReadQty
  <2>10. ReadQty - Len(arr) \in Nat
    BY <2>2, <2>8, <2>9
  <2> QED BY <1>4, <2>10 DEF Handed
<1> QED BY <1>2, <1>3, <1>4 DEF IInv, TypeOK

\* It is Handed that the writer knows.
LEMMA HandedNext ==
    ASSUME NEW n, Handed' = n, WriterOK(n)'
    PROVE  WriterOK(Handed)'
BY DEF WriterOK, WaitOK

\* A step of the writer alone.
LEMMA WriterStep ==
    ASSUME IInv, NEW n \in Nat, n = Handed, WriterType', WriterOK(n)', Kept(sent, sent'),
           inf # <<>>, text' = text, inf' = inf,
           UNCHANGED <<given, converting, reader>>,
           pc \in {"idle", "walk"}, pc' \in {"idle", "walk", "thrown"},
           threw' = (threw \/ pc' = "thrown")
    PROVE  IInv'
<1>1. /\ given' = given /\ converting' = converting /\ file' = file /\ part' = part
      /\ blk' = blk /\ src' = src /\ rskip' = rskip /\ rpos' = rpos /\ rs' = rs
      /\ qty' = qty /\ arr' = arr
  BY DEF reader
<1>2. WriterType /\ ReaderType /\ WholeBefore /\ FileOK /\ ReadOK
  BY TypeSplit DEF IInv
<1>3. ReadSoFar' = ReadSoFar /\ ReadQty' = ReadQty /\ ReadItems' = ReadItems
  BY <1>1 DEF ReadSoFar, ReadQty, ReadItems
<1>4. Handed' = Handed /\ ReadCur' = ReadCur
  BY <1>1, <1>3 DEF Handed, ReadCur
<1>5. /\ sent' \in Seq(Parts) /\ Len(sent') = Len(sent)
      /\ \A k \in 1 .. Len(sent) : k < Len(sent) => sent'[k] = sent[k]
  BY DEF Kept
<1>6. threw' \in BOOLEAN /\ (threw => threw')
  BY <1>2 DEF ReaderType
<1>7. TypeOK'
  <2>1. ReaderType'
    BY <1>1, <1>2, <1>3, <1>6 DEF ReaderType
  <2> QED BY <2>1 DEF TypeOK, WriterType, ReaderType
<1>8. WriterOK(Handed)'
  BY <1>4, HandedNext
<1>9. WholeBefore'
  BY <1>1, <1>2, <1>5 DEF WholeBefore, TokensOf
<1>10. FileOK'
  <2>1. pc' # "read" /\ pc' # "closed" /\ (pc' = "thrown" => threw')
    OBVIOUS
  <2>2. ~threw' => ~threw
    BY <1>6
  <2>3. ASSUME converting'
        PROVE  /\ Len(file') = Len(given')
               /\ \A k \in 1 .. Len(file') :
                    /\ InOrder(ItemsOf(file'[k].inf, FALSE), TokensOf(file', k))
                    /\ k < Len(file') => given'[k] % PrimQty(file'[k].inf) = 0
                    /\ k < Len(file') \/ ~threw' => Len(TokensOf(file', k)) = given'[k]
    <3>1. converting
      BY <1>1, <2>3
    <3> QED BY <1>1, <1>2, <2>2, <3>1 DEF FileOK, TokensOf
  <2>4. ~converting' =>
          /\ file' = <<>> /\ part' = 0 /\ blk' = 0 /\ src' = <<>> /\ arr' = <<>>
          /\ rskip' = 0 /\ rpos' = 1 /\ rs' = 0 /\ qty' = 0
    BY <1>1, <1>2 DEF FileOK
  <2>5. converting' => text'
    BY <1>1, <1>2 DEF FileOK
  <2>7. (converting \/ pc = "closed" => text)'
    BY <2>1, <2>5
  <2>8. (pc = "thrown" => threw)'
    BY <2>1
  <2>9. (~converting =>
          /\ file = <<>> /\ part = 0 /\ blk = 0 /\ src = <<>> /\ arr = <<>>
          /\ rskip = 0 /\ rpos = 1 /\ rs = 0 /\ qty = 0 /\ pc # "read")'
    BY <2>1, <2>4
  <2>10. (converting =>
           /\ Len(file) = Len(given)
           /\ \A k \in 1 .. Len(file) :
                /\ InOrder(ItemsOf(file[k].inf, FALSE), TokensOf(file, k))
                /\ k < Len(file) => given[k] % PrimQty(file[k].inf) = 0
                /\ k < Len(file) \/ ~threw => Len(TokensOf(file, k)) = given[k])'
    BY <2>3, Zenon
  <2> QED BY <2>7, <2>8, <2>9, <2>10, Zenon DEF FileOK
<1>11. ReadOK'
  BY <1>1, <1>2, <1>3, <1>4, <1>5 DEF ReadOK, Running
<1>12. TextIsWhole' /\ Emptied'
  BY DEF TextIsWhole, Emptied
<1> QED BY <1>7, <1>8, <1>9, <1>10, <1>11, <1>12 DEF IInv

\* A walk.
LEMMA CallOK ==
    ASSUME IInv, Call
    PROVE  IInv'
<1>1. /\ Walk /\ threw' = (threw \/ pc' = "thrown") /\ UNCHANGED <<given, converting, reader>>
  BY DEF Call
<1>2. /\ pc = "walk" /\ pc' \in {"idle", "walk", "thrown"} /\ text' = text /\ inf' = inf
  BY <1>1 DEF Walk, StepOver, WriteSep, WritePrimitive, FlushInWalk, Throw, ObjectMissing,
     RecordEnds, SepOverflow, At, AtObject, Return, Again
<1>3. WriterType /\ WriterOK(Handed) /\ Handed \in Nat
  BY <1>2, TypeSplit, HandedIs DEF IInv, Running
<1>4. PICK n \in Nat : n = Handed
  BY <1>3
<1>5. WriterOK(n)
  BY <1>3, <1>4
<1>6. WriterType' /\ WriterOK(n)' /\ Kept(sent, sent')
  BY <1>1, <1>3, <1>5, WalkStep
<1>7. inf # <<>>
  BY <1>2, <1>3 DEF WriterOK, TypeNow
<1> QED BY <1>1, <1>2, <1>4, <1>6, <1>7, WriterStep

\* A flush between two calls, of the client or the converter.
LEMMA FlushStep ==
    ASSUME IInv, Flush, UNCHANGED <<given, converting, reader, threw>>
    PROVE  IInv'
<1>1. /\ pc = "idle" /\ pc' = "idle" /\ text' = text /\ inf' = inf /\ Block # <<>>
      /\ UNCHANGED <<given, converting, reader>> /\ threw' = threw
  BY DEF Flush
<1>2. WriterType /\ ReaderType /\ WriterOK(Handed) /\ Handed \in Nat
  BY <1>1, TypeSplit, HandedIs DEF IInv, Running
<1>3. PICK n \in Nat : n = Handed
  BY <1>2
<1>4. WriterOK(n)
  BY <1>2, <1>3
<1>5. WriterType' /\ WriterOK(n)' /\ Kept(sent, sent')
  BY <1>2, <1>4, FlushOK
<1>6. inf # <<>>
  BY <1>1, <1>2 DEF WriterOK, TypeNow
<1>7. threw' = (threw \/ pc' = "thrown")
  BY <1>1, <1>2 DEF ReaderType
<1> QED BY <1>1, <1>3, <1>5, <1>6, <1>7, WriterStep

-----------------------------------------------------------------------------
(* Steps of the client *)

\* The converter counts the items of a type, or of null.
LEMMA ReadLen ==
    ASSUME NEW ty \in Types \cup {<<>>}
    PROVE  Len(ItemsOf(ty, FALSE)) \in Nat
<1>1. CASE ty \in Types
  <2>1. ItemsOf(ty, FALSE) \in Records
    BY <1>1, ItemsIs
  <2> QED BY <2>1, PrimsIs DEF Records
<1>2. CASE ty = <<>>
  BY <1>2, NullIs
<1> QED BY <1>1, <1>2

\* What the client has given is what the writer has been handed.
LEMMA ClientFacts ==
    ASSUME IInv, ~converting, pc \in {"idle", "thrown"}
    PROVE  /\ WriterType /\ ReaderType /\ WholeBefore /\ FileOK
           /\ given \in Seq(0 .. MaxObjects)
           /\ TypeNow /\ SentInOrder /\ PlaceOK /\ WalkOK /\ pending = <<>>
           /\ Len(given) = Len(sent) /\ Len(sent) \in Nat
           /\ given # <<>> => Handed = given[Len(sent)] /\ Len(sent) \in 1 .. Len(sent)
           /\ inf # <<>> => given # <<>>
<1>1. /\ WriterType /\ ReaderType /\ WriterOK(Handed) /\ WholeBefore /\ FileOK
  BY TypeSplit DEF IInv
<1>2. TypeNow /\ SentInOrder /\ PlaceOK /\ WalkOK /\ pending = <<>>
  BY <1>1 DEF WriterOK, WalkOK
<1>3. Len(given) = Len(sent) /\ Len(sent) \in Nat /\ sent \in Seq(Parts)
      /\ given \in Seq(0 .. MaxObjects)
  BY <1>1, LenProperties DEF WholeBefore, WriterType, ReaderType
<1>4. given # <<>> => Handed = given[Len(sent)] /\ Len(sent) \in 1 .. Len(sent)
  <2>1. given # <<>> => Len(given) # 0
    BY <1>3, EmptyLen
  <2>2. given # <<>> => Len(sent) \in 1 .. Len(sent)
    BY <1>3, <2>1
  <2> QED BY <1>3, <2>2 DEF Handed
<1>5. inf # <<>> => given # <<>>
  <2>1. inf # <<>> => Len(sent) # 0
    BY <1>2, <1>3, EmptyLen DEF TypeNow
  <2> QED BY <1>3, <2>1, EmptySeq
<1> QED BY <1>1, <1>2, <1>3, <1>4, <1>5

\* A step of the client that leaves the converter where it is.
LEMMA ClientStep ==
    ASSUME IInv, ~converting, converting' = converting, UNCHANGED reader, threw' = threw,
           WriterType', WriterOK(Handed)', WholeBefore', TextIsWhole',
           given' \in Seq(0 .. MaxObjects), Len(given') <= MaxTypes,
           pc' \in {"idle", "walk", "closed"}, pc' = "closed" => text' /\ Block' = <<>>
    PROVE  IInv'
<1>1. /\ file' = file /\ part' = part /\ blk' = blk /\ src' = src /\ rskip' = rskip
      /\ rpos' = rpos /\ rs' = rs /\ qty' = qty /\ arr' = arr /\ ~converting'
  BY DEF reader
<1>2. ReaderType /\ FileOK
  BY TypeSplit DEF IInv
<1>3. /\ file = <<>> /\ part = 0 /\ blk = 0 /\ src = <<>> /\ arr = <<>>
      /\ rskip = 0 /\ rpos = 1 /\ rs = 0 /\ qty = 0
  BY <1>2 DEF FileOK
<1>4. FileOK'
  BY <1>1, <1>3 DEF FileOK
<1>5. ReadOK'
  BY <1>1 DEF ReadOK
<1>6. Len(ReadItems') \in Nat
  <2>1. inf' \in Types \cup {<<>>}
    BY DEF WriterType
  <2> QED BY <2>1, ReadLen DEF ReadItems
<1>7. ReaderType'
  BY <1>1, <1>2, <1>3, <1>6 DEF ReaderType
<1>8. TypeOK'
  BY <1>7 DEF TypeOK, WriterType, ReaderType
<1> QED BY <1>4, <1>5, <1>8 DEF IInv, Emptied

\* A type.
LEMMA ClientWriteInfoOK ==
    ASSUME IInv, NEW ty \in Types, ClientWriteInfo(ty)
    PROVE  IInv'
<1>1. /\ ~converting /\ Len(given) < MaxTypes /\ ret = "ok" /\ WriteInfo(ty)
      /\ given' = Append(given, 0) /\ converting' = converting /\ UNCHANGED reader
      /\ threw' = threw /\ pc = "idle" /\ pc' = "idle" /\ text' = text
  BY DEF ClientWriteInfo, WriteInfo
<1>2. /\ WriterType /\ ReaderType /\ WholeBefore /\ given \in Seq(0 .. MaxObjects)
      /\ Len(given) = Len(sent) /\ Len(sent) \in Nat
      /\ given # <<>> => Handed = given[Len(sent)]
      /\ inf # <<>> => given # <<>>
  BY <1>1, ClientFacts
<1>3. WriterOK(Handed) /\ Handed \in Nat
  BY <1>1, HandedIs DEF IInv, Running
<1>4. PICK n \in Nat : n = Handed
  BY <1>3
<1>5. WriterOK(n) /\ (inf # <<>> => given[Len(sent)] = n)
  BY <1>2, <1>3, <1>4
<1>6. /\ WriterType' /\ WriterOK(0)' /\ inf' # <<>>
      /\ Len(sent) \in Nat /\ Len(sent') = Len(sent) + 1
      /\ \A k \in 1 .. Len(sent) :
           PartOK(sent'[k].inf, text, given[k], Len(TokensOf(sent', k)))
  BY <1>1, <1>2, <1>5, InfoOK
<1>7. /\ given' \in Seq(0 .. MaxObjects) /\ Len(given') = Len(given) + 1
      /\ \A k \in 1 .. Len(given) : given'[k] = given[k]
      /\ given'[Len(given) + 1] = 0
  <2>1. 0 \in 0 .. MaxObjects
    BY BoundsAssumption
  <2> QED BY <1>1, <1>2, <2>1, AppendProperties
<1>8. Len(given') <= MaxTypes
  BY <1>1, <1>2, <1>7, BoundsAssumption
<1>9. Handed' = 0
  <2>1. given' # <<>>
    BY <1>2, <1>7, EmptySeq
  <2> QED BY <1>1, <1>7, <2>1 DEF Handed
<1>10. WriterOK(Handed)'
  BY <1>6, <1>9, HandedNext
<1>11. WholeBefore'
  <2>1. Len(given') = Len(sent')
    BY <1>2, <1>6, <1>7
  <2>2. ASSUME NEW k \in 1 .. Len(sent'), k < Len(sent') \/ inf' = <<>>
        PROVE  PartOK(sent'[k].inf, text', given'[k], Len(TokensOf(sent', k)))
    <3>1. k \in 1 .. Len(sent) /\ k \in 1 .. Len(given)
      BY <1>2, <1>6, <2>2
    <3> QED BY <1>1, <1>6, <1>7, <3>1
  <2> QED BY <2>1, <2>2 DEF WholeBefore, TokensOf
<1>12. TextIsWhole'
  BY <1>1 DEF TextIsWhole
<1> QED BY <1>1, <1>6, <1>7, <1>8, <1>10, <1>11, <1>12, ClientStep

\* Objects.
LEMMA ClientWriteOK ==
    ASSUME IInv, NEW m \in 1 .. MaxObjects, ClientWrite(m)
    PROVE  IInv'
<1> DEFINE k0 == Len(given)
           g == given[k0]
<1>1. /\ ~converting /\ given # <<>> /\ Last(given) + m <= MaxObjects
      /\ pc = "idle" /\ inf # <<>>
      /\ objs' = [k \in 1 .. m |-> Last(given) + k]
      /\ given' = [given EXCEPT ![k0] = g + m]
      /\ pos' = 1 /\ skip' = Skip /\ wqty' = 0 /\ pc' = "walk"
      /\ text' = text /\ inf' = inf /\ Skip' = Skip /\ currObj' = currObj /\ Block' = Block
      /\ pending' = pending /\ ret' = ret /\ sent' = sent
      /\ converting' = converting /\ UNCHANGED reader /\ threw' = threw
  BY DEF ClientWrite, Write
<1>2. /\ WriterType /\ ReaderType /\ WholeBefore /\ given \in Seq(0 .. MaxObjects)
      /\ k0 = Len(sent) /\ k0 \in Nat /\ k0 \in 1 .. k0 /\ Handed = g
  BY <1>1, ClientFacts
<1>3. WriterOK(Handed) /\ Handed \in Nat
  BY <1>1, HandedIs DEF IInv, Running
<1>4. Last(given) = g /\ g \in Nat
  BY <1>2, <1>3 DEF Last
<1>5. PICK n \in Nat : n = g
  BY <1>4
<1>6. WriterOK(n)
  BY <1>2, <1>3, <1>5
<1> HIDE DEF g, k0
<1>7. n + m \in 0 .. MaxObjects /\ n + m \in Nat /\ m \in Nat
  BY <1>1, <1>4, <1>5, BoundsAssumption
<1>8. /\ objs' \in Seq(-1 .. MaxObjects) /\ Len(objs') = m /\ objs' # <<>>
      /\ \A i \in 1 .. Len(objs') : objs'[i] = n + i
  <2>1. objs' = [k \in 1 .. m |-> n + k]
    BY <1>1, <1>4, <1>5
  <2>2. \A k \in 1 .. m : n + k \in -1 .. MaxObjects
    BY <1>7, BoundsAssumption
  <2>3. objs' \in Seq(-1 .. MaxObjects) /\ Len(objs') = m
    BY <1>7, <2>1, <2>2
  <2>4. objs' # <<>>
    BY <1>7, <2>3, EmptySeq
  <2> QED BY <2>1, <2>3, <2>4
<1>9. WriterType' /\ WriterOK(n + m)'
  <2> DEFINE p == n + m
  <2>1. p \in Nat /\ p = n + Len(objs')
    BY <1>7, <1>8
  <2> HIDE DEF p
  <2>2. WriterType' /\ WriterOK(p)'
    BY <1>1, <1>2, <1>6, <1>8, <2>1, WriteOK
  <2> QED BY <2>2 DEF p
<1>10. /\ given' \in Seq(0 .. MaxObjects) /\ Len(given') = k0
       /\ \A k \in 1 .. k0 : given'[k] = IF k = k0 THEN n + m ELSE given[k]
  <2>1. n + m \in 0 .. MaxObjects /\ k0 \in 1 .. Len(given) /\ Len(given) = k0
    BY <1>2, <1>7 DEF k0
  <2>2. given' = [given EXCEPT ![k0] = n + m]
    BY <1>1, <1>5
  <2> DEFINE f == [given EXCEPT ![k0] = n + m]
  <2>3. /\ f \in Seq(0 .. MaxObjects) /\ Len(f) = Len(given)
        /\ \A k \in 1 .. Len(given) : f[k] = IF k = k0 THEN n + m ELSE given[k]
    BY <1>2, <2>1, ExceptSeq
  <2> HIDE DEF f
  <2>4. given' = f
    BY <2>2 DEF f
  <2> QED BY <2>1, <2>3, <2>4
<1>11. Handed' = n + m
  <2>1. given' # <<>>
    BY <1>2, <1>10, EmptySeq
  <2>2. Handed' = given'[Len(given')]
    BY <1>1, <2>1 DEF Handed
  <2> QED BY <1>2, <1>10, <2>2
<1>12. WriterOK(Handed)'
  BY <1>9, <1>11, HandedNext
<1>13. WholeBefore'
  <2>1. Len(given') = Len(sent')
    BY <1>1, <1>2, <1>10
  <2>2. ASSUME NEW k \in 1 .. Len(sent'), k < Len(sent') \/ inf' = <<>>
        PROVE  PartOK(sent'[k].inf, text', given'[k], Len(TokensOf(sent', k)))
    <3>1. k \in 1 .. Len(sent) /\ k < Len(sent)
      BY <1>1, <2>2
    <3>2. PartOK(sent[k].inf, text, given[k], Len(TokensOf(sent, k)))
      BY <1>1, <1>2, <3>1 DEF WholeBefore
    <3>3. given'[k] = given[k]
      <4>1. k # k0 /\ k \in 1 .. k0
        BY <1>2, <3>1
      <4> QED BY <1>10, <4>1
    <3> QED BY <1>1, <3>2, <3>3
  <2> QED BY <2>1, <2>2 DEF WholeBefore, TokensOf
<1>14. TextIsWhole'
  BY <1>1 DEF TextIsWhole
<1>15. Len(given') <= MaxTypes
  BY <1>2, <1>10 DEF ReaderType, k0
<1> QED BY <1>1, <1>9, <1>10, <1>12, <1>13, <1>14, <1>15, ClientStep

\* The end of a session.
LEMMA ClientAppendOK ==
    ASSUME IInv, ClientAppend
    PROVE  IInv'
<1>1. /\ ~converting /\ pc = "idle" /\ ret = "ok" /\ inf # <<>>
      /\ sent' = Flushed(sent, Block) /\ New(text) /\ pc' = pc
      /\ given' = given /\ converting' = converting /\ UNCHANGED reader /\ threw' = threw
  BY DEF ClientAppend
<1>2. /\ WriterType /\ ReaderType /\ WholeBefore /\ given \in Seq(0 .. MaxObjects)
      /\ TypeNow /\ SentInOrder /\ PlaceOK /\ pending = <<>>
      /\ Len(given) = Len(sent) /\ Len(sent) \in Nat /\ Handed = given[Len(sent)]
  BY <1>1, ClientFacts
<1>3. WriterOK(Handed) /\ Handed \in Nat
  BY <1>1, HandedIs DEF IInv, Running
<1>4. PICK n \in Nat : n = Handed
  BY <1>3
<1>5. WriterOK(n)
  BY <1>3, <1>4
<1>6. /\ sent' \in Seq(Parts) /\ Len(sent') = Len(sent)
      /\ TokensOf(sent', Len(sent')) = Written /\ sent'[Len(sent')].inf = inf
      /\ \A k \in 1 .. Len(sent') : k < Len(sent) => sent'[k] = sent[k]
      /\ \A k \in 1 .. Len(sent') : InOrder(ItemsOf(sent'[k].inf, text), TokensOf(sent', k))
  <2>1. \A s : s = Flushed(sent, Block) =>
          /\ s \in Seq(Parts) /\ Len(s) = Len(sent)
          /\ inf # <<>> => TokensOf(s, Len(s)) = Written
          /\ inf # <<>> => s # <<>> /\ s[Len(s)].inf = inf
          /\ \A k \in 1 .. Len(s) : k < Len(sent) => s[k] = sent[k]
          /\ \A k \in 1 .. Len(s) : InOrder(ItemsOf(s[k].inf, text), TokensOf(s, k))
    BY <1>1, <1>2, FlushIdle
  <2> QED BY <1>1, <2>1, Zenon
<1>7. text' = text /\ inf' = <<>> /\ pc' = "idle"
  BY <1>1 DEF New
<1>8. New(TRUE) \/ New(FALSE)
  BY <1>1, <1>2 DEF WriterType
<1>9. WriterType' /\ \A i : WriterOK(i)'
  BY <1>6, <1>7, <1>8, NewOK
<1>10. PICK i : Handed' = i
  OBVIOUS
<1>11. WriterOK(i)'
  BY <1>9
<1>12. WriterOK(Handed)'
  BY <1>10, <1>11, HandedNext
<1>13. WholeBefore'
  <2>1. ASSUME NEW k \in 1 .. Len(sent')
        PROVE  PartOK(sent'[k].inf, text', given'[k], Len(TokensOf(sent', k)))
    <3>1. CASE k < Len(sent)
      <4>1. k \in 1 .. Len(sent) /\ sent'[k] = sent[k]
        BY <1>6, <3>1
      <4>2. PartOK(sent[k].inf, text, given[k], Len(TokensOf(sent, k)))
        BY <1>1, <1>2, <3>1, <4>1 DEF WholeBefore
      <4> QED BY <1>1, <1>7, <4>1, <4>2 DEF TokensOf
    <3>2. CASE ~(k < Len(sent))
      <4>1. k = Len(sent') /\ k = Len(sent)
        BY <1>2, <1>6, <3>2
      <4>2. AllOf(Items, n, Len(Written)) /\ n % PrimQty(Items) = 0
        BY <1>1, <1>2, <1>5, WholeNow
      <4>3. Items = ItemsOf(inf, text) /\ PrimQty(Items) = PrimQty(inf)
        BY <1>1, <1>2, ItemsIs DEF Items, WriterType
      <4>4. given'[k] = n
        BY <1>1, <1>2, <1>4, <4>1
      <4> QED BY <1>6, <1>7, <4>1, <4>2, <4>3, <4>4 DEF PartOK
    <3> QED BY <3>1, <3>2
  <2> QED BY <1>1, <1>2, <1>6, <2>1 DEF WholeBefore, TokensOf
<1>14. TextIsWhole'
  BY <1>7 DEF TextIsWhole
<1> QED BY <1>1, <1>2, <1>7, <1>9, <1>12, <1>13, <1>14, ClientStep DEF ReaderType

\* What a file has when the client closes it: all of it, but behind the last
\* description when an exception struck.
LEMMA ClosedFile ==
    ASSUME IInv, ~converting, pc \in {"idle", "thrown"}, NEW s, s = Flushed(sent, Block)
    PROVE  /\ s \in Seq(Parts) /\ Len(s) = Len(given)
           /\ \A k \in 1 .. Len(s) :
                /\ InOrder(ItemsOf(s[k].inf, text), TokensOf(s, k))
                /\ k < Len(s) => given[k] % PrimQty(s[k].inf) = 0
                /\ k < Len(s) \/ ~threw =>
                     AllOf(ItemsOf(s[k].inf, text), given[k], Len(TokensOf(s, k)))
<1>1. /\ WriterType /\ ReaderType /\ WholeBefore /\ FileOK
      /\ TypeNow /\ SentInOrder /\ PlaceOK /\ WalkOK /\ pending = <<>>
      /\ Len(given) = Len(sent) /\ Len(sent) \in Nat
      /\ given # <<>> => Handed = given[Len(sent)]
      /\ inf # <<>> => given # <<>>
  BY ClientFacts
<1>2. pc # "closed" /\ (~threw => pc = "idle")
  BY <1>1 DEF FileOK
<1>3. /\ s \in Seq(Parts) /\ Len(s) = Len(sent)
      /\ inf # <<>> => TokensOf(s, Len(s)) = Written
      /\ inf # <<>> => s # <<>> /\ s[Len(s)].inf = inf
      /\ inf = <<>> => s = sent
      /\ \A k \in 1 .. Len(s) : k < Len(sent) => s[k] = sent[k]
      /\ \A k \in 1 .. Len(s) : InOrder(ItemsOf(s[k].inf, text), TokensOf(s, k))
  BY <1>1, <1>2, FlushIdle
<1>4. ASSUME NEW k \in 1 .. Len(s), k < Len(s) \/ inf = <<>>
      PROVE  PartOK(s[k].inf, text, given[k], Len(TokensOf(s, k)))
  <2>1. s[k] = sent[k] /\ k \in 1 .. Len(sent)
    BY <1>3, <1>4
  <2>2. PartOK(sent[k].inf, text, given[k], Len(TokensOf(sent, k)))
    BY <1>1, <1>2, <1>3, <1>4, <2>1 DEF WholeBefore
  <2> QED BY <2>1, <2>2 DEF TokensOf
<1>5. ASSUME NEW k \in 1 .. Len(s), ~(k < Len(s)), inf # <<>>, ~threw
      PROVE  AllOf(ItemsOf(s[k].inf, text), given[k], Len(TokensOf(s, k)))
  <2>1. k = Len(s) /\ k = Len(sent)
    BY <1>1, <1>3, <1>5
  <2>2. WriterOK(Handed) /\ Handed \in Nat /\ pc = "idle"
    BY <1>2, <1>5, HandedIs DEF IInv, Running
  <2>3. PICK n \in Nat : n = Handed
    BY <2>2
  <2>4. AllOf(Items, n, Len(Written))
    BY <1>1, <1>5, <2>2, <2>3, WholeNow
  <2>5. Items = ItemsOf(inf, text)
    BY DEF Items
  <2>6. n = given[k] /\ s[k].inf = inf /\ TokensOf(s, k) = Written
    BY <1>1, <1>3, <1>5, <2>1, <2>3
  <2> QED BY <2>4, <2>5, <2>6
<1>6. ASSUME NEW k \in 1 .. Len(s)
      PROVE  /\ k < Len(s) => given[k] % PrimQty(s[k].inf) = 0
             /\ k < Len(s) \/ ~threw =>
                  AllOf(ItemsOf(s[k].inf, text), given[k], Len(TokensOf(s, k)))
  <2>1. CASE k < Len(s) \/ inf = <<>>
    BY <1>4, <2>1 DEF PartOK
  <2>2. CASE ~(k < Len(s)) /\ inf # <<>>
    BY <1>5, <2>2
  <2> QED BY <2>1, <2>2
<1> QED BY <1>1, <1>3, <1>6

\* The end of the client, that of the file or of the first of two.
LEMMA ClientClosesOK ==
    ASSUME IInv, ClientCloses
    PROVE  IInv'
<1>1. /\ ~converting /\ pc \in {"idle", "thrown"}
      /\ given' = given /\ part' = part /\ blk' = blk /\ src' = src /\ rskip' = rskip
      /\ rpos' = rpos /\ rs' = rs /\ qty' = qty /\ arr' = arr /\ threw' = threw
  BY DEF ClientCloses
<1>2. /\ WriterType /\ ReaderType /\ FileOK /\ given \in Seq(0 .. MaxObjects)
      /\ TypeNow /\ SentInOrder /\ PlaceOK /\ WalkOK
  BY <1>1, ClientFacts
<1> DEFINE s == Flushed(sent, Block)
<1>3. /\ s \in Seq(Parts) /\ Len(s) = Len(given)
      /\ \A k \in 1 .. Len(s) :
           /\ InOrder(ItemsOf(s[k].inf, text), TokensOf(s, k))
           /\ k < Len(s) => given[k] % PrimQty(s[k].inf) = 0
           /\ k < Len(s) \/ ~threw =>
                AllOf(ItemsOf(s[k].inf, text), given[k], Len(TokensOf(s, k)))
  BY <1>1, ClosedFile
<1>4. CASE text
  <2>1. /\ sent' = Flushed(sent, Block) /\ Block' = <<>> /\ pc' = "closed"
        /\ UNCHANGED <<text, inf, Skip, currObj, objs, pending, walk, ret>>
        /\ converting' = converting /\ file' = file
    BY <1>4 DEF ClientCloses
  <2>2. WriterType' /\ \A i : WriterOK(i)'
    BY <1>1, <1>2, <2>1, ClosedOK
  <2>3. sent' = s
    BY <2>1
  <2> HIDE DEF s
  <2>4. PICK i : Handed' = i
    OBVIOUS
  <2>5. WriterOK(i)'
    BY <2>2
  <2>6. WriterOK(Handed)'
    BY <2>4, <2>5, HandedNext
  <2>7. WholeBefore'
    BY <2>1 DEF WholeBefore
  <2>8. text = TRUE
    BY <1>2, <1>4 DEF WriterType
  <2>9. TextIsWhole'
    BY <1>1, <1>3, <2>3, <2>8 DEF TextIsWhole, TokensOf
  <2>10. UNCHANGED reader /\ text'
    BY <1>1, <1>4, <2>1 DEF reader
  <2> QED BY <1>1, <1>2, <2>1, <2>2, <2>6, <2>7, <2>9, <2>10, ClientStep DEF ReaderType
<1>5. CASE ~text
  <2>1. /\ file' = s /\ sent' = <<>> /\ pc' = "idle" /\ New(TRUE) /\ converting' = TRUE
    BY <1>5 DEF ClientCloses
  <2> HIDE DEF s
  <2>2. text' = TRUE /\ inf' = <<>> /\ text = FALSE
    BY <1>2, <1>5, <2>1 DEF New, WriterType
  <2>3. <<>> \in Seq(Parts) /\ Len(<<>>) = 0
    BY EmptySeq
  <2>4. WriterType' /\ \A i : WriterOK(i)'
    BY <2>1, <2>3, NewOK
  <2>5. PICK i : Handed' = i
    OBVIOUS
  <2>6. WriterOK(i)'
    BY <2>4
  <2>7. WriterOK(Handed)'
    BY <2>5, <2>6, HandedNext
  <2>8. WholeBefore' /\ TextIsWhole' /\ Emptied'
    BY <2>1, <2>3 DEF WholeBefore, TextIsWhole, Emptied
  <2>9. /\ part = 0 /\ blk = 0 /\ src = <<>> /\ arr = <<>>
        /\ rskip = 0 /\ rpos = 1 /\ rs = 0 /\ qty = 0
    BY <1>1, <1>2 DEF FileOK
  <2>10. ReaderType'
    <3>1. Len(ReadItems') = 0
      BY <2>2, NullIs DEF ReadItems
    <3>2. Len(file') \in Nat
      BY <1>3, <2>1, LenProperties
    <3> QED BY <1>1, <1>2, <1>3, <2>1, <2>9, <3>1, <3>2 DEF ReaderType
  <2>11. ASSUME NEW k \in 1 .. Len(s), k < Len(s) \/ ~threw
         PROVE  Len(TokensOf(s, k)) = given[k]
    <3> DEFINE ty == s[k].inf
               b == ItemsOf(ty, FALSE)
               m == Len(TokensOf(s, k))
    <3>1. ty \in Types /\ TokensOf(s, k) \in Seq(Tokens)
      BY <1>3, PartIs
    <3>2. m \in Nat
      BY <3>1, LenProperties
    <3>3. Done(b, m) = given[k]
      BY <1>3, <2>2, <2>11 DEF AllOf
    <3> HIDE DEF ty, m
    <3>4. /\ b \in Records /\ Len(b) = PrimQty(ty) /\ PrimQty(b) = PrimQty(ty)
          /\ \A j \in 0 .. PrimQty(ty) : Prims(b)[j] = j
      BY <3>1, BinaryIs
    <3> HIDE DEF b
    <3>5. Done(b, m) = m
      BY <3>2, <3>4, DoneOfPrims
    <3> QED BY <3>3, <3>5 DEF m
  <2>12. FileOK'
    BY <1>1, <1>3, <2>1, <2>2, <2>11 DEF FileOK, TokensOf
  <2>13. ReadOK'
    BY <1>1, <2>1, <2>2, <2>3, <2>9 DEF ReadOK, ReadCur
  <2> QED BY <2>4, <2>7, <2>8, <2>10, <2>12, <2>13 DEF IInv, TypeOK, WriterType, ReaderType
<1> QED BY <1>2, <1>4, <1>5 DEF WriterType

-----------------------------------------------------------------------------
(* Steps of the converter *)

\* What the converter has read, and how much there is to read.
LEMMA ReadFacts ==
    ASSUME IInv, converting, Running, part # 0
    PROVE  /\ part \in 1 .. Len(file) /\ file \in Seq(Parts)
           /\ inf = file[part].inf /\ inf \in Types /\ inf # <<>>
           /\ ReadItems \in Records /\ Len(ReadItems) \in Nat \ {0}
           /\ Len(ReadItems) = PrimQty(inf) /\ PrimQty(Items) = PrimQty(inf)
           /\ \A k \in 1 .. Len(ReadItems) : IsPrim(ReadItems[k])
           /\ \A m \in Nat : Done(ReadItems, m) = m
           /\ file[part].blocks \in Seq(Seq(Tokens))
           /\ blk \in 0 .. Len(file[part].blocks)
           /\ ReadSoFar \in Seq(Tokens) /\ Len(ReadSoFar) \in Nat
           /\ InOrder(ReadItems, ReadSoFar)
           /\ Len(src) \in Nat /\ Len(arr) \in Nat
           /\ ReadQty = Len(ReadSoFar) - Len(src) /\ ReadQty \in Nat
           /\ Handed = ReadQty - Len(arr) /\ Handed \in Nat
           /\ ReadQty % Len(ReadItems) = ReadCur % Len(ReadItems)
           /\ rskip \in 0 .. Len(ReadItems) - 1 /\ ReadCur <= Len(ReadItems)
<1>1. ReaderType /\ FileOK /\ ReadOK /\ WriterType
  BY TypeSplit DEF IInv
<1>2. part \in 1 .. Len(file) /\ file \in Seq(Parts) /\ blk \in Nat
  BY <1>1 DEF ReaderType
<1>3. /\ inf = file[part].inf /\ blk <= Len(file[part].blocks) /\ ReadQty >= Len(arr)
      /\ ReadQty % Len(ReadItems) = ReadCur % Len(ReadItems)
      /\ ReadCur <= Len(ReadItems) /\ rskip < Len(ReadItems)
  BY <1>1 DEF ReadOK
<1>4. inf \in Types /\ file[part].blocks \in Seq(Seq(Tokens))
  BY <1>2, <1>3, PartIs
<1>5. inf # <<>>
  BY <1>4, TypeIs
<1>6. /\ ReadItems \in Records /\ Len(ReadItems) = PrimQty(inf)
      /\ PrimQty(ReadItems) = PrimQty(inf)
      /\ \A k \in 1 .. Len(ReadItems) : IsPrim(ReadItems[k])
      /\ \A k \in 0 .. Len(ReadItems) : Prims(ReadItems)[k] = k
  BY <1>4, BinaryIs DEF ReadItems
<1>7. Len(ReadItems) \in Nat \ {0} /\ PrimQty(Items) = PrimQty(inf)
  BY <1>1, <1>4, <1>6, PrimsIs, ItemsIs DEF Records, WriterType, Items
<1>8. \A m \in Nat : Done(ReadItems, m) = m
  BY <1>6, DoneOfPrims
<1> DEFINE bs == file[part].blocks
<1>9. bs \in Seq(Seq(Tokens)) /\ Len(bs) \in Nat /\ blk \in 0 .. Len(bs)
      /\ ReadSoFar = FlattenSeq(SubSeq(bs, 1, blk)) /\ TokensOf(file, part) = FlattenSeq(bs)
  <2>1. Len(bs) \in Nat
    BY <1>4, LenProperties
  <2> QED BY <1>2, <1>3, <1>4, <2>1 DEF ReadSoFar, TokensOf
<1> HIDE DEF bs
<1>10. /\ FlattenSeq(bs) \in Seq(Tokens) /\ ReadSoFar \in Seq(Tokens)
       /\ Begins(ReadSoFar, FlattenSeq(bs))
  BY <1>9, FlattenFront
<1>11. InOrder(ReadItems, FlattenSeq(bs))
  BY <1>1, <1>2, <1>3, <1>9 DEF FileOK, ReadItems
<1>12. InOrder(ReadItems, ReadSoFar)
  BY <1>10, <1>11, InOrderFront
<1>13. Len(ReadSoFar) \in Nat /\ Len(src) \in Nat /\ Len(arr) \in Nat
  BY <1>1, <1>10, LenProperties DEF ReaderType
<1>14. ReadQty = Len(ReadSoFar) - Len(src) /\ Handed = ReadQty - Len(arr)
  BY DEF ReadQty, Handed
<1>15. ReadQty \in Nat /\ Handed \in Nat
  BY <1>3, <1>13, <1>14
<1>16. rskip \in 0 .. Len(ReadItems) - 1
  BY <1>1, <1>3, <1>7 DEF ReaderType
<1> QED BY <1>2, <1>3, <1>4, <1>5, <1>6, <1>7, <1>8, <1>9, <1>10, <1>12, <1>13, <1>14,
        <1>15, <1>16 DEF bs

\* The file that is read does not change.
LEMMA FileSame ==
    ASSUME FileOK, converting, converting', file' = file, given' = given,
           ~threw' => ~threw, text', pc' # "thrown"
    PROVE  FileOK'
<1>1. /\ Len(file') = Len(given')
      /\ \A k \in 1 .. Len(file') :
           /\ InOrder(ItemsOf(file'[k].inf, FALSE), TokensOf(file', k))
           /\ k < Len(file') => given'[k] % PrimQty(file'[k].inf) = 0
           /\ k < Len(file') \/ ~threw' => Len(TokensOf(file', k)) = given'[k]
  BY DEF FileOK
<1> QED BY <1>1, Zenon DEF FileOK, TokensOf

\* A step of the converter that leaves the streams where they are.
LEMMA ReaderStep ==
    ASSUME IInv, converting, part # 0, inf # <<>>,
           UNCHANGED <<text, inf, sent, given, converting, file, part, threw>>,
           WriterType', WriterOK(Handed)',
           pc # "closed", pc' \in {"idle", "read", "walk"},
           src' \in Seq(Tokens), arr' \in Seq(-1 .. MaxObjects), blk' \in Nat,
           rskip' \in 0 .. Len(ReadItems) - 1, rs' \in 0 .. rskip',
           qty' \in 0 .. Len(ReadItems), rpos' \in 1 .. Len(ReadItems) + 1,
           ReadOK'
    PROVE  IInv'
<1>1. /\ text' = text /\ inf' = inf /\ sent' = sent /\ given' = given /\ converting'
      /\ file' = file /\ part' = part /\ threw' = threw
  OBVIOUS
<1>2. ReaderType /\ FileOK /\ WholeBefore /\ ReadItems' = ReadItems
  BY <1>1, TypeSplit DEF IInv, ReadItems
<1>3. ReaderType'
  <2>1. Len(ReadItems') \in Nat
    <3>1. inf \in Types \cup {<<>>}
      BY TypeSplit DEF IInv, WriterType
    <3> QED BY <1>2, <3>1, ReadLen DEF ReadItems
  <2>2. rskip' \in 0 .. Len(ReadItems')
    BY <1>2, <2>1
  <2> QED BY <1>1, <1>2, <2>2 DEF ReaderType
<1>4. WholeBefore'
  BY <1>1, <1>2 DEF WholeBefore, TokensOf
<1>5. FileOK'
  <2>1. (~threw' => ~threw) /\ text' /\ pc' # "thrown"
    BY <1>1, <1>2 DEF FileOK
  <2> QED BY <1>1, <1>2, <2>1, FileSame
<1>6. TextIsWhole' /\ Emptied'
  BY DEF TextIsWhole, Emptied
<1> QED BY <1>3, <1>4, <1>5, <1>6 DEF IInv, TypeOK, WriterType, ReaderType

\* The next description: what was behind the last one has been read and written.
LEMMA ReadInfoBlockOK ==
    ASSUME IInv, ReadInfoBlock
    PROVE  IInv'
<1> DEFINE ty == file[part + 1].inf
<1>1. /\ converting /\ pc = "idle" /\ Block = <<>> /\ PartRead /\ part < Len(file)
      /\ WriteInfo(ty) /\ part' = part + 1 /\ blk' = 0
      /\ given' = given /\ converting' = converting /\ file' = file /\ src' = src
      /\ rskip' = rskip /\ rpos' = rpos /\ rs' = rs /\ qty' = qty /\ arr' = arr
      /\ threw' = threw
      /\ pc' = "idle" /\ text' = text /\ inf' = ty
  BY DEF ReadInfoBlock, Reading, WriteInfo
<1>2. WriterType /\ ReaderType /\ WriterOK(Handed) /\ WholeBefore /\ FileOK /\ ReadOK /\ Running
  BY <1>1, TypeSplit DEF IInv, Running
<1>3. /\ part = Len(sent) /\ src = <<>> /\ arr = <<>> /\ rpos = 1 /\ rs = 0 /\ qty = 0
      /\ part = 0 => inf = <<>> /\ blk = 0 /\ rskip = 0
  BY <1>1, <1>2 DEF ReadOK
<1>4. part + 1 \in 1 .. Len(file) /\ file \in Seq(Parts) /\ part \in Nat
  BY <1>1, <1>2 DEF ReaderType
<1>5. ty \in Types
  BY <1>4, PartIs
<1> HIDE DEF ty
<1>6. Handed \in Nat
  BY <1>2, HandedIs
<1>7. PICK n \in Nat : n = Handed
  BY <1>6
<1>8. WriterOK(n)
  BY <1>2, <1>7
<1>9. ASSUME part # 0
      PROVE  ret = "ok" /\ rskip = 0 /\ given[Len(sent)] = n
  <2>1. /\ part \in 1 .. Len(file) /\ inf # <<>> /\ inf = file[part].inf
        /\ Len(ReadItems) = PrimQty(inf) /\ PrimQty(Items) = PrimQty(inf)
        /\ Len(ReadItems) \in Nat \ {0}
        /\ Len(src) \in Nat /\ Len(arr) \in Nat /\ Len(ReadSoFar) \in Nat
        /\ ReadQty = Len(ReadSoFar) - Len(src) /\ Handed = ReadQty - Len(arr)
        /\ ReadQty % Len(ReadItems) = ReadCur % Len(ReadItems)
        /\ rskip \in 0 .. Len(ReadItems) - 1
        /\ file[part].blocks \in Seq(Seq(Tokens))
    BY <1>1, <1>2, <1>9, ReadFacts
  <2>2. ReadSoFar = TokensOf(file, part)
    <3>1. blk = Len(file[part].blocks)
      BY <1>1, <1>9 DEF PartRead
    <3>2. SubSeq(file[part].blocks, 1, blk) = file[part].blocks
      BY <2>1, <3>1, FrontOf
    <3> QED BY <3>2 DEF ReadSoFar, TokensOf
  <2>3. Len(TokensOf(file, part)) = given[part] /\ given[part] % PrimQty(inf) = 0
    BY <1>1, <1>2, <2>1 DEF FileOK
  <2>4. Len(src) = 0 /\ Len(arr) = 0
    BY <1>3, EmptySeq
  <2>5. ReadQty = given[part] /\ Handed = given[part]
    BY <2>1, <2>2, <2>3, <2>4
  <2>6. ReadCur = rskip
    BY <1>1 DEF ReadCur
  <2>7. rskip % Len(ReadItems) = 0 /\ rskip % Len(ReadItems) = rskip
    <3>1. ReadQty % Len(ReadItems) = 0
      BY <2>1, <2>3, <2>5
    <3>2. rskip % Len(ReadItems) = rskip
      BY <2>1, SmallMod
    <3> QED BY <2>1, <2>6, <3>1, <3>2
  <2>8. n % PrimQty(Items) = 0
    BY <1>7, <2>1, <2>3, <2>5
  <2>9. ret = "ok"
    BY <1>1, <1>2, <1>8, <2>1, <2>8, WholeNow
  <2> QED BY <1>3, <1>7, <2>5, <2>7, <2>9
<1>10. ASSUME part = 0
       PROVE  ret = "ok" /\ rskip = 0 /\ inf = <<>>
  BY <1>2, <1>3, <1>10 DEF WriterOK, TypeNow
<1>11. /\ WriterType' /\ WriterOK(0)' /\ inf' # <<>>
       /\ Len(sent) \in Nat /\ Len(sent') = Len(sent) + 1
       /\ \A k \in 1 .. Len(sent) :
            PartOK(sent'[k].inf, text, given[k], Len(TokensOf(sent', k)))
  <2>1. ret = "ok" /\ (inf # <<>> => given[Len(sent)] = n)
    BY <1>9, <1>10
  <2> QED BY <1>1, <1>2, <1>5, <1>8, <2>1, InfoOK
<1>12. rskip = 0
  BY <1>9, <1>10
<1>13. ReadSoFar' = <<>>
  <2>1. ReadSoFar' = FlattenSeq(SubSeq(file[part + 1].blocks, 1, 0))
    BY <1>1 DEF ReadSoFar
  <2>2. file[part + 1].blocks \in Seq(Seq(Tokens))
    BY <1>4, PartIs
  <2>3. SubSeq(file[part + 1].blocks, 1, 0) = <<>>
    BY <2>2, FrontOf
  <2> QED BY <2>1, <2>3, FlattenEmpty
<1>14. ReadQty' = 0 /\ Handed' = 0 /\ part' # 0 /\ Len(arr') = 0 /\ Len(src') = 0
  <2>1. Len(arr') = 0 /\ Len(src') = 0 /\ Len(ReadSoFar') = 0
    BY <1>1, <1>3, <1>13, EmptySeq
  <2>2. ReadQty' = 0
    <3>1. ReadQty' = Len(ReadSoFar') - Len(src')
      BY DEF ReadQty
    <3> QED BY <2>1, <3>1
  <2>3. part' # 0
    BY <1>1, <1>4
  <2>4. Handed' = ReadQty' - Len(arr')
    BY <1>1, <2>3 DEF Handed
  <2> QED BY <2>1, <2>2, <2>3, <2>4
<1>15. WriterOK(Handed)'
  BY <1>11, <1>14, HandedNext
<1>16. ReadItems' \in Records /\ Len(ReadItems') \in Nat \ {0}
  <2>1. ReadItems' = ItemsOf(ty, FALSE)
    BY <1>1 DEF ReadItems
  <2>2. ReadItems' \in Records
    BY <1>5, <2>1, ItemsIs
  <2> QED BY <2>2, PrimsIs DEF Records
<1>17. ReaderType'
  <2>1. part' \in 0 .. Len(file')
    BY <1>1, <1>4
  <2> QED BY <1>1, <1>2, <1>3, <1>12, <1>16, <2>1 DEF ReaderType
<1>18. WholeBefore'
  <2>1. ASSUME NEW k \in 1 .. Len(sent'), k < Len(sent') \/ inf' = <<>>
        PROVE  PartOK(sent'[k].inf, text', given'[k], Len(TokensOf(sent', k)))
    <3>1. k \in 1 .. Len(sent)
      BY <1>11, <2>1
    <3> QED BY <1>1, <1>11, <3>1
  <2> QED BY <1>1, <2>1 DEF WholeBefore, TokensOf
<1>19. FileOK'
  <2>1. converting' /\ (~threw' => ~threw) /\ text' /\ pc' # "thrown"
    BY <1>1, <1>2 DEF FileOK
  <2> QED BY <1>1, <1>2, <2>1, FileSame
<1>20. ReadOK'
  <2>1. ReadCur' = 0
    BY <1>1, <1>12 DEF ReadCur
  <2>2. file'[part'].inf = inf'
    BY <1>1 DEF ty
  <2>3. 0 <= Len(file'[part'].blocks)
    <3>1. file[part + 1].blocks \in Seq(Seq(Tokens))
      BY <1>4, PartIs
    <3>2. Len(file[part + 1].blocks) \in Nat
      BY <3>1, LenProperties
    <3> QED BY <1>1, <3>2
  <2>4. part' = Len(sent')
    BY <1>1, <1>3, <1>11
  <2> QED BY <1>1, <1>3, <1>12, <1>14, <1>16, <2>1, <2>2, <2>3, <2>4 DEF ReadOK
<1>21. TextIsWhole' /\ Emptied'
  BY <1>1 DEF TextIsWhole, Emptied
<1> QED BY <1>11, <1>15, <1>17, <1>18, <1>19, <1>20, <1>21
        DEF IInv, TypeOK, WriterType, ReaderType

\* The next data block.
LEMMA ReadDataBlockOK ==
    ASSUME IInv, ReadDataBlock
    PROVE  IInv'
<1> DEFINE bs == file[part].blocks
<1>1. /\ converting /\ pc = "idle" /\ part # 0 /\ blk # Len(bs)
      /\ src' = bs[blk + 1] /\ blk' = blk + 1
      /\ arr' = <<>> /\ rpos' = 1 /\ rs' = rskip /\ qty' = 0 /\ pc' = "read"
      /\ UNCHANGED <<text, inf, Skip, currObj, objs, Block, pending, walk, ret, sent>>
      /\ text' = text /\ inf' = inf /\ sent' = sent /\ given' = given
      /\ converting' = converting /\ file' = file /\ part' = part /\ rskip' = rskip
      /\ threw' = threw
  BY DEF ReadDataBlock, Reading, PartRead
<1>2. WriterType /\ ReaderType /\ WriterOK(Handed) /\ ReadOK /\ Running
  BY <1>1, TypeSplit DEF IInv, Running
<1>3. src = <<>> /\ arr = <<>>
  BY <1>1, <1>2 DEF ReadOK
<1>4. /\ inf # <<>> /\ inf = file[part].inf /\ Len(ReadItems) \in Nat \ {0}
      /\ bs \in Seq(Seq(Tokens)) /\ blk \in 0 .. Len(bs)
      /\ ReadSoFar \in Seq(Tokens) /\ Len(ReadSoFar) \in Nat
      /\ ReadQty = Len(ReadSoFar) - Len(src) /\ ReadQty \in Nat
      /\ Handed = ReadQty - Len(arr) /\ Handed \in Nat
      /\ ReadQty % Len(ReadItems) = ReadCur % Len(ReadItems)
      /\ rskip \in 0 .. Len(ReadItems) - 1 /\ ReadCur <= Len(ReadItems)
  BY <1>1, <1>2, ReadFacts
<1>5. PICK n \in Nat : n = Handed
  BY <1>4
<1>6. WriterOK(n)
  BY <1>2, <1>5
<1>7. WriterType' /\ WriterOK(n)'
  BY <1>1, <1>2, <1>4, <1>6, RestStep
<1>8. Len(bs) \in Nat
  BY <1>4, LenProperties
<1>9. ReadSoFar = FlattenSeq(SubSeq(bs, 1, blk)) /\ ReadSoFar' = FlattenSeq(SubSeq(bs, 1, blk + 1))
  BY <1>1 DEF ReadSoFar
<1>10. ReadItems' = ReadItems
  BY <1>1 DEF ReadItems
<1> HIDE DEF bs
<1>11. blk + 1 \in 1 .. Len(bs) /\ blk \in 0 .. Len(bs) /\ (blk + 1) - 1 = blk
  BY <1>1, <1>4, <1>8
<1>12. /\ src' \in Seq(Tokens) /\ ReadSoFar' = ReadSoFar \o src'
  <2>1. bs[blk + 1] \in Seq(Tokens)
    BY <1>4, <1>11, ElementOfSeq
  <2> DEFINE f == SubSeq(bs, 1, blk)
             t == bs[blk + 1]
  <2>2. SubSeq(bs, 1, blk + 1) = Append(SubSeq(bs, 1, (blk + 1) - 1), bs[blk + 1])
    BY <1>4, <1>11, FrontOf
  <2>3. f \in Seq(Seq(Tokens))
    BY <1>4, <1>11, FrontOf
  <2>4. SubSeq(bs, 1, blk + 1) = Append(f, t)
    BY <1>11, <2>2
  <2> HIDE DEF f, t
  <2>5. t \in Seq(Tokens) /\ src' = t
    BY <1>1, <2>1 DEF t
  <2>6. FlattenSeq(Append(f, t)) = FlattenSeq(f) \o t
    BY <2>3, <2>5, FlattenAppend
  <2> QED BY <1>9, <2>4, <2>5, <2>6 DEF f
<1>13. /\ Len(src') \in Nat /\ Len(ReadSoFar') = Len(ReadSoFar) + Len(src')
       /\ \A i \in 1 .. Len(src') : src'[i] = ReadSoFar'[Len(ReadSoFar) + i]
  <2> DEFINE t == src'
  <2>1. t \in Seq(Tokens) /\ Len(t) \in Nat
    BY <1>12, LenProperties
  <2>2. /\ Len(ReadSoFar \o t) = Len(ReadSoFar) + Len(t)
        /\ \A i \in 1 .. Len(ReadSoFar) + Len(t) :
             (ReadSoFar \o t)[i] = IF i <= Len(ReadSoFar) THEN ReadSoFar[i]
                                   ELSE t[i - Len(ReadSoFar)]
    BY <1>4, <2>1, ConcatProperties
  <2>3. ReadSoFar' = ReadSoFar \o t
    BY <1>12
  <2> HIDE DEF t
  <2>4. ASSUME NEW i \in 1 .. Len(t) PROVE t[i] = (ReadSoFar \o t)[Len(ReadSoFar) + i]
    <3> DEFINE j == Len(ReadSoFar) + i
    <3>1. /\ j \in 1 .. Len(ReadSoFar) + Len(t) /\ ~(j <= Len(ReadSoFar))
          /\ j - Len(ReadSoFar) = i
      BY <1>4, <2>1
    <3> HIDE DEF j
    <3>2. (ReadSoFar \o t)[j] = t[i]
      BY <2>2, <3>1
    <3> QED BY <3>2 DEF j
  <2> QED BY <2>1, <2>2, <2>3, <2>4 DEF t
<1>14. ReadQty' = ReadQty /\ ReadQty = Len(ReadSoFar)
  <2>1. ReadQty' = Len(ReadSoFar') - Len(src')
    BY DEF ReadQty
  <2>2. Len(src) = 0
    BY <1>3, EmptySeq
  <2> QED BY <1>4, <1>13, <2>1, <2>2
<1>15. Len(arr') = 0 /\ Len(arr) = 0 /\ <<>> \in Seq(-1 .. MaxObjects)
  BY <1>1, <1>3, EmptySeq
<1>16. Handed' = Handed
  <2>1. Handed' = ReadQty' - Len(arr')
    BY <1>1 DEF Handed
  <2> QED BY <1>4, <1>14, <1>15, <2>1
<1>17. WriterOK(Handed)'
  BY <1>5, <1>7, <1>16, HandedNext
<1>18. ReadCur = rskip /\ ReadCur' = rskip
  <2>1. ReadCur' = rpos' - 1 + rs'
    BY <1>1 DEF ReadCur
  <2> QED BY <1>1, <1>4, <2>1 DEF ReadCur
<1>19. ReadOK'
  <2>1. part' = Len(sent') /\ inf' = file'[part'].inf /\ blk' <= Len(file'[part'].blocks)
    BY <1>1, <1>2, <1>4, <1>11 DEF ReadOK, bs
  <2>2. ReadQty' >= Len(arr')
    BY <1>4, <1>14, <1>15
  <2>3. \A i \in 1 .. Len(src') : src'[i] = ReadSoFar'[ReadQty' + i]
    BY <1>13, <1>14
  <2>4. \A i \in 1 .. Len(arr') : arr'[i] = Handed' + i
    BY <1>15
  <2>5. /\ ReadQty' % Len(ReadItems') = ReadCur' % Len(ReadItems')
        /\ ReadCur' <= Len(ReadItems') /\ rskip' < Len(ReadItems')
    <3>1. ReadItems' = ReadItems /\ ReadQty' = ReadQty /\ ReadCur' = ReadCur
          /\ rskip' = rskip
      BY <1>1, <1>4, <1>10, <1>14, <1>18
    <3>2. /\ ReadQty % Len(ReadItems) = ReadCur % Len(ReadItems)
          /\ ReadCur <= Len(ReadItems) /\ rskip < Len(ReadItems)
      BY <1>1, <1>4, <1>18
    <3> QED BY <3>1, <3>2
  <2>6. qty' = ReadCur' - rskip' /\ ReadCur' = rskip'
    BY <1>1, <1>4, <1>18
  <2> QED BY <1>1, <2>1, <2>2, <2>3, <2>4, <2>5, <2>6 DEF ReadOK
<1>20. /\ rs' \in 0 .. rskip' /\ qty' \in 0 .. Len(ReadItems)
       /\ rpos' \in 1 .. Len(ReadItems) + 1 /\ blk' \in Nat
  BY <1>1, <1>4, <1>11
<1> QED BY <1>1, <1>4, <1>7, <1>12, <1>15, <1>17, <1>19, <1>20, ReaderStep

\* The walk over the block has what it needs.
LEMMA WalkReads ==
    ASSUME IInv, pc = "read"
    PROVE  /\ converting /\ part # 0 /\ Running /\ inf # <<>> /\ WriterType
           /\ WriterOK(Handed) /\ Handed \in Nat
           /\ qty = ReadCur - rskip /\ (rs > 0 => ReadCur = rskip)
           /\ ReadCur = rpos - 1 + rs /\ rpos \in 1 .. Len(ReadItems) + 1 /\ rs \in Nat
           /\ rskip \in 0 .. Len(ReadItems) - 1 /\ Len(ReadItems) \in Nat
<1>1. /\ WriterType /\ ReaderType /\ FileOK /\ ReadOK /\ WriterOK(Handed) /\ Running
  BY TypeSplit DEF IInv, Running
<1>2. converting
  BY <1>1 DEF FileOK
<1>3. inf # <<>>
  BY <1>1 DEF WriterOK, TypeNow
<1>4. part # 0 /\ qty = ReadCur - rskip /\ (rs > 0 => ReadCur = rskip)
  BY <1>1, <1>2, <1>3 DEF ReadOK
<1>5. Handed \in Nat /\ rskip \in 0 .. Len(ReadItems) - 1 /\ Len(ReadItems) \in Nat
  BY <1>1, <1>2, <1>4, ReadFacts
<1>6. rpos \in 1 .. Len(ReadItems) + 1 /\ rs \in Nat /\ ReadCur = rpos - 1 + rs
  BY <1>1, <1>5 DEF ReaderType, ReadCur
<1> QED BY <1>1, <1>2, <1>3, <1>4, <1>5, <1>6

\* What the reader's steps leave alone.
LEMMA ReadingSame ==
    ASSUME IInv, pc = "read", UNCHANGED <<writer, given, converting, file, part, blk, threw>>
    PROVE  /\ UNCHANGED <<text, inf, sent, given, converting, file, part, threw>>
           /\ pc' = "read" /\ blk' = blk /\ blk \in Nat
           /\ ReadSoFar' = ReadSoFar /\ ReadItems' = ReadItems
           /\ WriterType' /\ (Handed' = Handed => WriterOK(Handed)')
           /\ converting' /\ part' = Len(sent') /\ inf' = file'[part'].inf
           /\ part' # 0 /\ blk' <= Len(file'[part'].blocks)
<1>1. /\ UNCHANGED <<text, inf, Skip, currObj, objs, Block, pending, walk, ret, sent>>
      /\ text' = text /\ inf' = inf /\ sent' = sent /\ given' = given
      /\ converting' = converting /\ file' = file /\ part' = part /\ blk' = blk
      /\ threw' = threw /\ pc' = "read"
  BY DEF writer
<1>2. /\ converting /\ part # 0 /\ Running /\ inf # <<>> /\ WriterType
      /\ WriterOK(Handed) /\ Handed \in Nat
  BY WalkReads
<1>3. PICK n \in Nat : n = Handed
  BY <1>2
<1>4. WriterOK(n)
  BY <1>2, <1>3
<1>5. WriterType' /\ WriterOK(n)'
  BY <1>1, <1>2, <1>4, RestStep
<1>6. ReadSoFar' = ReadSoFar /\ ReadItems' = ReadItems
  BY <1>1 DEF ReadSoFar, ReadItems
<1>7. part = Len(sent) /\ inf = file[part].inf /\ blk <= Len(file[part].blocks) /\ blk \in Nat
  BY <1>2, TypeSplit DEF IInv, ReadOK, ReaderType
<1>8. Handed' = Handed => WriterOK(Handed)'
  BY <1>3, <1>5, HandedNext
<1> QED BY <1>1, <1>2, <1>5, <1>6, <1>7, <1>8

\* Over a primitive that the record has already.
LEMMA PassPrimitiveOK ==
    ASSUME IInv, PassPrimitive
    PROVE  IInv'
<1>1. /\ pc = "read" /\ rpos <= Len(ReadItems) /\ rs > 0
      /\ rs' = rs - 1 /\ rpos' = rpos + 1
      /\ UNCHANGED <<writer, given, converting, file, part, blk, threw>>
      /\ src' = src /\ rskip' = rskip /\ qty' = qty /\ arr' = arr
  BY DEF PassPrimitive, AtRead
<1>2. /\ converting /\ part # 0 /\ inf # <<>> /\ Running
      /\ qty = ReadCur - rskip /\ ReadCur = rskip
      /\ ReadCur = rpos - 1 + rs /\ rpos \in 1 .. Len(ReadItems) + 1 /\ rs \in Nat
      /\ rskip \in 0 .. Len(ReadItems) - 1 /\ Len(ReadItems) \in Nat
  BY <1>1, WalkReads
<1>3. /\ UNCHANGED <<text, inf, sent, given, converting, file, part, threw>>
      /\ pc' = "read" /\ blk' = blk /\ blk \in Nat
      /\ ReadSoFar' = ReadSoFar /\ ReadItems' = ReadItems
      /\ WriterType' /\ (Handed' = Handed => WriterOK(Handed)')
      /\ converting' /\ part' = Len(sent') /\ inf' = file'[part'].inf
      /\ part' # 0 /\ blk' <= Len(file'[part'].blocks)
  BY <1>1, ReadingSame
<1>4. ReadQty' = ReadQty
  BY <1>1, <1>3 DEF ReadQty
<1>5. Handed' = Handed
  BY <1>1, <1>3, <1>4 DEF Handed
<1>6. ReadCur' = ReadCur
  <2>1. ReadCur' = rpos' - 1 + rs'
    BY <1>3 DEF ReadCur
  <2> QED BY <1>1, <1>2, <2>1
<1>7. /\ ReaderType
      /\ ReadQty >= Len(arr)
      /\ \A i \in 1 .. Len(src) : src[i] = ReadSoFar[ReadQty + i]
      /\ \A i \in 1 .. Len(arr) : arr[i] = Handed + i
      /\ ReadQty % Len(ReadItems) = ReadCur % Len(ReadItems)
      /\ ReadCur <= Len(ReadItems) /\ rskip < Len(ReadItems)
  BY <1>2, TypeSplit DEF IInv, ReadOK
<1>8. ReadOK'
  BY <1>1, <1>2, <1>3, <1>4, <1>5, <1>6, <1>7 DEF ReadOK
<1>9. rs' \in 0 .. rskip' /\ rpos' \in 1 .. Len(ReadItems) + 1
  <2>1. rs \in 0 .. rskip
    BY <1>7 DEF ReaderType
  <2> QED BY <1>1, <1>2, <2>1
<1>10. /\ src' \in Seq(Tokens) /\ arr' \in Seq(-1 .. MaxObjects) /\ blk' \in Nat
       /\ rskip' \in 0 .. Len(ReadItems) - 1 /\ qty' \in 0 .. Len(ReadItems)
  BY <1>1, <1>2, <1>3, <1>7 DEF ReaderType
<1> QED BY <1>1, <1>2, <1>3, <1>5, <1>8, <1>9, <1>10, ReaderStep

\* An object out of the block: the next.
LEMMA ReadPrimitiveOK ==
    ASSUME IInv, ReadPrimitive
    PROVE  IInv'
<1> DEFINE t == Head(src)
           o == IF t.item = rpos THEN t.obj ELSE -1
           L == Len(ReadItems)
<1>1. /\ pc = "read" /\ rpos <= L /\ rs = 0 /\ src # <<>>
      /\ arr' = Append(arr, o) /\ src' = Tail(src)
      /\ qty' = qty + 1 /\ rpos' = rpos + 1
      /\ UNCHANGED <<writer, given, converting, file, part, blk, threw>>
      /\ rskip' = rskip /\ rs' = rs
  BY DEF ReadPrimitive, AtRead
<1>2. /\ converting /\ part # 0 /\ inf # <<>> /\ Running
      /\ qty = ReadCur - rskip
      /\ ReadCur = rpos - 1 + rs /\ rpos \in 1 .. L + 1
  BY <1>1, WalkReads
<1>3. /\ UNCHANGED <<text, inf, sent, given, converting, file, part, threw>>
      /\ pc' = "read" /\ blk' = blk /\ blk \in Nat
      /\ ReadSoFar' = ReadSoFar /\ ReadItems' = ReadItems
      /\ WriterType' /\ (Handed' = Handed => WriterOK(Handed)')
      /\ converting' /\ part' = Len(sent') /\ inf' = file'[part'].inf
      /\ part' # 0 /\ blk' <= Len(file'[part'].blocks)
  BY <1>1, ReadingSame
<1>4. /\ ReadItems \in Records /\ L \in Nat \ {0}
      /\ \A k \in 1 .. L : IsPrim(ReadItems[k])
      /\ \A m \in Nat : Done(ReadItems, m) = m
      /\ ReadSoFar \in Seq(Tokens) /\ Len(ReadSoFar) \in Nat
      /\ InOrder(ReadItems, ReadSoFar)
      /\ Len(src) \in Nat /\ Len(arr) \in Nat
      /\ ReadQty = Len(ReadSoFar) - Len(src) /\ ReadQty \in Nat
      /\ Handed = ReadQty - Len(arr) /\ Handed \in Nat
      /\ ReadQty % L = ReadCur % L /\ rskip \in 0 .. L - 1
  BY <1>2, ReadFacts
<1>5. /\ src \in Seq(Tokens) /\ arr \in Seq(-1 .. MaxObjects)
      /\ \A i \in 1 .. Len(src) : src[i] = ReadSoFar[ReadQty + i]
      /\ \A i \in 1 .. Len(arr) : arr[i] = Handed + i
  BY <1>2, TypeSplit DEF IInv, ReadOK, ReaderType
<1>6. ReadCur = rpos - 1 /\ rpos - 1 \in 0 .. L - 1 /\ rpos \in 1 .. L
  BY <1>1, <1>2, <1>4
<1>7. /\ Len(src) \in Nat \ {0} /\ Head(src) = src[1] /\ 1 \in 1 .. Len(src)
      /\ Tail(src) \in Seq(Tokens) /\ Len(Tail(src)) = Len(src) - 1
      /\ \A i \in 1 .. Len(src) - 1 : Tail(src)[i] = src[i + 1]
  <2>1. Len(src) \in Nat \ {0}
    BY <1>1, <1>5, EmptyLen
  <2> QED BY <1>1, <1>5, <2>1, HeadTailProperties
<1>8. t \in Tokens
  BY <1>5, <1>7, ElementOfSeq
<1> HIDE DEF L
<1>9. t = Expected(ReadItems, ReadQty + 1)
  <2>1. t = ReadSoFar[ReadQty + 1]
    BY <1>5, <1>7
  <2>2. ReadQty + 1 \in 1 .. Len(ReadSoFar)
    BY <1>4, <1>7
  <2> HIDE DEF t
  <2> QED BY <1>4, <2>1, <2>2 DEF InOrder
<1> HIDE DEF t
<1>10. t.item = rpos /\ t.obj = ReadQty + 1
  <2> DEFINE m == ReadQty
  <2>1. m \in Nat /\ m % L = rpos - 1
    <3>1. (rpos - 1) % L = rpos - 1
      BY <1>4, <1>6, SmallMod
    <3> QED BY <1>4, <1>6, <3>1
  <2>2. t = Expected(ReadItems, m + 1)
    BY <1>9
  <2> HIDE DEF m
  <2> DEFINE x == IF IsPrim(ReadItems[(m % L) + 1]) THEN Done(ReadItems, m) + 1 ELSE 0
  <2>3. Expected(ReadItems, m + 1) = [item |-> (m % L) + 1, obj |-> x]
    BY <1>4, <2>1, TokenNext DEF L
  <2>4. x = m + 1
    <3>1. (m % L) + 1 = rpos
      BY <1>6, <2>1
    <3>2. IsPrim(ReadItems[rpos])
      BY <1>4, <1>6
    <3> QED BY <1>4, <2>1, <3>1, <3>2
  <2> HIDE DEF x
  <2>5. t.item = (m % L) + 1 /\ t.obj = x
    BY <2>2, <2>3
  <2> QED BY <1>6, <2>1, <2>4, <2>5 DEF m
<1>11. o = ReadQty + 1 /\ o \in -1 .. MaxObjects
  <2>1. o = t.obj
    BY <1>10
  <2> QED BY <1>8, <1>10, <2>1 DEF Tokens
<1> HIDE DEF o
<1>12. /\ arr' \in Seq(-1 .. MaxObjects) /\ Len(arr') = Len(arr) + 1
       /\ \A i \in 1 .. Len(arr) : arr'[i] = arr[i]
       /\ arr'[Len(arr) + 1] = o
  BY <1>1, <1>5, <1>11, AppendProperties
<1>13. ReadQty' = ReadQty + 1
  <2>1. ReadQty' = Len(ReadSoFar') - Len(src')
    BY DEF ReadQty
  <2>2. Len(ReadSoFar') = Len(ReadSoFar) /\ Len(src') = Len(src) - 1
    BY <1>1, <1>3, <1>7
  <2> QED BY <1>4, <2>1, <2>2
<1>14. Handed' = Handed
  <2>1. Handed' = ReadQty' - Len(arr')
    BY <1>3 DEF Handed
  <2> QED BY <1>4, <1>12, <1>13, <2>1
<1>15. ReadCur' = rpos
  <2>1. ReadCur' = rpos' - 1 + rs'
    BY <1>3 DEF ReadCur
  <2> QED BY <1>1, <1>6, <2>1
<1>16. ReadOK'
  <2>1. ReadQty' >= Len(arr')
    BY <1>4, <1>12, <1>13
  <2>2. ASSUME NEW i \in 1 .. Len(src') PROVE src'[i] = ReadSoFar'[ReadQty' + i]
    <3>1. i \in 1 .. Len(src) - 1 /\ i + 1 \in 1 .. Len(src)
      BY <1>1, <1>7
    <3>2. src'[i] = src[i + 1]
      BY <1>1, <1>7, <3>1
    <3>3. src[i + 1] = ReadSoFar[ReadQty + (i + 1)]
      BY <1>5, <3>1
    <3>4. ReadQty' + i = ReadQty + (i + 1)
      BY <1>4, <1>13, <3>1
    <3> QED BY <1>3, <3>2, <3>3, <3>4
  <2>3. ASSUME NEW i \in 1 .. Len(arr') PROVE arr'[i] = Handed' + i
    <3>1. CASE i = Len(arr) + 1
      <4>1. arr'[i] = ReadQty + 1
        BY <1>11, <1>12, <3>1
      <4> QED BY <1>4, <1>14, <3>1, <4>1
    <3>2. CASE i # Len(arr) + 1
      <4>1. i \in 1 .. Len(arr)
        BY <1>4, <1>12, <3>2
      <4> QED BY <1>5, <1>12, <1>14, <4>1
    <3> QED BY <3>1, <3>2
  <2>4. (ReadQty + 1) % L = rpos % L
    <3> DEFINE c == rpos - 1
    <3>1. c \in 0 .. L - 1 /\ c + 1 = rpos /\ ReadQty % L = c % L
      BY <1>4, <1>6
    <3> HIDE DEF c
    <3>2. L \in Nat \ {0} /\ ReadQty \in Nat
      BY <1>4
    <3>3. (ReadQty + 1) % L = (c + 1) % L
      BY <3>1, <3>2, ModNext, ZenonT(30)
    <3> QED BY <3>1, <3>3
  <2>5. /\ ReadQty' % Len(ReadItems') = ReadCur' % Len(ReadItems')
        /\ ReadCur' <= Len(ReadItems') /\ rskip' < Len(ReadItems')
    BY <1>1, <1>3, <1>4, <1>6, <1>13, <1>15, <2>4 DEF L
  <2>6. qty' = ReadCur' - rskip' /\ ~(rs' > 0)
    BY <1>1, <1>2, <1>4, <1>6, <1>15
  <2> QED BY <1>3, <2>1, <2>2, <2>3, <2>5, <2>6 DEF ReadOK
<1>17. qty' \in 0 .. L /\ rpos' \in 1 .. L + 1 /\ rs' \in 0 .. rskip'
  <2>1. qty' = rpos - rskip
    BY <1>1, <1>2, <1>4, <1>6
  <2>2. qty \in Nat
    BY TypeSplit DEF IInv, ReaderType
  <2> QED BY <1>1, <1>4, <1>6, <2>1, <2>2
<1> QED BY <1>1, <1>2, <1>3, <1>4, <1>7, <1>12, <1>14, <1>16, <1>17, ReaderStep DEF L

\* The converter is through with a record.
LEMMA ReadRecordOK ==
    ASSUME IInv, ReadRecord
    PROVE  IInv'
<1> DEFINE L == Len(ReadItems)
<1>1. /\ pc = "read" /\ rpos > L
      /\ rskip' = 0 /\ rs' = 0 /\ qty' = 0 /\ rpos' = 1
      /\ UNCHANGED <<writer, given, converting, file, part, blk, threw>>
      /\ src' = src /\ arr' = arr
  BY DEF ReadRecord
<1>2. /\ converting /\ part # 0 /\ inf # <<>> /\ Running
      /\ ReadCur = rpos - 1 + rs /\ rpos \in 1 .. L + 1 /\ rs \in Nat
  BY <1>1, WalkReads
<1>3. /\ UNCHANGED <<text, inf, sent, given, converting, file, part, threw>>
      /\ pc' = "read" /\ blk' = blk /\ blk \in Nat
      /\ ReadSoFar' = ReadSoFar /\ ReadItems' = ReadItems
      /\ WriterType' /\ (Handed' = Handed => WriterOK(Handed)')
      /\ converting' /\ part' = Len(sent') /\ inf' = file'[part'].inf
      /\ part' # 0 /\ blk' <= Len(file'[part'].blocks)
  BY <1>1, ReadingSame
<1>4. /\ L \in Nat \ {0} /\ ReadQty % L = ReadCur % L /\ ReadCur <= L
  BY <1>2, ReadFacts
<1>5. ReadQty' = ReadQty
  BY <1>1, <1>3 DEF ReadQty
<1>6. Handed' = Handed
  BY <1>1, <1>3, <1>5 DEF Handed
<1>7. ReadCur' = 0
  BY <1>1, <1>3 DEF ReadCur
<1>8. /\ ReaderType
      /\ ReadQty >= Len(arr)
      /\ \A i \in 1 .. Len(src) : src[i] = ReadSoFar[ReadQty + i]
      /\ \A i \in 1 .. Len(arr) : arr[i] = Handed + i
  BY <1>2, TypeSplit DEF IInv, ReadOK
<1>9. ReadQty % L = 0 % L
  <2>1. ReadCur = L
    BY <1>1, <1>2, <1>4
  <2>2. 0 \in 0 .. L - 1
    BY <1>4
  <2>3. L % L = 0 /\ 0 % L = 0
    BY <1>4, <2>2, FullMod, SmallMod
  <2> QED BY <1>4, <2>1, <2>3
<1>10. ReadOK'
  <2>1. /\ ReadQty' % Len(ReadItems') = ReadCur' % Len(ReadItems')
        /\ ReadCur' <= Len(ReadItems') /\ rskip' < Len(ReadItems')
    BY <1>1, <1>3, <1>4, <1>5, <1>7, <1>9
  <2>2. qty' = ReadCur' - rskip' /\ ~(rs' > 0)
    BY <1>1, <1>7
  <2> QED BY <1>1, <1>3, <1>5, <1>6, <1>8, <2>1, <2>2 DEF ReadOK
<1>11. /\ src' \in Seq(Tokens) /\ arr' \in Seq(-1 .. MaxObjects) /\ blk' \in Nat
       /\ rskip' \in 0 .. L - 1 /\ rs' \in 0 .. rskip' /\ qty' \in 0 .. L
       /\ rpos' \in 1 .. L + 1
  <2>1. src \in Seq(Tokens) /\ arr \in Seq(-1 .. MaxObjects)
    BY <1>8 DEF ReaderType
  <2>2. 0 \in 0 .. L - 1 /\ 0 \in 0 .. L /\ 0 \in 0 .. 0 /\ 1 \in 1 .. L + 1
    BY <1>4
  <2> QED BY <1>1, <1>3, <2>1, <2>2
<1> QED BY <1>1, <1>2, <1>3, <1>6, <1>10, <1>11, ReaderStep

\* The objects of a block go to the writer.
LEMMA BlockEndsOK ==
    ASSUME IInv, BlockEnds
    PROVE  IInv'
<1> DEFINE L == Len(ReadItems)
<1>1. /\ pc = "read" /\ rpos <= L /\ rs = 0 /\ src = <<>>
      /\ rskip' = rskip + qty /\ rpos' = 1 /\ rs' = 0 /\ qty' = 0 /\ arr' = <<>>
      /\ UNCHANGED <<text, inf, Skip, currObj, Block, pending, ret, sent>>
      /\ UNCHANGED <<text, inf, sent, given, converting, file, part, threw>>
      /\ blk' = blk /\ src' = src
      /\ \/ arr = <<>> /\ pc' = "idle" /\ UNCHANGED <<objs, walk>>
         \/ /\ arr # <<>> /\ objs' = arr /\ pos' = 1 /\ skip' = Skip /\ wqty' = 0
            /\ pc' = "walk"
  BY DEF BlockEnds, AtRead
<1>2. /\ converting /\ part # 0 /\ inf # <<>> /\ Running /\ WriterType
      /\ WriterOK(Handed) /\ Handed \in Nat /\ qty = ReadCur - rskip
      /\ ReadCur = rpos - 1 + rs /\ rpos \in 1 .. L + 1
      /\ rskip \in 0 .. L - 1 /\ L \in Nat
  BY <1>1, WalkReads
<1>3. /\ Len(arr) \in Nat /\ ReadQty = Len(ReadSoFar) - Len(src) /\ ReadQty \in Nat
      /\ Handed = ReadQty - Len(arr) /\ ReadQty % L = ReadCur % L
  BY <1>2, ReadFacts
<1>4. /\ ReaderType /\ part = Len(sent) /\ inf = file[part].inf
      /\ blk <= Len(file[part].blocks) /\ arr \in Seq(-1 .. MaxObjects)
      /\ \A i \in 1 .. Len(arr) : arr[i] = Handed + i
  BY <1>2, TypeSplit DEF IInv, ReadOK, ReaderType
<1>5. PICK n \in Nat : n = Handed
  BY <1>2
<1>6. WriterOK(n)
  BY <1>2, <1>5
<1>7. /\ converting' /\ part' = part /\ part # 0 /\ file' = file /\ sent' = sent /\ inf' = inf
      /\ ReadSoFar' = ReadSoFar /\ ReadItems' = ReadItems
  BY <1>1, <1>2 DEF ReadSoFar, ReadItems
<1>8. ReadQty' = ReadQty
  BY <1>1, <1>7 DEF ReadQty
<1>9. Len(arr') = 0 /\ Len(src') = 0 /\ <<>> \in Seq(-1 .. MaxObjects) /\ <<>> \in Seq(Tokens)
  BY <1>1, EmptySeq
<1>10. PICK p \in Nat : p = n + Len(arr)
  BY <1>3
<1>11. Handed' = p
  <2>1. Handed' = ReadQty' - Len(arr')
    BY <1>7 DEF Handed
  <2> QED BY <1>3, <1>5, <1>8, <1>9, <1>10, <2>1
<1>12. WriterType' /\ WriterOK(p)'
  <2>1. CASE arr = <<>> /\ pc' = "idle" /\ UNCHANGED <<objs, walk>>
    <3>1. WriterType' /\ WriterOK(n)'
      BY <1>1, <1>2, <1>6, <2>1, RestStep
    <3>2. p = n
      <4>1. Len(arr) = 0
        BY <2>1, EmptySeq
      <4> QED BY <1>10, <4>1
    <3> QED BY <3>1, <3>2
  <2>2. CASE /\ arr # <<>> /\ objs' = arr /\ pos' = 1 /\ skip' = Skip /\ wqty' = 0
             /\ pc' = "walk"
    <3>1. /\ objs' \in Seq(-1 .. MaxObjects) /\ objs' # <<>> /\ p = n + Len(objs')
          /\ \A i \in 1 .. Len(objs') : objs'[i] = n + i
      BY <1>4, <1>5, <1>10, <2>2
    <3> QED BY <1>1, <1>2, <1>6, <2>2, <3>1, WriteOK
  <2> QED BY <1>1, <2>1, <2>2
<1>13. WriterOK(Handed)'
  BY <1>11, <1>12, HandedNext
<1>14. rskip' = ReadCur /\ ReadCur' = ReadCur /\ ReadCur \in 0 .. L - 1
  <2>1. ReadCur' = rskip'
    BY <1>1 DEF ReadCur
  <2>2. rskip' = rskip + (ReadCur - rskip) /\ ReadCur = rpos - 1
    BY <1>1, <1>2
  <2> QED BY <1>1, <1>2, <2>1, <2>2
<1>15. ReadOK'
  <2>1. /\ ReadQty' >= Len(arr')
        /\ \A i \in 1 .. Len(src') : src'[i] = ReadSoFar'[ReadQty' + i]
        /\ \A i \in 1 .. Len(arr') : arr'[i] = Handed' + i
    BY <1>3, <1>8, <1>9
  <2>2. /\ ReadQty' % Len(ReadItems') = ReadCur' % Len(ReadItems')
        /\ ReadCur' <= Len(ReadItems') /\ rskip' < Len(ReadItems')
    <3>1. ReadQty' = ReadQty /\ ReadCur' = ReadCur /\ rskip' = ReadCur /\ ReadItems' = ReadItems
      BY <1>7, <1>8, <1>14
    <3>2. ReadCur <= L /\ ReadCur < L
      BY <1>2, <1>14
    <3> QED BY <1>3, <3>1, <3>2
  <2>3. part' = Len(sent') /\ inf' = file'[part'].inf /\ blk' <= Len(file'[part'].blocks)
    BY <1>1, <1>4, <1>7
  <2>4. pc' # "read" /\ src' = <<>> /\ arr' = <<>> /\ rpos' = 1 /\ rs' = 0 /\ qty' = 0
    BY <1>1
  <2> QED BY <1>7, <2>1, <2>2, <2>3, <2>4 DEF ReadOK
<1>16. /\ src' \in Seq(Tokens) /\ arr' \in Seq(-1 .. MaxObjects) /\ blk' \in Nat
       /\ rskip' \in 0 .. L - 1 /\ rs' \in 0 .. rskip' /\ qty' \in 0 .. L
       /\ rpos' \in 1 .. L + 1
  BY <1>1, <1>2, <1>4, <1>9, <1>14 DEF ReaderType
<1>17. pc # "closed" /\ pc' \in {"idle", "read", "walk"}
  BY <1>1
<1> QED BY <1>1, <1>2, <1>12, <1>13, <1>15, <1>16, <1>17, ReaderStep

\* The converter is through: the text has all that the file has.
LEMMA ConverterClosesOK ==
    ASSUME IInv, ConverterCloses
    PROVE  IInv'
<1>1. /\ converting
      /\ (pc = "idle" /\ Block = <<>> /\ FileRead) \/ pc = "thrown"
      /\ pc \in {"idle", "thrown"}
      /\ sent' = Flushed(sent, Block) /\ Block' = <<>> /\ pc' = "closed"
      /\ UNCHANGED <<text, inf, Skip, currObj, objs, pending, walk, ret>>
      /\ text' = text /\ inf' = inf /\ given' = given /\ converting' = converting
      /\ file' = file /\ part' = part
      /\ blk' = blk /\ src' = src /\ rskip' = rskip /\ rpos' = rpos /\ rs' = rs
      /\ qty' = qty /\ arr' = arr /\ threw' = threw
  BY DEF ConverterCloses, reader
<1>2. /\ WriterType /\ ReaderType /\ WriterOK(Handed) /\ WholeBefore /\ FileOK /\ ReadOK
      /\ TypeNow /\ SentInOrder /\ PlaceOK /\ WalkOK
  BY TypeSplit DEF IInv, WriterOK
<1>3. WriterType' /\ \A i : WriterOK(i)'
  BY <1>1, <1>2, ClosedOK
<1>4. PICK i : Handed' = i
  OBVIOUS
<1>5. WriterOK(i)'
  BY <1>3
<1>6. WriterOK(Handed)'
  BY <1>4, <1>5, HandedNext
<1>7. WholeBefore' /\ ReadOK' /\ Emptied'
  BY <1>1 DEF WholeBefore, ReadOK, Running, Emptied
<1>8. FileOK'
  <2>1. converting' /\ (~threw' => ~threw) /\ text' /\ pc' # "thrown"
    BY <1>1, <1>2 DEF FileOK
  <2> QED BY <1>1, <1>2, <2>1, FileSame
<1>9. ReaderType'
  <2>1. ReadItems' = ReadItems
    BY <1>1 DEF ReadItems
  <2> QED BY <1>1, <1>2, <2>1 DEF ReaderType
<1>10. TextIsWhole'
  <2> SUFFICES ASSUME ~threw
               PROVE  /\ Len(sent') = Len(given')
                      /\ \A k \in 1 .. Len(given') :
                           AllOf(ItemsOf(sent'[k].inf, TRUE), given'[k],
                                 Len(TokensOf(sent', k)))
    BY <1>1 DEF TextIsWhole, TokensOf
  <2>1. pc = "idle" /\ Block = <<>> /\ FileRead /\ text = TRUE
    BY <1>1, <1>2 DEF FileOK, WriterType
  <2>2. sent' = sent
    BY <1>1, <2>1 DEF Flushed
  <2>3. /\ Len(file) = Len(given) /\ part = Len(file) /\ PartRead
        /\ part = Len(sent) /\ src = <<>> /\ arr = <<>> /\ Running
    BY <1>1, <1>2, <2>1 DEF FileOK, FileRead, ReadOK, Running
  <2>4. ASSUME NEW k \in 1 .. Len(given)
        PROVE  AllOf(ItemsOf(sent[k].inf, TRUE), given[k], Len(TokensOf(sent, k)))
    <3>1. CASE k < Len(sent)
      <4>1. PartOK(sent[k].inf, text, given[k], Len(TokensOf(sent, k)))
        BY <1>2, <2>1, <2>3, <3>1 DEF WholeBefore
      <4> QED BY <2>1, <4>1 DEF PartOK
    <3>2. CASE ~(k < Len(sent))
      <4>1. k = part /\ part # 0
        BY <1>2, <2>3, <3>2 DEF ReaderType
      <4>2. /\ part \in 1 .. Len(file) /\ inf # <<>>
            /\ Len(ReadSoFar) \in Nat /\ Len(src) \in Nat /\ Len(arr) \in Nat
            /\ ReadQty = Len(ReadSoFar) - Len(src) /\ Handed = ReadQty - Len(arr)
            /\ Handed \in Nat /\ file[part].blocks \in Seq(Seq(Tokens))
        BY <1>1, <2>3, <4>1, ReadFacts
      <4>3. ReadSoFar = TokensOf(file, part)
        <5>1. blk = Len(file[part].blocks)
          BY <2>3, <4>1 DEF PartRead
        <5>2. SubSeq(file[part].blocks, 1, blk) = file[part].blocks
          BY <4>2, <5>1, FrontOf
        <5> QED BY <5>2 DEF ReadSoFar, TokensOf
      <4>4. Len(TokensOf(file, part)) = given[part]
        BY <1>1, <1>2, <4>2 DEF FileOK
      <4>5. Len(src) = 0 /\ Len(arr) = 0
        BY <2>3, EmptySeq
      <4>6. Handed = given[k]
        BY <4>1, <4>2, <4>3, <4>4, <4>5
      <4>7. PICK n \in Nat : n = Handed
        BY <4>2
      <4>8. WriterOK(n)
        BY <1>2, <4>7
      <4>9. AllOf(Items, n, Len(Written)) /\ pending = <<>>
        BY <1>2, <2>1, <4>2, <4>8, WholeNow
      <4>10. Written = TokensOf(sent, k)
        <5>1. TokensOf(sent, Len(sent)) \in Seq(Tokens)
          BY <1>2, <4>2, WriterFacts
        <5>2. Block \o pending = <<>>
          BY <2>1, <4>9, EmptySeq, ConcatEmptySeq
        <5>3. TokensOf(sent, Len(sent)) \o <<>> = TokensOf(sent, Len(sent))
          BY <5>1, ConcatEmptySeq
        <5> QED BY <2>3, <4>1, <5>2, <5>3 DEF Written
      <4>11. Items = ItemsOf(sent[k].inf, TRUE)
        BY <1>2, <2>1, <2>3, <4>1, <4>2 DEF Items, TypeNow
      <4> QED BY <4>6, <4>7, <4>9, <4>10, <4>11
    <3> QED BY <3>1, <3>2
  <2> QED BY <1>1, <2>2, <2>3, <2>4
<1> QED BY <1>3, <1>6, <1>7, <1>8, <1>9, <1>10 DEF IInv, TypeOK, WriterType, ReaderType

-----------------------------------------------------------------------------
(* The invariant holds *)

\* At the beginning nothing is written.
LEMMA InitOK == Init => IInv
<1> SUFFICES ASSUME Init PROVE IInv
  OBVIOUS
<1>1. /\ text \in BOOLEAN /\ inf = <<>> /\ Skip = 0 /\ currObj = 0 /\ objs = <<>>
      /\ Block = <<>> /\ pending = <<>> /\ pos = 1 /\ skip = 0 /\ wqty = 0
      /\ pc = "idle" /\ ret = "ok" /\ sent = <<>>
      /\ given = <<>> /\ converting = FALSE
      /\ file = <<>> /\ part = 0 /\ blk = 0 /\ src = <<>>
      /\ rskip = 0 /\ rpos = 1 /\ rs = 0 /\ qty = 0 /\ arr = <<>> /\ threw = FALSE
  BY DEF Init
<1>2. /\ <<>> \in Seq(Tokens) /\ <<>> \in Seq(-1 .. MaxObjects) /\ <<>> \in Seq(Parts)
      /\ <<>> \in Seq(0 .. MaxObjects) /\ Len(<<>>) = 0 /\ <<>> \o <<>> = <<>>
  BY EmptySeq, ConcatEmptySeq
<1>3. Len(Items) = 0 /\ Len(ReadItems) = 0
  BY <1>1, NullIs DEF Items, ReadItems
<1>4. Used(Block \o pending) = 0 /\ Room >= 0
  <2>1. Used(Block \o pending) = 0
    BY <1>1, <1>2, UsedNothing
  <2> QED BY <2>1, SizeAssumption DEF Room
<1>5. WriterType
  BY <1>1, <1>2, <1>3, <1>4, BoundsAssumption DEF WriterType
<1>6. ReaderType
  <2>1. converting \in BOOLEAN /\ threw \in BOOLEAN
    BY <1>1
  <2>2. /\ file \in Seq(Parts) /\ given \in Seq(0 .. MaxObjects)
        /\ src \in Seq(Tokens) /\ arr \in Seq(-1 .. MaxObjects)
    BY <1>1, <1>2
  <2>3. Len(given) = 0 /\ Len(file) = 0
    BY <1>1, <1>2
  <2>4. Len(given) <= MaxTypes
    BY <2>3, BoundsAssumption
  <2>5. part \in 0 .. Len(file) /\ blk \in Nat
    BY <1>1, <2>3
  <2>6. /\ rskip \in 0 .. Len(ReadItems) /\ rs \in 0 .. rskip
        /\ qty \in 0 .. Len(ReadItems) /\ rpos \in 1 .. Len(ReadItems) + 1
    BY <1>1, <1>3
  <2> QED BY <2>1, <2>2, <2>4, <2>5, <2>6 DEF ReaderType
<1>7. WriterOK(Handed)
  BY <1>1, <1>2, <1>4, SizeAssumption
     DEF WriterOK, TypeNow, SentInOrder, PlaceOK, WaitOK, WalkOK, RestOK, RoomOK
<1>8. WholeBefore /\ TextIsWhole /\ Emptied
  BY <1>1, <1>2 DEF WholeBefore, TextIsWhole, Emptied
<1>9. FileOK /\ ReadOK
  BY <1>1 DEF FileOK, ReadOK
<1> QED BY <1>5, <1>6, <1>7, <1>8, <1>9, TypeSplit DEF IInv

\* A stutter changes nothing.
LEMMA StutterOK ==
    ASSUME IInv, UNCHANGED vars
    PROVE  IInv'
<1>1. /\ text' = text /\ inf' = inf /\ Skip' = Skip /\ currObj' = currObj /\ objs' = objs
      /\ Block' = Block /\ pending' = pending /\ pos' = pos /\ skip' = skip /\ wqty' = wqty
      /\ pc' = pc /\ ret' = ret /\ sent' = sent
      /\ given' = given /\ converting' = converting
      /\ file' = file /\ part' = part /\ blk' = blk /\ src' = src /\ rskip' = rskip
      /\ rpos' = rpos /\ rs' = rs /\ qty' = qty /\ arr' = arr /\ threw' = threw
  BY DEF vars, writer, walk, reader
<1>2. /\ Items' = Items /\ ReadItems' = ReadItems /\ Cur' = Cur /\ ReadCur' = ReadCur
      /\ Written' = Written /\ ReadSoFar' = ReadSoFar
  BY <1>1 DEF Items, ReadItems, Cur, ReadCur, Written, TokensOf, ReadSoFar
<1>3. DoneQty' = DoneQty /\ ReadQty' = ReadQty
  BY <1>1, <1>2 DEF DoneQty, Done, ReadQty
<1>4. Handed' = Handed
  BY <1>1, <1>3 DEF Handed
<1>5. Used(Block \o pending)' = Used(Block \o pending) /\ Room' = Room
  BY <1>1, <1>2 DEF Used, Size, Room
<1>6. TypeOK'
  BY <1>1, <1>2, <1>5 DEF IInv, TypeOK
<1>7. WriterOK(Handed)'
  BY <1>1, <1>2, <1>3, <1>4, <1>5
     DEF IInv, WriterOK, TypeNow, SentInOrder, TokensOf, PlaceOK, WaitOK, WalkOK, RestOK,
         RoomOK, Running
<1>8. WholeBefore' /\ TextIsWhole' /\ Emptied'
  BY <1>1 DEF IInv, WholeBefore, TextIsWhole, TokensOf, Emptied
<1>9. FileOK'
  BY <1>1 DEF IInv, FileOK, TokensOf
<1>10. ReadOK'
  BY <1>1, <1>2, <1>3, <1>4 DEF IInv, ReadOK, Running
<1> QED BY <1>6, <1>7, <1>8, <1>9, <1>10 DEF IInv

\* What the writer, the client, the file and the converter have to do with each
\* other, in every state: the objects that wait are the next, what is in the stream
\* and the block is in order up to the place reached, and nothing is missing before
\* (BaseWriter.cs 40-159, BinToTxtConverter.cs 20-61).
THEOREM Invariance == Spec => []IInv
<1>1. Init => IInv
  BY InitOK
<1>2. IInv /\ [Next]_vars => IInv'
  <2> SUFFICES ASSUME IInv, [Next]_vars PROVE IInv'
    OBVIOUS
  <2>1. CASE \E ty \in Types : ClientWriteInfo(ty)
    BY <2>1, ClientWriteInfoOK
  <2>2. CASE \E n \in 1 .. MaxObjects : ClientWrite(n)
    BY <2>2, ClientWriteOK
  <2>3. CASE ClientFlush
    BY <2>3, FlushStep DEF ClientFlush
  <2>4. CASE ClientAppend
    BY <2>4, ClientAppendOK
  <2>5. CASE ClientCloses
    BY <2>5, ClientClosesOK
  <2>6. CASE Call
    BY <2>6, CallOK
  <2>7. CASE ReadInfoBlock \/ ReadDataBlock
    BY <2>7, ReadInfoBlockOK, ReadDataBlockOK
  <2>8. CASE PassPrimitive \/ ReadPrimitive \/ ReadRecord \/ BlockEnds
    BY <2>8, PassPrimitiveOK, ReadPrimitiveOK, ReadRecordOK, BlockEndsOK
  <2>9. CASE ConverterFlush
    BY <2>9, FlushStep DEF ConverterFlush
  <2>10. CASE ConverterCloses
    BY <2>10, ConverterClosesOK
  <2>11. CASE UNCHANGED vars
    BY <2>11, StutterOK
  <2> QED BY <2>1, <2>2, <2>3, <2>4, <2>5, <2>6, <2>7, <2>8, <2>9, <2>10, <2>11
          DEF Next, Convert
<1> QED BY <1>1, <1>2, PTL DEF Spec

\* The variables keep their types, and the block its size (BaseWriter.cs).
THEOREM TypeCorrect == Spec => []TypeOK
<1>1. IInv => TypeOK
  BY DEF IInv
<1> QED BY <1>1, Invariance, PTL

\* The stream with all that is in the block.
LEMMA StreamIs ==
    ASSUME WriterType, TypeNow, inf # <<>>
    PROVE  /\ Kept(sent, Stream) /\ Len(Stream) = Len(sent)
           /\ TokensOf(Stream, Len(sent)) = Written
<1>1. /\ sent \in Seq(Parts) /\ sent # <<>> /\ Block \o pending \in Seq(Tokens)
  BY WriterFacts DEF WriterType
<1> DEFINE h == Block \o pending
<1>2. /\ Kept(sent, Flushed(sent, h))
      /\ TokensOf(Flushed(sent, h), Len(sent)) = TokensOf(sent, Len(sent)) \o h
  BY <1>1, FlushedIs
<1> QED BY <1>2 DEF Stream, Written, Kept

\* What is written under a type is in order, wherever the client cut its objects, a
\* block ended or an exception struck (BaseWriter.cs 40-159).
THEOREM AllInOrder == Spec => []WrittenInOrder
<1>1. IInv => WrittenInOrder
  <2> SUFFICES ASSUME IInv, NEW k \in 1 .. Len(Stream)
               PROVE  InOrder(ItemsOf(Stream[k].inf, text), TokensOf(Stream, k))
    BY DEF WrittenInOrder
  <2>1. /\ WriterType /\ TypeNow /\ SentInOrder /\ PlaceOK /\ WalkOK /\ Emptied
    BY TypeSplit DEF IInv, WriterOK
  <2>2. CASE inf = <<>> \/ pc = "closed"
    <3>1. Block = <<>> /\ pending = <<>>
      BY <2>1, <2>2 DEF TypeNow, WalkOK, Emptied
    <3>2. Stream = sent
      BY <3>1, EmptySeq, ConcatEmptySeq DEF Stream, Flushed
    <3> QED BY <2>1, <3>2 DEF SentInOrder
  <2>3. CASE inf # <<>> /\ pc # "closed"
    <3>1. /\ Kept(sent, Stream) /\ Len(Stream) = Len(sent)
          /\ TokensOf(Stream, Len(sent)) = Written
          /\ sent[Len(sent)].inf = inf /\ Len(sent) \in Nat /\ InOrder(Items, Written)
      BY <2>1, <2>3, StreamIs, WriterFacts DEF PlaceOK
    <3>2. CASE k = Len(sent)
      BY <3>1, <3>2 DEF Kept, Items
    <3>3. CASE k # Len(sent)
      <4>1. k \in 1 .. Len(sent) /\ k < Len(sent)
        BY <3>1, <3>3
      <4>2. Stream[k] = sent[k]
        BY <3>1, <4>1 DEF Kept
      <4> QED BY <2>1, <4>1, <4>2 DEF SentInOrder, TokensOf
    <3> QED BY <3>2, <3>3
  <2> QED BY <2>2, <2>3
<1> QED BY <1>1, Invariance, PTL

\* Between two calls _skip is the place in the record, and no object waits
\* (BaseWriter.cs 65-84).
THEOREM SkipTells == Spec => []SkipTellsTheRest
<1>1. IInv => SkipTellsTheRest
  <2> SUFFICES ASSUME IInv, pc = "idle", inf # <<>>
               PROVE  /\ currObj = 0 /\ objs = <<>> /\ pending = <<>>
                      /\ Skip = Len(TokensOf(Stream, Len(Stream))) % Len(Items)
    BY DEF SkipTellsTheRest
  <2>1. WriterType /\ WriterOK(Handed) /\ TypeNow /\ Handed \in Nat
    BY TypeSplit, HandedIs DEF IInv, WriterOK, Running
  <2>2. PICK n \in Nat : n = Handed
    BY <2>1
  <2>3. /\ Skip = Len(Written) % Len(Items)
        /\ currObj = 0 /\ objs = <<>> /\ pending = <<>>
    BY <2>1, <2>2, WholeNow
  <2>4. TokensOf(Stream, Len(Stream)) = Written
    BY <2>1, StreamIs
  <2> QED BY <2>3, <2>4
<1> QED BY <1>1, Invariance, PTL

\* IsOk tells that the record is complete, and then all of it is written
\* (TestStructSerialize.cs 284-287).
THEOREM IsOkTells == Spec => []IsOkTellsRecords
<1>1. IInv => IsOkTellsRecords
  <2> SUFFICES ASSUME IInv, pc = "idle", ~converting, given # <<>>, inf # <<>>
               PROVE  /\ ret = "ok" <=> Last(given) % PrimQty(Items) = 0
                      /\ AllOf(Items, Last(given), Len(TokensOf(Stream, Len(given))))
    BY DEF IsOkTellsRecords
  <2>1. WriterType /\ WriterOK(Handed) /\ TypeNow /\ Handed \in Nat
    BY TypeSplit, HandedIs DEF IInv, WriterOK, Running
  <2>2. Len(given) = Len(sent) /\ Handed = given[Len(sent)]
    BY ClientFacts
  <2>3. PICK n \in Nat : n = Handed
    BY <2>1
  <2>4. AllOf(Items, n, Len(Written)) /\ (ret = "ok" <=> n % PrimQty(Items) = 0)
    BY <2>1, <2>3, WholeNow
  <2>5. TokensOf(Stream, Len(given)) = Written
    BY <2>1, <2>2, StreamIs
  <2>6. Last(given) = n
    BY <2>2, <2>3 DEF Last
  <2> QED BY <2>4, <2>5, <2>6
<1> QED BY <1>1, Invariance, PTL

\* A closed text file, given by the client or converted, has all descriptions and
\* behind each all that the objects allow, unless an exception struck, so that the
\* two ways to it end alike (TestStructSerialize.cs 212-213, 266-269).
THEOREM TextWhole == Spec => []TextIsWhole
<1>1. IInv => TextIsWhole
  BY DEF IInv
<1> QED BY <1>1, Invariance, PTL
=============================================================================
