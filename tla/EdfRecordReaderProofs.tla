----------------------- MODULE EdfRecordReaderProofs ------------------------
(***************************************************************************)
(* Records come out of the blocks as they went in, for every number of     *)
(* fields and every length of the file, while every block completes the    *)
(* record it starts with; and the types hold wherever the blocks end.      *)
(***************************************************************************)
EXTENDS EdfRecordReader, SequenceTheorems, TLAPS

-----------------------------------------------------------------------------
(* The inductive invariant *)

\* The fields of the records delivered, and those read of the record begun.
Base == Len(delivered) * Fields
Filled == (written - Len(src)) - Base

\* The first n fields of record r are those that follow the records delivered.
Has(r, n) == \A f \in 1 .. n : r[f] = Base + f

\* What is left of the block are the last fields written.
BlockOK == \A k \in 1 .. Len(src) : src[k] = (written - Len(src)) + k

\* The blocks of a chart hold whole points.
WholeBlocks == loop = "chart" => \E q \in Nat : written = q * Fields

\* Between two blocks the record begun is the only one in memory.
IdleOK ==
    pc = "idle" =>
        /\ src = <<>> /\ Filled \in 0 .. Fields - 1
        /\ loop = "chart" => Filled = 0
        /\ IF written = 0 THEN skip = 0 /\ mem = <<>>
           ELSE skip = -(1 + Filled) /\ Len(mem) = 1 /\ Has(mem[1], Filled)

\* EdfReadBin is entered for a new record, or at the start of a block for the
\* record begun, which this block completes.
EnterOK ==
    pc = "enter" =>
        /\ written # 0
        /\ \/ s = 0 /\ skip = 0 /\ mem = <<>> /\ Filled = 0
           \/ /\ skip = -(1 + Filled) /\ Filled \in 0 .. Fields - 1
              /\ Filled + Len(src) >= Fields /\ Len(mem) = 1
              /\ IF s = 0 THEN Filled = 0 ELSE s = 1 /\ Has(mem[1], Filled)

\* A record is read from its first field, or begun before: then its fields are
\* passed by while skip is below -1, and the block has all that are left.
FieldsOK ==
    pc = "fields" =>
        /\ written # 0 /\ s \in 1 .. Len(mem) /\ Has(mem[s], Filled)
        /\ \/ skip = field - 1 /\ Filled = field - 1 /\ Len(mem) = 1
           \/ /\ Filled + Len(src) >= Fields
              /\ \/ skip < 0 /\ skip = field - 2 - Filled /\ Filled < Fields /\ field <= Filled + 1
                 \/ skip >= 0 /\ skip < field - 1 /\ Filled = field - 1

\* The records delivered are those written.
AsWritten == \A n \in 1 .. Len(delivered) : delivered[n] = Record(n)

\* What holds while every block completes the record it starts with.
Tidy == AsWritten /\ BlockOK /\ WholeBlocks /\ IdleOK /\ EnterOK /\ FieldsOK

\* What holds wherever the blocks end: a record is entered with a skip that is
\* not positive, unless no memory is left for it, and skip counts no further than
\* the fields.
PlaceOK ==
    /\ pc # "fields" =>
         /\ Len(mem) < MemRecords \/ loop = "unpack" => skip <= 0
         /\ skip # 0 => mem # <<>>
    /\ pc = "enter" => IF loop = "chart" THEN s = 0 ELSE s = 0 => skip = 0
    /\ pc = "fields" => s # 0 /\ skip <= field - 1

IInv == TypeOK /\ PlaceOK /\ (completed => Tidy)

-----------------------------------------------------------------------------
(* Whole records *)

\* A number below Fields is what is left of a division by Fields.
LEMMA DivMod ==
    ASSUME NEW F \in Nat \ {0}, NEW q \in Nat, NEW r \in 0 .. F - 1
    PROVE  (q * F + r) \div F = q /\ (q * F + r) % F = r
OBVIOUS

\* A number divisible by F is a multiple of it.
LEMMA Divided ==
    ASSUME NEW F \in Nat \ {0}, NEW n \in Nat, n % F = 0
    PROVE  \E k \in Nat : n = k * F
<1>1. n \div F \in Nat /\ n = (F * (n \div F)) + (n % F)
  OBVIOUS
<1> QED BY <1>1

\* Products grow with their first factor.
LEMMA TimesMono ==
    ASSUME NEW F \in Nat, NEW a \in Nat, NEW b \in Nat, a <= b
    PROVE  a * F <= b * F
OBVIOUS

\* One record more.
LEMMA TimesNext ==
    ASSUME NEW F \in Nat, NEW a \in Nat
    PROVE  (a + 1) * F = a * F + F /\ a * F \in Nat
OBVIOUS

\* Whole records that differ by less than one are as many.
LEMMA SameRecords ==
    ASSUME NEW F \in Nat \ {0}, NEW a \in Nat, NEW b \in Nat,
           b * F - a * F \in 0 .. F - 1
    PROVE  b * F - a * F = 0
<1>1. CASE b <= a
  <2>1. b * F <= a * F
    BY <1>1, TimesMono
  <2>2. a * F \in Nat /\ b * F \in Nat
    BY TimesNext
  <2> QED BY <2>1, <2>2
<1>2. CASE ~(b <= a)
  <2>1. (a + 1) * F <= b * F
    BY <1>2, TimesMono
  <2>2. (a + 1) * F = a * F + F /\ a * F \in Nat /\ b * F \in Nat
    BY TimesNext
  <2> QED BY <2>1, <2>2
<1> QED BY <1>1, <1>2

\* The types of what the invariant speaks of.
LEMMA Numbers ==
    ASSUME TypeOK
    PROVE  /\ Base \in Nat /\ Filled \in Int /\ Len(src) \in Nat /\ Len(mem) \in Nat
           /\ written \in Nat /\ skip \in Int /\ field \in Nat \ {0} /\ Fields \in Nat \ {0}
           /\ written = Base + Filled + Len(src)
<1>1. Len(src) \in Nat /\ Len(mem) \in Nat /\ Len(delivered) \in Nat
  BY LenProperties DEF TypeOK
<1>2. written \in Nat /\ skip \in Int /\ field \in Nat \ {0} /\ Fields \in Nat \ {0}
  BY FieldsAssumption, MaxFieldsAssumption DEF TypeOK
<1>3. Base \in Nat
  BY <1>1, <1>2, TimesNext DEF Base
<1> HIDE DEF Base
<1>4. Filled \in Int /\ written = Base + Filled + Len(src)
  BY <1>1, <1>2, <1>3 DEF Filled
<1> QED BY <1>1, <1>2, <1>3, <1>4

-----------------------------------------------------------------------------
(* The steps, wherever the blocks end *)

\* EdfReadBlock hands over the next n fields.
LEMMA BlockPlaces ==
    ASSUME TypeOK, PlaceOK, NEW n \in 1 .. MaxFields, Block(n)
    PROVE  TypeOK' /\ PlaceOK'
<1>1. /\ pc = "idle" /\ written + n <= MaxFields
      /\ src' = [k \in 1 .. n |-> written + k] /\ written' = written + n
      /\ completed' = (completed /\ Completes(n))
      /\ s' = (IF loop = "unpack" /\ skip # 0 THEN 1 ELSE 0)
      /\ pc' = "enter" /\ UNCHANGED <<loop, mem, skip, field, delivered>>
  BY DEF Block
<1>2. /\ written \in Nat /\ n \in Nat \ {0} /\ MaxFields \in Nat /\ Len(mem) \in Nat
  BY MaxFieldsAssumption, Numbers DEF TypeOK
<1>3. src' \in Seq(1 .. MaxFields)
  <2>1. \A k \in 1 .. n : written + k \in 1 .. MaxFields
    BY <1>1, <1>2
  <2> QED BY <1>1, <1>2, <2>1
<1>4. s' \in 0 .. Len(mem')
  <2>1. skip # 0 => Len(mem) # 0
    BY <1>1, EmptySeq DEF PlaceOK, TypeOK
  <2> QED BY <1>1, <1>2, <2>1
<1>5. TypeOK'
  <2>1. completed' \in BOOLEAN
    BY <1>1 DEF TypeOK, Completes
  <2>2. written' \in 0 .. MaxFields
    BY <1>1, <1>2
  <2> QED BY <1>1, <1>3, <1>4, <2>1, <2>2 DEF TypeOK
<1>6. PlaceOK'
  <2>1. loop = "unpack" \/ loop = "chart"
    BY LoopsAssumption DEF TypeOK
  <2> QED BY <1>1, <2>1 DEF PlaceOK
<1> QED BY <1>5, <1>6

\* A record is allocated, or the caller has one.
LEMMA EnterPlaces ==
    ASSUME TypeOK, PlaceOK, Enter
    PROVE  TypeOK' /\ PlaceOK'
<1>1. /\ pc = "enter" /\ (s # 0 \/ Len(mem) < MemRecords) /\ field' = 1 /\ pc' = "fields"
      /\ IF s = 0 THEN mem' = Append(mem, Blank) /\ s' = Len(mem) + 1
                  ELSE mem' = mem /\ s' = s
      /\ UNCHANGED <<loop, written, src, skip, delivered, completed>>
  BY DEF Enter
<1>2. Len(mem) \in Nat /\ skip \in Int /\ Fields \in Nat \ {0} /\ (loop = "unpack" \/ loop = "chart")
  BY Numbers, LoopsAssumption DEF TypeOK
<1>3. mem' \in Seq([1 .. Fields -> 0 .. MaxFields]) /\ s' \in 1 .. Len(mem')
  <2>1. CASE s = 0
    <3>1. Blank \in [1 .. Fields -> 0 .. MaxFields]
      BY MaxFieldsAssumption DEF Blank
    <3>2. mem \in Seq([1 .. Fields -> 0 .. MaxFields]) /\ mem' = Append(mem, Blank)
      BY <1>1, <2>1 DEF TypeOK
    <3>3. mem' \in Seq([1 .. Fields -> 0 .. MaxFields]) /\ Len(mem') = Len(mem) + 1
      BY <3>1, <3>2, AppendProperties
    <3> QED BY <1>1, <1>2, <2>1, <3>3
  <2>2. CASE s # 0
    BY <1>1, <1>2, <2>2 DEF TypeOK
  <2> QED BY <2>1, <2>2
<1>4. TypeOK'
  <2>1. s' \in 0 .. Len(mem')
    BY <1>3, LenProperties
  <2>2. field' \in 1 .. Fields + 1
    BY <1>1, <1>2
  <2> QED BY <1>1, <1>3, <2>1, <2>2 DEF TypeOK
<1>5. PlaceOK'
  <2>1. skip <= 0
    BY <1>1, <1>2 DEF PlaceOK
  <2>2. s' # 0
    BY <1>3
  <2> QED BY <1>1, <1>2, <2>1, <2>2 DEF PlaceOK
<1> QED BY <1>4, <1>5

\* No record can be allocated.
LEMMA NoRoomPlaces ==
    ASSUME TypeOK, PlaceOK, NoRoom
    PROVE  TypeOK' /\ PlaceOK'
<1>1. /\ pc = "enter" /\ s = 0 /\ Len(mem) >= MemRecords
      /\ skip' = -skip /\ pc' = "idle"
      /\ UNCHANGED <<loop, written, src, mem, s, field, delivered, completed>>
  BY DEF NoRoom
<1>2. Len(mem) \in Nat /\ skip \in Int /\ Fields \in Nat \ {0} /\ skip \in -Fields .. Fields
  BY Numbers DEF TypeOK
<1>3. MemRecords \in Nat \ {0, 1}
  BY MemRecordsAssumption
<1>4. TypeOK'
  <2>1. skip' \in -Fields .. Fields
    BY <1>1, <1>2
  <2> QED BY <1>1, <2>1 DEF TypeOK
<1>5. PlaceOK'
  <2>1. mem # <<>>
    BY <1>1, <1>2, <1>3, EmptySeq
  <2>2. loop = "unpack" => skip' <= 0
    BY <1>1 DEF PlaceOK
  <2>3. ~ (Len(mem) < MemRecords)
    BY <1>1, <1>2, <1>3
  <2> QED BY <1>1, <2>1, <2>2, <2>3 DEF PlaceOK
<1> QED BY <1>4, <1>5

\* A field read before.
LEMMA PassFieldPlaces ==
    ASSUME TypeOK, PlaceOK, PassField
    PROVE  TypeOK' /\ PlaceOK'
<1>1. /\ pc = "fields" /\ field <= Fields /\ skip + 1 < 0
      /\ skip' = skip + 1 /\ field' = field + 1
      /\ UNCHANGED <<loop, written, src, mem, s, pc, delivered, completed>>
  BY DEF PassField
<1>2. /\ Fields \in Nat \ {0} /\ skip \in -Fields .. Fields /\ field \in 1 .. Fields + 1
      /\ s # 0 /\ skip <= field - 1
  BY <1>1, Numbers DEF TypeOK, PlaceOK
<1>3. skip' \in -Fields .. Fields /\ field' \in 1 .. Fields + 1 /\ skip' <= field' - 1
  BY <1>1, <1>2
<1>4. TypeOK'
  BY <1>1, <1>3 DEF TypeOK
<1> QED BY <1>1, <1>2, <1>3, <1>4 DEF PlaceOK

\* A field read, into whatever place.
LEMMA ReadFieldPlaces ==
    ASSUME TypeOK, PlaceOK, ReadField
    PROVE  TypeOK' /\ PlaceOK'
<1>1. /\ pc = "fields" /\ field <= Fields /\ skip + 1 >= 0 /\ src # <<>>
      /\ mem' = [mem EXCEPT ![s][field] = Head(src)] /\ src' = Tail(src)
      /\ skip' = skip + 1 /\ field' = field + 1
      /\ UNCHANGED <<loop, written, s, pc, delivered, completed>>
  BY DEF ReadField
<1>2. /\ Fields \in Nat \ {0} /\ skip \in -Fields .. Fields /\ field \in 1 .. Fields + 1
      /\ s \in 1 .. Len(mem) /\ skip <= field - 1
  <2>1. Len(mem) \in Nat /\ s \in 0 .. Len(mem) /\ s # 0
    BY <1>1, Numbers DEF TypeOK, PlaceOK
  <2> QED BY <1>1, <2>1, Numbers DEF TypeOK, PlaceOK
<1>3. src' \in Seq(1 .. MaxFields) /\ Head(src) \in 0 .. MaxFields
  <2>1. src \in Seq(1 .. MaxFields)
    BY DEF TypeOK
  <2>2. Len(src) # 0 /\ Len(src) \in Nat
    BY <1>1, <2>1, EmptySeq, LenProperties
  <2>3. src' \in Seq(1 .. MaxFields) /\ Head(src) = src[1]
    BY <1>1, <2>1, <2>2, HeadTailProperties
  <2>4. src[1] \in 1 .. MaxFields
    <3>1. 1 \in 1 .. Len(src)
      BY <2>2
    <3> QED BY <2>1, <3>1, ElementOfSeq
  <2> QED BY <2>3, <2>4
<1>4. mem' \in Seq([1 .. Fields -> 0 .. MaxFields]) /\ Len(mem') = Len(mem)
  <2>1. mem \in Seq([1 .. Fields -> 0 .. MaxFields])
    BY DEF TypeOK
  <2>2. mem[s] \in [1 .. Fields -> 0 .. MaxFields]
    BY <1>2, <2>1, ElementOfSeq
  <2> DEFINE rec == [mem[s] EXCEPT ![field] = Head(src)]
  <2>3. rec \in [1 .. Fields -> 0 .. MaxFields]
    BY <1>3, <2>2
  <2>4. mem' = [mem EXCEPT ![s] = rec]
    BY <1>1
  <2> HIDE DEF rec
  <2> QED BY <1>2, <2>1, <2>3, <2>4, ExceptSeq
<1>5. skip' \in -Fields .. Fields /\ field' \in 1 .. Fields + 1 /\ skip' <= field' - 1
  BY <1>1, <1>2
<1>6. TypeOK'
  <2>1. s' \in 0 .. Len(mem')
    BY <1>1, <1>4 DEF TypeOK
  <2> QED BY <1>1, <1>3, <1>4, <1>5, <2>1 DEF TypeOK
<1>7. PlaceOK'
  BY <1>1, <1>2, <1>5 DEF PlaceOK
<1> QED BY <1>6, <1>7

\* The block ends.
LEMMA ShortPlaces ==
    ASSUME TypeOK, PlaceOK, Short
    PROVE  TypeOK' /\ PlaceOK'
<1>1. /\ pc = "fields" /\ field <= Fields /\ skip + 1 >= 0 /\ src = <<>>
      /\ skip' = -(skip + 1) /\ pc' = "idle"
      /\ UNCHANGED <<loop, written, src, mem, s, field, delivered, completed>>
  BY DEF Short
<1>2. /\ Fields \in Nat \ {0} /\ skip \in -Fields .. Fields /\ field \in 1 .. Fields + 1
      /\ Len(mem) \in Nat /\ s \in 0 .. Len(mem) /\ s # 0 /\ skip <= field - 1
  BY <1>1, Numbers DEF TypeOK, PlaceOK
<1>3. skip' \in -Fields .. Fields /\ skip' <= 0
  BY <1>1, <1>2
<1>4. mem # <<>>
  <2>1. Len(mem) # 0
    BY <1>2
  <2> QED BY <2>1, EmptySeq
<1>5. TypeOK'
  BY <1>1, <1>3 DEF TypeOK
<1> QED BY <1>1, <1>3, <1>4, <1>5 DEF PlaceOK

\* A record is handed out, and its memory is free again.
LEMMA DeliverPlaces ==
    ASSUME TypeOK, PlaceOK, Deliver
    PROVE  TypeOK' /\ PlaceOK'
<1>1. /\ pc = "fields" /\ field > Fields
      /\ delivered' = Append(delivered, mem[s])
      /\ s' = 0 /\ skip' = 0 /\ mem' = <<>> /\ pc' = "enter"
      /\ UNCHANGED <<loop, written, src, field, completed>>
  BY DEF Deliver
<1>2. Fields \in Nat \ {0} /\ Len(mem) \in Nat /\ s \in 0 .. Len(mem) /\ s # 0
  BY <1>1, Numbers DEF TypeOK, PlaceOK
<1>3. delivered' \in Seq([1 .. Fields -> 0 .. MaxFields])
  <2>1. mem \in Seq([1 .. Fields -> 0 .. MaxFields]) /\ s \in 1 .. Len(mem)
    BY <1>2 DEF TypeOK
  <2>2. mem[s] \in [1 .. Fields -> 0 .. MaxFields]
    BY <2>1, ElementOfSeq
  <2>3. delivered \in Seq([1 .. Fields -> 0 .. MaxFields])
    BY DEF TypeOK
  <2> QED BY <1>1, <2>2, <2>3, AppendProperties
<1>4. TypeOK'
  <2>1. mem' \in Seq([1 .. Fields -> 0 .. MaxFields]) /\ s' \in 0 .. Len(mem')
    BY <1>1, EmptySeq
  <2>2. skip' \in -Fields .. Fields
    BY <1>1, <1>2
  <2> QED BY <1>1, <1>3, <2>1, <2>2 DEF TypeOK
<1>5. PlaceOK'
  BY <1>1 DEF PlaceOK
<1> QED BY <1>4, <1>5

-----------------------------------------------------------------------------
(* The steps, while every block completes the record it starts with *)

\* EdfReadBlock hands over the next n fields.
LEMMA BlockStep ==
    ASSUME TypeOK, Tidy, NEW n \in 1 .. MaxFields, Block(n), Completes(n)
    PROVE  Tidy'
<1> USE DEF Tidy
<1>0. /\ Base \in Nat /\ Filled \in Int /\ Len(src) \in Nat /\ Len(mem) \in Nat
      /\ written \in Nat /\ skip \in Int /\ field \in Nat \ {0} /\ Fields \in Nat \ {0}
      /\ written = Base + Filled + Len(src)
  BY Numbers
<1>1. /\ pc = "idle" /\ written + n <= MaxFields
      /\ src' = [k \in 1 .. n |-> written + k] /\ written' = written + n
      /\ s' = (IF loop = "unpack" /\ skip # 0 THEN 1 ELSE 0)
      /\ pc' = "enter" /\ UNCHANGED <<loop, mem, skip, field, delivered>>
  BY DEF Block
<1>2. n \in Nat \ {0} /\ n \in Nat
  BY MaxFieldsAssumption
<1>3. src = <<>> /\ Len(src) = 0 /\ Filled \in 0 .. Fields - 1 /\ (loop = "chart" => Filled = 0)
  BY <1>1, EmptySeq DEF IdleOK
<1>4. src' \in Seq(1 .. MaxFields) /\ Len(src') = n
  <2>1. \A k \in 1 .. n : written + k \in 1 .. MaxFields
    BY <1>0, <1>1, <1>2, MaxFieldsAssumption
  <2> QED BY <1>1, <1>2, <2>1
<1>5. Base' = Base /\ Filled' = Filled
  <2>1. Base' = Base
    BY <1>1 DEF Base
  <2>2. Filled' = (written + n) - n - Base
    BY <1>1, <1>4, <2>1 DEF Filled
  <2>3. Filled = written - Base
    BY <1>0, <1>3
  <2> QED BY <1>0, <1>2, <2>1, <2>2, <2>3
<1>6. AsWritten'
  BY <1>1 DEF AsWritten, Record
<1>7. BlockOK'
  BY <1>0, <1>1, <1>2, <1>4 DEF BlockOK
<1>8. written % Fields = Filled
  <2>1. written = Len(delivered) * Fields + Filled /\ Len(delivered) \in Nat
    BY <1>0, <1>3, LenProperties DEF Base, TypeOK
  <2>2. Fields \in Nat \ {0} /\ Filled \in 0 .. Fields - 1
    BY <1>0, <1>3
  <2>3. (Len(delivered) * Fields + Filled) % Fields = Filled
    BY <2>1, <2>2, DivMod
  <2> QED BY <2>1, <2>3
<1>9. WholeBlocks'
  <2>1. CASE loop = "chart"
    <3>1. n % Fields = 0
      BY <1>1, <2>1 DEF Completes
    <3>2. PICK k \in Nat : n = k * Fields
      BY <1>0, <1>2, <3>1, Divided
    <3>3. PICK q \in Nat : written = q * Fields
      BY <2>1 DEF WholeBlocks
    <3>4. written + n = (q + k) * Fields /\ q + k \in Nat
      BY <1>0, <3>2, <3>3
    <3> QED BY <1>1, <3>4 DEF WholeBlocks
  <2>2. CASE loop # "chart"
    BY <1>1, <2>2 DEF WholeBlocks
  <2> QED BY <2>1, <2>2
<1>10. Filled + n >= Fields \/ (written = 0 /\ loop = "unpack")
  <2>1. CASE loop = "chart"
    <3>1. n % Fields = 0 /\ Filled = 0
      BY <1>1, <1>3, <2>1 DEF Completes
    <3> QED BY <1>0, <1>2, <3>1
  <2>2. CASE loop = "unpack" /\ written # 0
    <3>1. Filled + n >= Fields
      BY <1>1, <1>8, <2>2 DEF Completes
    <3> QED BY <3>1
  <2>3. loop = "chart" \/ loop = "unpack"
    BY LoopsAssumption DEF TypeOK
  <2> QED BY <2>1, <2>2, <2>3
<1>11. EnterOK'
  <2>1. CASE written = 0
    <3>1. skip = 0 /\ mem = <<>> /\ Filled = 0
      BY <1>0, <1>1, <1>3, <2>1 DEF IdleOK
    <3> QED BY <1>0, <1>1, <1>2, <1>5, <3>1 DEF EnterOK
  <2>2. CASE written # 0
    <3>1. skip = -(1 + Filled) /\ Len(mem) = 1 /\ Has(mem[1], Filled)
      BY <1>1, <2>2 DEF IdleOK
    <3>2. Filled + n >= Fields
      BY <1>10, <2>2
    <3>3. skip # 0
      BY <1>0, <1>3, <3>1
    <3>4. IF s' = 0 THEN Filled' = 0 ELSE s' = 1 /\ Has(mem[1], Filled)'
      <4>1. loop = "chart" \/ loop = "unpack"
        BY LoopsAssumption DEF TypeOK
      <4> QED BY <1>1, <1>3, <1>5, <3>1, <3>3, <4>1 DEF Has
    <3> QED BY <1>0, <1>1, <1>2, <1>3, <1>4, <1>5, <3>1, <3>2, <3>4 DEF EnterOK
  <2> QED BY <2>1, <2>2
<1>12. IdleOK' /\ FieldsOK'
  BY <1>1 DEF IdleOK, FieldsOK
<1> QED BY <1>6, <1>7, <1>9, <1>11, <1>12

\* EdfReadBin is entered.
LEMMA EnterStep ==
    ASSUME TypeOK, Tidy, Enter
    PROVE  Tidy'
<1> USE DEF Tidy
<1>0. /\ Base \in Nat /\ Filled \in Int /\ Len(src) \in Nat /\ Len(mem) \in Nat
      /\ written \in Nat /\ skip \in Int /\ field \in Nat \ {0} /\ Fields \in Nat \ {0}
      /\ written = Base + Filled + Len(src)
  BY Numbers
<1>1. /\ pc = "enter" /\ field' = 1 /\ pc' = "fields"
      /\ IF s = 0 THEN mem' = Append(mem, Blank) /\ s' = Len(mem) + 1
                  ELSE mem' = mem /\ s' = s
      /\ UNCHANGED <<loop, written, src, skip, delivered>>
  BY DEF Enter
<1>2. Base' = Base /\ Filled' = Filled
  BY <1>1 DEF Base, Filled
<1>3. Blank \in [1 .. Fields -> 0 .. MaxFields]
  BY MaxFieldsAssumption DEF Blank
<1>4. /\ mem' \in Seq([1 .. Fields -> 0 .. MaxFields]) /\ s' \in 1 .. Len(mem')
      /\ s = 0 => Len(mem') = Len(mem) + 1
  <2>1. CASE s = 0
    <3>1. mem \in Seq([1 .. Fields -> 0 .. MaxFields]) /\ mem' = Append(mem, Blank)
      BY <1>1, <2>1 DEF TypeOK
    <3>2. mem' \in Seq([1 .. Fields -> 0 .. MaxFields]) /\ Len(mem') = Len(mem) + 1
      BY <1>3, <3>1, AppendProperties
    <3> QED BY <1>0, <1>1, <2>1, <3>2
  <2>2. CASE s # 0
    BY <1>0, <1>1, <2>2 DEF TypeOK
  <2> QED BY <2>1, <2>2
<1>5. AsWritten' /\ BlockOK' /\ WholeBlocks'
  BY <1>1 DEF AsWritten, Record, BlockOK, WholeBlocks
<1>6. FieldsOK'
  <2> written' # 0
    BY <1>1 DEF EnterOK
  <2>1. CASE s = 0 /\ skip = 0 /\ mem = <<>> /\ Filled = 0
    <3>1. Len(mem') = 1
      BY <1>4, <2>1, EmptySeq
    <3>2. Has(mem[s], Filled)'
      BY <1>2, <2>1 DEF Has
    <3> QED BY <1>0, <1>1, <1>2, <1>4, <2>1, <3>1, <3>2 DEF FieldsOK
  <2>2. CASE /\ skip = -(1 + Filled) /\ Filled \in 0 .. Fields - 1
             /\ Filled + Len(src) >= Fields /\ Len(mem) = 1
             /\ IF s = 0 THEN Filled = 0 ELSE s = 1 /\ Has(mem[1], Filled)
    <3>1. Has(mem[s], Filled)'
      <4>1. CASE s = 0
        BY <1>2, <2>2, <4>1 DEF Has
      <4>2. CASE s # 0
        BY <1>1, <1>2, <2>2, <4>2 DEF Has
      <4> QED BY <4>1, <4>2
    <3>2. /\ skip < 0 /\ skip = 1 - 2 - Filled /\ Filled < Fields /\ 1 <= Filled + 1
          /\ Filled + Len(src) >= Fields
      BY <1>0, <2>2
    <3> QED BY <1>1, <1>2, <1>4, <3>1, <3>2 DEF FieldsOK
  <2> QED BY <1>1, <2>1, <2>2 DEF EnterOK
<1>7. IdleOK' /\ EnterOK'
  BY <1>1 DEF IdleOK, EnterOK
<1> QED BY <1>5, <1>6, <1>7

\* A field that was read before is passed by.
LEMMA PassFieldStep ==
    ASSUME TypeOK, Tidy, PassField
    PROVE  Tidy'
<1> USE DEF Tidy
<1>0. /\ Base \in Nat /\ Filled \in Int /\ Len(src) \in Nat /\ Len(mem) \in Nat
      /\ written \in Nat /\ skip \in Int /\ field \in Nat \ {0} /\ Fields \in Nat \ {0}
      /\ written = Base + Filled + Len(src)
  BY Numbers
<1>1. /\ pc = "fields" /\ field <= Fields /\ skip + 1 < 0
      /\ skip' = skip + 1 /\ field' = field + 1
      /\ UNCHANGED <<loop, written, src, mem, s, pc, delivered>>
  BY DEF PassField
<1>2. Base' = Base /\ Filled' = Filled
  BY <1>1 DEF Base, Filled
<1>3. AsWritten' /\ BlockOK' /\ WholeBlocks'
  BY <1>1 DEF AsWritten, Record, BlockOK, WholeBlocks
<1>4. FieldsOK'
  <2> written' # 0
    BY <1>1 DEF FieldsOK
  <2>1. s \in 1 .. Len(mem) /\ Has(mem[s], Filled)
    BY <1>1 DEF FieldsOK
  <2>2. Has(mem[s], Filled)'
    BY <1>1, <1>2, <2>1 DEF Has
  <2>3. /\ Filled + Len(src) >= Fields
        /\ skip = field - 2 - Filled /\ Filled < Fields /\ field <= Filled + 1
    <3>1. field >= 1
      BY DEF TypeOK
    <3> QED BY <1>0, <1>1, <3>1 DEF FieldsOK
  <2>4. skip' < 0 /\ skip' = field' - 2 - Filled /\ field' <= Filled + 1
    BY <1>0, <1>1, <2>3
  <2> QED BY <1>1, <1>2, <2>1, <2>2, <2>3, <2>4 DEF FieldsOK
<1>5. IdleOK' /\ EnterOK'
  BY <1>1 DEF IdleOK, EnterOK
<1> QED BY <1>3, <1>4, <1>5

\* A field is read from the block.
LEMMA ReadFieldStep ==
    ASSUME TypeOK, Tidy, ReadField
    PROVE  Tidy'
<1> USE DEF Tidy
<1>0. /\ Base \in Nat /\ Filled \in Int /\ Len(src) \in Nat /\ Len(mem) \in Nat
      /\ written \in Nat /\ skip \in Int /\ field \in Nat \ {0} /\ Fields \in Nat \ {0}
      /\ written = Base + Filled + Len(src)
  BY Numbers
<1>1. /\ pc = "fields" /\ field <= Fields /\ skip + 1 >= 0 /\ src # <<>>
      /\ mem' = [mem EXCEPT ![s][field] = Head(src)] /\ src' = Tail(src)
      /\ skip' = skip + 1 /\ field' = field + 1
      /\ UNCHANGED <<loop, written, s, pc, delivered>>
  BY DEF ReadField
<1>2. /\ Len(src) # 0 /\ src' \in Seq(1 .. MaxFields) /\ Len(src') = Len(src) - 1
      /\ \A k \in 1 .. Len(src) - 1 : src'[k] = src[k + 1]
  <2>1. src \in Seq(1 .. MaxFields)
    BY DEF TypeOK
  <2>2. Len(src) # 0
    BY <1>1, <2>1, EmptySeq
  <2> QED BY <1>1, <2>1, <2>2, HeadTailProperties
<1>3. Base' = Base /\ Filled' = Filled + 1
  <2>1. Base' = Base
    BY <1>1 DEF Base
  <2>2. Filled' = (written - (Len(src) - 1)) - Base
    BY <1>1, <1>2, <2>1 DEF Filled
  <2> QED BY <1>0, <2>1, <2>2
<1>4. s \in 1 .. Len(mem) /\ Has(mem[s], Filled)
  BY <1>1 DEF FieldsOK
<1>5. /\ Filled = field - 1
      /\ \/ skip = field - 1 /\ Len(mem) = 1
         \/ skip < field - 1 /\ Filled + Len(src) >= Fields
  <2>1. \/ skip = field - 1 /\ Filled = field - 1 /\ Len(mem) = 1
        \/ skip < 0 /\ skip = field - 2 - Filled /\ Filled + Len(src) >= Fields
        \/ skip < field - 1 /\ Filled = field - 1 /\ Filled + Len(src) >= Fields
    BY <1>1 DEF FieldsOK
  <2>2. CASE skip < 0 /\ skip = field - 2 - Filled /\ Filled + Len(src) >= Fields
    <3>1. skip \in Int /\ skip + 1 >= 0 /\ skip < 0
      BY <1>0, <1>1, <2>2
    <3>2. skip = -1
      BY <3>1
    <3> QED BY <1>0, <2>2, <3>2
  <2> QED BY <2>1, <2>2
<1>6. Head(src) = Base + field /\ Head(src) \in 0 .. MaxFields
  <2>1. Head(src) = src[1] /\ src[1] \in 1 .. MaxFields
    <3>1. src \in Seq(1 .. MaxFields) /\ 1 \in 1 .. Len(src)
      BY <1>0, <1>2 DEF TypeOK
    <3>2. src[1] \in 1 .. MaxFields
      BY <3>1, ElementOfSeq
    <3> QED BY <3>1, <3>2
  <2>2. src[1] = (written - Len(src)) + 1
    BY <1>0, <1>2 DEF BlockOK
  <2> QED BY <1>0, <1>5, <2>1, <2>2, MaxFieldsAssumption
<1>7. /\ mem' \in Seq([1 .. Fields -> 0 .. MaxFields]) /\ Len(mem') = Len(mem)
      /\ mem'[s] = [mem[s] EXCEPT ![field] = Head(src)]
  <2>1. mem \in Seq([1 .. Fields -> 0 .. MaxFields])
    BY DEF TypeOK
  <2>2. mem[s] \in [1 .. Fields -> 0 .. MaxFields]
    BY <1>4, <2>1, ElementOfSeq
  <2>3. [mem[s] EXCEPT ![field] = Head(src)] \in [1 .. Fields -> 0 .. MaxFields]
    BY <1>6, <2>2
  <2> DEFINE r == [mem[s] EXCEPT ![field] = Head(src)]
  <2>4. mem' = [mem EXCEPT ![s] = r]
    BY <1>1
  <2> HIDE DEF r
  <2>5. r \in [1 .. Fields -> 0 .. MaxFields]
    BY <2>3 DEF r
  <2>6. /\ mem' \in Seq([1 .. Fields -> 0 .. MaxFields]) /\ Len(mem') = Len(mem)
        /\ mem'[s] = r
    BY <1>4, <2>1, <2>4, <2>5, ExceptSeq
  <2> QED BY <2>6 DEF r
<1>8. mem[s] \in [1 .. Fields -> 0 .. MaxFields] /\ field \in 1 .. Fields
  <2>1. mem \in Seq([1 .. Fields -> 0 .. MaxFields])
    BY DEF TypeOK
  <2>2. field >= 1
    BY DEF TypeOK
  <2> QED BY <1>0, <1>1, <1>4, <2>1, <2>2, ElementOfSeq
<1>9. AsWritten' /\ WholeBlocks'
  BY <1>1 DEF AsWritten, Record, WholeBlocks
<1>10. BlockOK'
  <2>1. ASSUME NEW k \in 1 .. Len(src')
        PROVE  src'[k] = (written - Len(src')) + k
    <3>1. k \in 1 .. Len(src) - 1 /\ k + 1 \in 1 .. Len(src)
      BY <1>0, <1>2
    <3>2. src'[k] = (written - Len(src)) + (k + 1)
      BY <1>2, <3>1 DEF BlockOK
    <3> QED BY <1>0, <1>2, <3>1, <3>2
  <2> QED BY <1>1, <2>1 DEF BlockOK
<1>11. FieldsOK'
  <2> written' # 0
    BY <1>1 DEF FieldsOK
  <2>1. Has(mem[s], Filled)'
    <3>1. ASSUME NEW f \in 1 .. Filled + 1
          PROVE  mem'[s][f] = Base + f
      <4>1. f \in 1 .. Fields
        BY <1>0, <1>5, <1>8
      <4>2. CASE f = field
        BY <1>6, <1>7, <1>8, <4>2
      <4>3. CASE f # field
        <5>1. mem'[s][f] = mem[s][f]
          BY <1>7, <1>8, <4>1, <4>3
        <5>2. f \in 1 .. Filled
          BY <1>0, <1>5, <4>3
        <5> QED BY <1>4, <5>1, <5>2 DEF Has
      <4> QED BY <4>2, <4>3
    <3> QED BY <1>1, <1>3, <3>1 DEF Has
  <2>2. CASE skip = field - 1 /\ Len(mem) = 1
    <3>1. skip' = field' - 1 /\ Filled' = field' - 1 /\ Len(mem') = 1
      BY <1>0, <1>1, <1>3, <1>5, <1>7, <2>2
    <3> QED BY <1>1, <1>4, <1>7, <2>1, <3>1 DEF FieldsOK
  <2>3. CASE ~(skip = field - 1 /\ Len(mem) = 1)
    <3>1. Filled + Len(src) >= Fields /\ skip < field - 1
      BY <1>5, <2>3
    <3>2. /\ skip + 1 >= 0 /\ skip' = skip + 1 /\ field' = field + 1
          /\ Len(src') = Len(src) - 1 /\ Filled' = Filled + 1 /\ Filled = field - 1
      BY <1>1, <1>2, <1>3, <1>5
    <3>3. /\ Filled' + Len(src') >= Fields /\ skip' >= 0 /\ skip' < field' - 1
          /\ Filled' = field' - 1
      BY <1>0, <3>1, <3>2
    <3> QED BY <1>1, <1>4, <1>7, <2>1, <3>3 DEF FieldsOK
  <2> QED BY <2>2, <2>3
<1>12. IdleOK' /\ EnterOK'
  BY <1>1 DEF IdleOK, EnterOK
<1> QED BY <1>9, <1>10, <1>11, <1>12

\* The block ends: only a record that was read from its first field can be
\* short, and in a chart it has no field yet.
LEMMA ShortStep ==
    ASSUME TypeOK, Tidy, Short
    PROVE  Tidy'
<1> USE DEF Tidy
<1>0. /\ Base \in Nat /\ Filled \in Int /\ Len(src) \in Nat /\ Len(mem) \in Nat
      /\ written \in Nat /\ skip \in Int /\ field \in Nat \ {0} /\ Fields \in Nat \ {0}
      /\ written = Base + Filled + Len(src)
  BY Numbers
<1>1. /\ pc = "fields" /\ field <= Fields /\ skip + 1 >= 0 /\ src = <<>>
      /\ skip' = -(skip + 1) /\ pc' = "idle"
      /\ UNCHANGED <<loop, written, src, mem, s, field, delivered>>
  BY DEF Short
<1>2. Base' = Base /\ Filled' = Filled
  BY <1>1 DEF Base, Filled
<1>3. Len(src) = 0 /\ field >= 1
  BY <1>1, EmptySeq DEF TypeOK
<1>4. s \in 1 .. Len(mem) /\ Has(mem[s], Filled)
  BY <1>1 DEF FieldsOK
<1>5. skip = field - 1 /\ Filled = field - 1 /\ Len(mem) = 1
  BY <1>0, <1>1, <1>3 DEF FieldsOK
<1>6. Filled \in 0 .. Fields - 1 /\ skip' = -(1 + Filled)
  BY <1>0, <1>1, <1>3, <1>5
<1>7. AsWritten' /\ BlockOK' /\ WholeBlocks'
  BY <1>1 DEF AsWritten, Record, BlockOK, WholeBlocks
<1>8. ASSUME loop = "chart"
      PROVE  Filled = 0
  <2>1. PICK q \in Nat : written = q * Fields
    BY <1>8 DEF WholeBlocks
  <2>2. Len(delivered) \in Nat /\ q * Fields - Len(delivered) * Fields = Filled
    <3>1. Len(delivered) \in Nat
      BY LenProperties DEF TypeOK
    <3>2. q * Fields - Base = Filled
      BY <1>0, <1>3, <2>1
    <3> QED BY <3>1, <3>2 DEF Base
  <2>3. q * Fields - Len(delivered) * Fields \in 0 .. Fields - 1 /\ Fields \in Nat \ {0}
    BY <1>0, <1>6, <2>2
  <2>4. q * Fields - Len(delivered) * Fields = 0
    BY <2>2, <2>3, SameRecords
  <2> QED BY <2>2, <2>4
<1>9. IF written = 0 THEN skip' = 0 /\ mem = <<>>
       ELSE skip' = -(1 + Filled) /\ Len(mem) = 1 /\ Has(mem[1], Filled)
  <2>1. s = 1 /\ written # 0
    BY <1>1, <1>4, <1>5 DEF FieldsOK
  <2> QED BY <1>4, <1>5, <1>6, <2>1
<1>10. IdleOK'
  BY <1>1, <1>2, <1>6, <1>8, <1>9 DEF IdleOK, Has
<1>11. EnterOK' /\ FieldsOK'
  BY <1>1 DEF EnterOK, FieldsOK
<1> QED BY <1>7, <1>10, <1>11

\* A record is complete: its fields are those that follow the records delivered.
LEMMA DeliverStep ==
    ASSUME TypeOK, Tidy, Deliver
    PROVE  Tidy'
<1> USE DEF Tidy
<1>0. /\ Base \in Nat /\ Filled \in Int /\ Len(src) \in Nat /\ Len(mem) \in Nat
      /\ written \in Nat /\ skip \in Int /\ field \in Nat \ {0} /\ Fields \in Nat \ {0}
      /\ written = Base + Filled + Len(src)
  BY Numbers
<1>1. /\ pc = "fields" /\ field > Fields
      /\ delivered' = Append(delivered, mem[s])
      /\ s' = 0 /\ skip' = 0 /\ mem' = <<>> /\ pc' = "enter"
      /\ UNCHANGED <<loop, written, src, field>>
  BY DEF Deliver
<1>2. written # 0 /\ s \in 1 .. Len(mem) /\ Has(mem[s], Filled)
  BY <1>1 DEF FieldsOK
<1>3. Filled = Fields
  <2>1. \/ Filled = field - 1
        \/ Filled < Fields /\ field <= Filled + 1
    BY <1>1 DEF FieldsOK
  <2>2. field = Fields + 1
    BY <1>0, <1>1 DEF TypeOK
  <2> QED BY <1>0, <2>1, <2>2
<1>4. mem[s] \in [1 .. Fields -> 0 .. MaxFields]
  <2>1. mem \in Seq([1 .. Fields -> 0 .. MaxFields])
    BY DEF TypeOK
  <2> QED BY <1>2, <2>1, ElementOfSeq
<1>5. /\ delivered \in Seq([1 .. Fields -> 0 .. MaxFields]) /\ Len(delivered) \in Nat
      /\ delivered' \in Seq([1 .. Fields -> 0 .. MaxFields])
      /\ Len(delivered') = Len(delivered) + 1
      /\ \A n \in 1 .. Len(delivered) : delivered'[n] = delivered[n]
      /\ delivered'[Len(delivered) + 1] = mem[s]
  <2>1. delivered \in Seq([1 .. Fields -> 0 .. MaxFields])
    BY DEF TypeOK
  <2>2. delivered' = Append(delivered, mem[s])
    BY <1>1
  <2> QED BY <1>4, <2>1, <2>2, AppendProperties, LenProperties
<1>6. Base' = Base + Fields /\ Filled' = 0
  <2>1. Base' = (Len(delivered) + 1) * Fields
    BY <1>1, <1>5 DEF Base
  <2>2. (Len(delivered) + 1) * Fields = Len(delivered) * Fields + Fields
    BY <1>0, <1>5, TimesNext
  <2>3. Base' = Base + Fields
    BY <2>1, <2>2 DEF Base
  <2>4. Filled' = (written - Len(src)) - Base'
    BY <1>1 DEF Filled
  <2> QED BY <1>0, <1>3, <2>3, <2>4
<1>7. mem[s] = Record(Len(delivered) + 1)
  <2>1. \A f \in 1 .. Fields : mem[s][f] = Len(delivered) * Fields + f
    BY <1>2, <1>3 DEF Has, Base
  <2>2. (Len(delivered) + 1) - 1 = Len(delivered)
    BY <1>5
  <2> QED BY <1>4, <2>1, <2>2 DEF Record
<1>8. AsWritten'
  <2>1. ASSUME NEW n \in 1 .. Len(delivered')
        PROVE  delivered'[n] = Record(n)
    <3>1. n \in 1 .. Len(delivered) \/ n = Len(delivered) + 1
      BY <1>5
    <3> QED BY <1>5, <1>7, <3>1 DEF AsWritten
  <2> QED BY <2>1 DEF AsWritten, Record
<1>9. BlockOK' /\ WholeBlocks'
  BY <1>1 DEF BlockOK, WholeBlocks
<1>10. IdleOK' /\ EnterOK' /\ FieldsOK'
  BY <1>1, <1>2, <1>6 DEF IdleOK, EnterOK, FieldsOK
<1> QED BY <1>8, <1>9, <1>10

-----------------------------------------------------------------------------
(* The theorems *)

\* A file without blocks has no field.
LEMMA InitHolds == Init => IInv
<1> SUFFICES ASSUME Init
             PROVE  IInv
  OBVIOUS
<1>1. /\ loop \in Loops /\ written = 0 /\ src = <<>> /\ mem = <<>> /\ s = 0
      /\ skip = 0 /\ field = 1 /\ pc = "idle" /\ delivered = <<>>
      /\ completed = TRUE
  BY DEF Init
<1>2. Len(src) = 0 /\ Len(mem) = 0 /\ Len(delivered) = 0 /\ Fields \in Nat \ {0}
  BY <1>1, EmptySeq, FieldsAssumption
<1>3. TypeOK
  <2>1. /\ src \in Seq(1 .. MaxFields) /\ mem \in Seq([1 .. Fields -> 0 .. MaxFields])
        /\ delivered \in Seq([1 .. Fields -> 0 .. MaxFields])
    BY <1>1, EmptySeq
  <2>2. /\ written \in 0 .. MaxFields /\ s \in 0 .. Len(mem) /\ skip \in -Fields .. Fields
        /\ field \in 1 .. Fields + 1
    BY <1>1, <1>2, MaxFieldsAssumption
  <2> QED BY <1>1, <2>1, <2>2 DEF TypeOK
<1>4. AsWritten /\ BlockOK
  BY <1>2 DEF AsWritten, BlockOK
<1>5. Filled = 0
  BY <1>1, <1>2 DEF Filled, Base
<1>6. WholeBlocks
  BY <1>1, <1>2 DEF WholeBlocks
<1>7. IdleOK /\ EnterOK /\ FieldsOK
  BY <1>1, <1>2, <1>5 DEF IdleOK, EnterOK, FieldsOK
<1>8. PlaceOK
  BY <1>1 DEF PlaceOK
<1> QED BY <1>3, <1>4, <1>6, <1>7, <1>8 DEF IInv, Tidy

\* Nothing the invariant speaks of changes without a step.
LEMMA StutterStep ==
    ASSUME IInv, UNCHANGED vars
    PROVE  IInv'
  BY DEF IInv, vars, TypeOK, PlaceOK, Tidy, AsWritten, Record, BlockOK, WholeBlocks,
         IdleOK, EnterOK, FieldsOK, Has, Filled, Base

\* Where a record is entered while blocks complete them, there is memory for it.
LEMMA NoRoomStep ==
    ASSUME TypeOK, Tidy, NoRoom
    PROVE  FALSE
<1>1. pc = "enter" /\ Len(mem) >= MemRecords
  BY DEF NoRoom
<1>2. mem = <<>> \/ Len(mem) = 1
  BY <1>1 DEF Tidy, EnterOK
<1>3. MemRecords \in Nat /\ MemRecords > 1 /\ Len(<<>>) = 0
  BY EmptySeq, MemRecordsAssumption
<1>4. CASE mem = <<>>
  BY <1>1, <1>3, <1>4
<1>5. CASE Len(mem) = 1
  BY <1>1, <1>3, <1>5
<1> QED BY <1>2, <1>4, <1>5

\* A step keeps the types, and the records tidy if no block leaves one unfinished.
LEMMA NextStep ==
    ASSUME IInv, Next
    PROVE  IInv'
<1>1. TypeOK /\ PlaceOK /\ (completed => Tidy)
  BY DEF IInv
<1>2. CASE \E n \in 1 .. MaxFields : Block(n)
  <2>1. PICK n \in 1 .. MaxFields : Block(n)
    BY <1>2
  <2>2. completed' => completed /\ Completes(n)
    BY <2>1 DEF Block
  <2>3. completed' => Tidy'
    BY <1>1, <2>1, <2>2, BlockStep
  <2> QED BY <1>1, <2>1, <2>3, BlockPlaces DEF IInv
<1>3. CASE Enter
  <2>1. completed' = completed
    BY <1>3 DEF Enter
  <2> QED BY <1>1, <1>3, <2>1, EnterPlaces, EnterStep DEF IInv
<1>4. CASE NoRoom
  <2>1. completed' = completed
    BY <1>4 DEF NoRoom
  <2> QED BY <1>1, <1>4, <2>1, NoRoomPlaces, NoRoomStep DEF IInv
<1>5. CASE PassField
  <2>1. completed' = completed
    BY <1>5 DEF PassField
  <2> QED BY <1>1, <1>5, <2>1, PassFieldPlaces, PassFieldStep DEF IInv
<1>6. CASE ReadField
  <2>1. completed' = completed
    BY <1>6 DEF ReadField
  <2> QED BY <1>1, <1>6, <2>1, ReadFieldPlaces, ReadFieldStep DEF IInv
<1>7. CASE Short
  <2>1. completed' = completed
    BY <1>7 DEF Short
  <2> QED BY <1>1, <1>7, <2>1, ShortPlaces, ShortStep DEF IInv
<1>8. CASE Deliver
  <2>1. completed' = completed
    BY <1>8 DEF Deliver
  <2> QED BY <1>1, <1>8, <2>1, DeliverPlaces, DeliverStep DEF IInv
<1> QED BY <1>2, <1>3, <1>4, <1>5, <1>6, <1>7, <1>8 DEF Next, Run

\* The invariant of the record reader, for both loops.
THEOREM Invariance == Spec => []IInv
<1>1. IInv /\ [Next]_vars => IInv'
  BY NextStep, StutterStep
<1> QED BY InitHolds, <1>1, PTL DEF Spec

\* The variables of the record reader keep their types, wherever the blocks end:
\* skip never counts past the fields of a record, in either direction.
THEOREM TypeCorrect == Spec => []TypeOK
<1>1. IInv => TypeOK
  BY DEF IInv
<1> QED BY Invariance, <1>1, PTL

\* EdfReadBin and its loops deliver the records as they were written, in every
\* file whose blocks each complete the record they start with (the first one need
\* not) and, for the charts, hold whole points.
THEOREM RecordsComeBack == Spec => []RecordsAsWritten
<1>1. IInv => RecordsAsWritten
  BY DEF IInv, Tidy, AsWritten, RecordsAsWritten
<1> QED BY Invariance, <1>1, PTL

\* In these files skip tells between two blocks the field that the next one
\* starts with.
THEOREM SkipIsThePlace == Spec => []SkipTellsNextField
<1>1. IInv => SkipTellsNextField
  <2> SUFFICES ASSUME IInv, completed, pc = "idle", written > 0
               PROVE  /\ Len(delivered) = written \div Fields
                      /\ skip = -(1 + (written % Fields))
    BY DEF SkipTellsNextField
  <2>1. /\ Base \in Nat /\ Filled \in Int /\ written \in Nat /\ Fields \in Nat \ {0}
        /\ written = Base + Filled + Len(src)
    BY Numbers DEF IInv
  <2>2. src = <<>> /\ Filled \in 0 .. Fields - 1 /\ skip = -(1 + Filled)
    BY <2>1 DEF IInv, Tidy, IdleOK
  <2>3. Len(delivered) \in Nat
    BY LenProperties DEF IInv, TypeOK
  <2>4. written = Len(delivered) * Fields + Filled
    BY <2>1, <2>2, EmptySeq DEF Base
  <2>5. /\ (Len(delivered) * Fields + Filled) \div Fields = Len(delivered)
        /\ (Len(delivered) * Fields + Filled) % Fields = Filled
    BY <2>1, <2>2, <2>3, DivMod
  <2> QED BY <2>2, <2>4, <2>5
<1> QED BY Invariance, <1>1, PTL
=============================================================================
