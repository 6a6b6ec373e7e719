------------------------ MODULE EdfConvertersProofs -------------------------
(***************************************************************************)
(* A research comes back from its file, for every research of the three    *)
(* formats, every size of a block, of the arrays and of bDst, and whatever *)
(* the edits make of the file between the two conversions.                 *)
(*                                                                         *)
(* The invariant has two halves.  Writing: the blocks before next are the  *)
(* variables in the order of NamesOf, and behind them the first points of  *)
(* the chart, however PutUnits cuts them.  HasRead: the file is of the     *)
(* shape that an edit leaves (FileIs: where the descriptions are, which    *)
(* blocks are the chart's, and that their units are those of the chart),   *)
(* and the reader has made of the blocks before its cursor what XFromEdf   *)
(* should (ReaderIs).  FileIs says for each edit no more than what holds   *)
(* after it: the conjuncts name the edits they leave out.                  *)
(***************************************************************************)
EXTENDS EdfConverters, SequenceProofs

(***************************************************************************)
(* The invariant                                                           *)
(***************************************************************************)

Names == ToSet(NamesOf(fmt))
N == Len(NamesOf(fmt))
Header == [k |-> "header"]

\* What may be in a block of a chart, and in a block of the file.
Unit == IF fmt = "dyn" THEN [x : Int, y : Int] ELSE Int
Value == {Written(n) : n \in Names} \cup {0} \cup Seq(Unit)
Entry == {Header} \cup [k : {"info"}, n : Names \cup {Chart[fmt], "unknown", "refused"}] \cup [k : {"data"}, v : Value]

\* The units of the j blocks of f behind the one at c.
UnitsAt(f, k) == f[k].v
Got(f, c, j) == FlattenSeq([i \in 1 .. j |-> UnitsAt(f, c + i)])
HaveUnits(f, c, j) == \A i \in 1 .. j : UnitsAt(f, c + i) \in Seq(Unit)
SameUnits(f, c, g, b, j) == \A i \in 1 .. j : UnitsAt(f, c + i) = UnitsAt(g, b + i)

ChartBlocks(f, b, e) == \A k \in b + 1 .. e : f[k].k = "data" /\ UnitsAt(f, k) \in Seq(Unit)

\* u begins with the units of the first m points of the chart.
PerPoint == IF fmt = "dat" THEN RecItems ELSE 1
UnitsOf(u, k) ==
    CASE fmt = "dat" -> \A i \in 1 .. RecItems : u[RecItems * (k - 1) + i] = src.chart[k][i]
      [] fmt = "dyn" ->
            /\ u[k].x = (IF k = 1 THEN 0 ELSE u[k - 1].x) + Travel(src.chart[k])
            /\ u[k].y = src.chart[k][2] * src.vars["LoadStep"]
      [] fmt = "echo" -> u[k] = EchoPoint(src.chart[k])[1]
IsUnits(u, m) ==
    /\ u \in Seq(Unit) /\ Len(u) >= PerPoint * m
    /\ \A k \in 1 .. m : UnitsOf(u, k)

\* The reader's variables before it reads.
First(n) == IF n = "FileTypeId" THEN FileType[fmt] ELSE 0
NotRead ==
    /\ cursor = 0 /\ t = "NULL" /\ mem = 0 /\ dat = [n \in Names |-> First(n)]
    /\ data = <<>> /\ part = <<>> /\ last = 0 /\ head = [written |-> FALSE] /\ code = 0

\* The variables that XToEdf has written, and the points of the chart.
VarsWritten ==
    /\ file \in Seq(Entry) /\ Len(file) >= 1 /\ file[1] = Header
    /\ next <= N => Len(file) = 2 * next - 1
    /\ next > N => Len(file) >= 2 * N + 2
    /\ \A j \in 1 .. N : j < next =>
          file[2 * j] = Info(NamesOf(fmt)[j]) /\ file[2 * j + 1] = Data(Written(NamesOf(fmt)[j]))
\* Behind them the chart: the first m points, up to x.
ChartIs(f, m, x) ==
    /\ f[2 * N + 2] = Info(Chart[fmt])
    /\ ChartBlocks(f, 2 * N + 2, Len(f))
    /\ \E u : /\ u = Got(f, 2 * N + 2, Len(f) - (2 * N + 2))
              /\ IsUnits(u, m) /\ Len(u) = PerPoint * m
              /\ fmt = "dyn" => x = IF m = 0 THEN 0 ELSE u[m].x
ChartWritten == next > N => \E m \in Nat : next = N + 1 + m /\ ChartIs(file, m, px)
Writing ==
    phase = "write" =>
        /\ edit = "none" /\ next \in 1 .. N + Len(src.chart) + 1 /\ (next <= N => px = 0)
        /\ VarsWritten /\ ChartWritten /\ NotRead

-----------------------------------------------------------------------------
(* The file that is read: the chart's description would be at c, and its   *)
(* last block at e, had no end been torn off; u are the units.             *)

InfoAt(f, k) == \E n \in Names \cup {"unknown", "refused"} : f[k] = Info(n)
ValueAt(f, k) ==
    /\ k > 1 /\ InfoAt(f, k - 1) /\ f[k].k = "data"
    /\ \A n \in Names : f[k - 1] = Info(n) => f[k].v = Written(n)

Shape(f, c, e) ==
    /\ f \in Seq(Entry) /\ c \in Nat /\ e \in Nat /\ 2 <= c /\ c <= e
    /\ \A k \in 1 .. Len(f) :
          /\ k = 1 => f[k] = Header
          /\ k = c => f[k] = Info(Chart[fmt])
          /\ k \in c + 1 .. e => f[k].k = "data" /\ UnitsAt(f, k) \in Seq(Unit)
          /\ k # 1 /\ k \notin c .. e => InfoAt(f, k) \/ ValueAt(f, k)
    /\ \A k \in 1 .. Len(f) - 1 : InfoAt(f, k) => f[k + 1].k = "data"

\* Where the edits leave the variables.
InOrder(d) == d \notin {"drop", "move"}
Ordered(f, d, c, sh) ==
    InOrder(d) => \A i \in 1 .. N :
        /\ 2 * i + sh + 1 < c
        /\ 2 * i + sh <= Len(f) =>
              \/ f[2 * i + sh] = Info(NamesOf(fmt)[i])
              \/ d = "refuse" /\ f[2 * i + sh] = Info("refused")
Only(f, d, sh) ==
    d \notin {"drop", "move", "copy"} =>
        \A i \in 1 .. N : \A k \in 1 .. Len(f) : f[k] = Info(NamesOf(fmt)[i]) => k = 2 * i + sh
Once(f, d) ==
    d # "copy" => \A n \in Names : \A j, k \in 1 .. Len(f) :
        f[j] = Info(n) /\ f[k] = Info(n) => j = k
OnlyRefused(f, d) == d # "refuse" => \A k \in 1 .. Len(f) : f[k] # Info("refused")

\* The units are those of the chart, up to where the end is torn off.
UnitsIn(f, c, e, u) ==
    /\ IsUnits(u, Len(src.chart))
    /\ \A j \in 0 .. e - c : c + j <= Len(f) => Begins(Got(f, c, j), u)
Complete(f, d, c, e, u) ==
    d # "tear" => /\ e <= Len(f) /\ Got(f, c, e - c) = u
                     /\ \A k \in 1 .. Len(f) : InfoAt(f, k) => k < Len(f)
All(f, d) ==
    d \notin {"tear", "drop", "refuse"} => \A n \in Names : \E k \in 1 .. Len(f) : f[k] = Info(n)

FileIs(f, d, c, e, sh, u) ==
    /\ Shape(f, c, e) /\ sh \in {0, 2} /\ Ordered(f, d, c, sh) /\ Only(f, d, sh) /\ Once(f, d)
    /\ OnlyRefused(f, d) /\ UnitsIn(f, c, e, u) /\ Complete(f, d, c, e, u) /\ All(f, d)

-----------------------------------------------------------------------------
(* What the reader has made of the blocks before the cursor.               *)

TypeFrom(n) == IF n = "refused" THEN "NULL" ELSE n
TypeIs(c, e) ==
    /\ cursor \in c .. e => t = Chart[fmt]
    /\ cursor >= 1 /\ InfoAt(file, cursor) => t = TypeFrom(file[cursor].n)
NoneRefused == \A k \in 1 .. cursor - 1 : file[k] # Info("refused")

MemOf(n) == IF Seen(n) THEN MemNeed(n) ELSE 0
MemIs ==
    /\ fmt # "dat" => mem \in 0 .. 3 /\ (cursor >= 1 /\ InfoAt(file, cursor) => mem = 0)
    /\ fmt = "dat" /\ edit # "copy" => mem = MemOf("Position") + MemOf("DevInfo") + MemOf("RegInfo")

\* Variables that need others before they can be read.
Special == Positions \cup {"Level"}
Keeps(n) == IF n = "Discrete" THEN {DiscreteBit(src.vars["Level"])} ELSE Kept(n)
DatIs ==
    /\ dat = [n \in Names |-> dat[n]]
    /\ \A n \in Names \ Special : dat[n] \in IF Seen(n) THEN Keeps(n) ELSE {First(n)}
SpecialIs(sh) ==
    InOrder(edit) => \A i \in 1 .. N :
        NamesOf(fmt)[i] \in Special /\ cursor >= 2 * i + sh + 1 =>
            dat[NamesOf(fmt)[i]] \in Keeps(NamesOf(fmt)[i])
StepNotZero == fmt = "dyn" /\ Seen("MaxWeight") => src.vars["LoadStep"] # 0

\* The units read, and what is kept of them.
ReadUnits(c, e) ==
    IF cursor <= c THEN <<>> ELSE Got(file, c, (IF cursor < e THEN cursor ELSE e) - c)
RecordsIs(r) ==
    /\ data \in Seq([1 .. RecItems -> Int]) /\ part \in Seq(Unit) /\ Len(part) < RecItems
    /\ Len(r) = RecItems * Len(data) + Len(part)
    /\ \A k \in 1 .. Len(data) : \A i \in 1 .. RecItems : data[k][i] = r[RecItems * (k - 1) + i]
    /\ \A i \in 1 .. Len(part) : part[i] = r[RecItems * Len(data) + i]
PointsIs(r) ==
    /\ data \in Seq(IF fmt = "dyn" THEN Int \X Int ELSE Int) /\ part = <<>> /\ last \in Int
    /\ Len(data) = IF Len(r) <= ArrayLen + 1 THEN Len(r) ELSE ArrayLen + 1
    /\ \A k \in 1 .. Len(data) : k <= Len(src.chart) /\ (InOrder(edit) \/ fmt # "dyn") =>
          data[k] = Back(src.chart[k])
    /\ fmt = "dyn" => last = IF Len(data) = 0 THEN 0 ELSE r[Len(data)].x
DataIs(r) == IF fmt = "dat" THEN RecordsIs(r) ELSE PointsIs(r)

Restores ==
    edit \in {"none", "unknown", "copy", "more"} \/ (fmt = "dat" /\ edit = "move")
HeadIs(c, e) ==
    /\ head.written \in BOOLEAN
    /\ fmt = "dat" => (head.written <=> cursor > c /\ e > c)
    /\ fmt # "dat" /\ head.written => phase = "done"
    /\ head.written /\ Restores =>
          \A n \in DOMAIN src.vars : head.vars[n] \in (IF Late(n) THEN {0, FileType[fmt]} ELSE Kept(n))
    /\ phase = "done" /\ code = 0 /\ head.written /\ edit # "tear" => cursor >= e

ReaderIs(c, e, sh) ==
    /\ cursor \in 0 .. Len(file)
    /\ TypeIs(c, e) /\ NoneRefused /\ MemIs /\ mem \in 0 .. MemCap
    /\ DatIs /\ SpecialIs(sh) /\ StepNotZero
    /\ DataIs(ReadUnits(c, e)) /\ HeadIs(c, e)
    /\ code \in {-1, 0, 1} /\ (phase # "done" => code = 0) /\ CrashesOnlyFor /\ CodeTells

HasRead == phase # "write" => \E c, e, sh, u : FileIs(file, edit, c, e, sh, u) /\ ReaderIs(c, e, sh)

Inv ==
    /\ fmt \in Formats /\ src \in Sources[fmt] /\ phase \in {"write", "read", "done", "crash"}
    /\ next \in Nat \ {0} /\ px \in Int /\ edit \in AllEdits
    /\ Writing /\ HasRead

-----------------------------------------------------------------------------
(* Numbers *)

\* A number below the modulus is its own remainder.
LEMMA ModSmall ==
    ASSUME NEW a \in Nat, NEW b \in Nat \ {0}, a < b
    PROVE  a % b = a
OBVIOUS

\* What is the nearest whole number.
LEMMA NearestIs ==
    ASSUME NEW a \in Nat, NEW b \in Nat \ {0}
    PROVE  /\ Nearest(a, b) \in Nat
           /\ 2 * (b * Nearest(a, b)) <= 2 * a + b /\ 2 * a <= 2 * (b * Nearest(a, b)) + b
<1> DEFINE q == a \div b
           r == a % b
<1>1. q \in Nat /\ r \in 0 .. b - 1 /\ a = b * q + r
  OBVIOUS
<1> HIDE DEF q, r
<1>2. b * (q + 1) = b * q + b
  BY <1>1
<1>3. b * q \in Nat
  BY <1>1
<1>4. CASE Nearest(a, b) = q + 1 /\ 2 * r >= b
  BY <1>1, <1>2, <1>3, <1>4
<1>5. CASE Nearest(a, b) = q /\ 2 * r <= b
  BY <1>1, <1>3, <1>5
<1>6. \/ Nearest(a, b) = q + 1 /\ 2 * r >= b
      \/ Nearest(a, b) = q /\ 2 * r <= b
  BY <1>1 DEF Nearest, q, r
<1> QED BY <1>4, <1>5, <1>6

\* Each shift is twice the one before.
LEMMA Shifts ==
    /\ Pow2[1] = 1 /\ Pow2[28] = 134217728
    /\ \A k \in 1 .. 28 : Pow2[k] \in Nat \ {0}
    /\ \A k \in 1 .. 27 : Pow2[k + 1] = 2 * Pow2[k]
<1>1. /\ Pow2[1] = 1 /\ Pow2[2] = 2 /\ Pow2[3] = 4 /\ Pow2[4] = 8 /\ Pow2[5] = 16
      /\ Pow2[6] = 32 /\ Pow2[7] = 64 /\ Pow2[8] = 128 /\ Pow2[9] = 256 /\ Pow2[10] = 512
      /\ Pow2[11] = 1024 /\ Pow2[12] = 2048 /\ Pow2[13] = 4096 /\ Pow2[14] = 8192
      /\ Pow2[15] = 16384 /\ Pow2[16] = 32768 /\ Pow2[17] = 65536 /\ Pow2[18] = 131072
      /\ Pow2[19] = 262144 /\ Pow2[20] = 524288 /\ Pow2[21] = 1048576 /\ Pow2[22] = 2097152
      /\ Pow2[23] = 4194304 /\ Pow2[24] = 8388608 /\ Pow2[25] = 16777216
      /\ Pow2[26] = 33554432 /\ Pow2[27] = 67108864 /\ Pow2[28] = 134217728
  BY SMT DEF Pow2
<1>2. ASSUME NEW k \in 1 .. 28
      PROVE  \/ k = 1 \/ k = 2 \/ k = 3 \/ k = 4 \/ k = 5 \/ k = 6 \/ k = 7 \/ k = 8 \/ k = 9
             \/ k = 10 \/ k = 11 \/ k = 12 \/ k = 13 \/ k = 14 \/ k = 15 \/ k = 16 \/ k = 17
             \/ k = 18 \/ k = 19 \/ k = 20 \/ k = 21 \/ k = 22 \/ k = 23 \/ k = 24 \/ k = 25
             \/ k = 26 \/ k = 27 \/ k = 28
  BY SMT
<1>3. \A k \in 1 .. 28 : Pow2[k] \in Nat \ {0}
  BY <1>1, <1>2, SMT
<1>4. \A k \in 1 .. 27 : Pow2[k + 1] = 2 * Pow2[k]
  <2> TAKE k \in 1 .. 27
  <2>1. k \in 1 .. 28 /\ k # 28
    BY SMT
  <2> QED BY <1>1, <1>2, <2>1, SMT
<1> QED BY <1>1, <1>3, <1>4, SMT

\* What grows by one of them from below lo to at least lo passes the first that does.
LEMMA FirstFrom ==
    ASSUME NEW n \in Nat, NEW F, \A k \in 1 .. n : F[k] \in Int, NEW lo \in Int,
           n # 0, F[n] >= lo
    PROVE  \E k \in 1 .. n : F[k] >= lo /\ (k = 1 \/ F[k - 1] < lo)
<1> SUFFICES ASSUME \A k \in 1 .. n : F[k] >= lo => k # 1 /\ F[k - 1] >= lo
             PROVE  FALSE
  <2>1. \A k \in 1 .. n : k # 1 => F[k - 1] \in Int
    OBVIOUS
  <2> QED BY <2>1
<1> DEFINE S == {i \in Nat : i < n => F[n - i] >= lo}
<1>1. 0 \in S
  OBVIOUS
<1>2. \A i \in Nat : i \in S => i + 1 \in S
  <2> SUFFICES ASSUME NEW i \in Nat, i \in S, i + 1 < n PROVE F[n - (i + 1)] >= lo
    OBVIOUS
  <2>1. n - i \in 1 .. n /\ F[n - i] >= lo /\ (n - i) - 1 = n - (i + 1)
    OBVIOUS
  <2> QED BY <2>1
<1>3. Nat \subseteq S
  <2> HIDE DEF S
  <2> QED BY <1>1, <1>2, SetInduction
<1>4. n - 1 \in Nat /\ n - 1 < n /\ n - (n - 1) = 1
  OBVIOUS
<1>5. F[1] >= lo /\ 1 \in 1 .. n
  BY <1>3, <1>4
<1> QED BY <1>5

\* A number below 2^24 has a shift that makes it one of 24 bits.
LEMMA ShiftDown ==
    ASSUME NEW d \in {1, 10}, NEW n \in Nat, 1 <= n, n < 16777216 * d
    PROVE  \E k \in 1 .. 28 : Fits(n * Pow2[k], d)
<1> DEFINE F == [k \in 1 .. 28 |-> n * Pow2[k]]
           lo == 8388608 * d
<1>1. \A k \in 1 .. 28 : F[k] = n * Pow2[k] /\ F[k] \in Int
  <2> TAKE k \in 1 .. 28
  <2>1. Pow2[k] \in Nat /\ n \in Nat
    BY Shifts, SMT
  <2>2. n * Pow2[k] \in Int
    BY <2>1, SMT
  <2> QED BY <2>2, SMT
<1>2. F[28] >= lo /\ lo \in Int
  BY <1>1, Shifts, SMT
<1>3. F[1] = n
  BY <1>1, Shifts, SMT
<1>4. \A k \in 1 .. 28 : k # 1 => F[k] = 2 * F[k - 1]
  <2> SUFFICES ASSUME NEW k \in 1 .. 28, k # 1 PROVE F[k] = 2 * F[k - 1]
    OBVIOUS
  <2>1. k - 1 \in 1 .. 27 /\ (k - 1) + 1 = k /\ k - 1 \in 1 .. 28
    BY SMT
  <2>2. Pow2[k] = 2 * Pow2[k - 1] /\ Pow2[k - 1] \in Nat
    BY <2>1, Shifts, SMT
  <2>3. n * (2 * Pow2[k - 1]) = 2 * (n * Pow2[k - 1])
    BY <2>2, SMT
  <2> QED BY <1>1, <2>1, <2>2, <2>3, SMT
<1> HIDE DEF F
<1>5. PICK k \in 1 .. 28 : F[k] >= lo /\ (k = 1 \/ F[k - 1] < lo)
  <2> HIDE DEF lo
  <2>1. 28 \in Nat /\ 28 # 0 /\ \A k \in 1 .. 28 : F[k] \in Int
    BY <1>1, SMT
  <2> QED BY <1>2, <2>1, FirstFrom, SMT
<1>6. F[k] < 16777216 * d
  <2>1. CASE k = 1
    BY <1>3, <2>1, SMT
  <2>2. CASE k # 1
    <3>1. k - 1 \in 1 .. 28
      BY <2>2, SMT
    <3> QED BY <1>1, <1>4, <1>5, <2>2, <3>1, SMT
  <2> QED BY <2>1, <2>2, SMT
<1> QED BY <1>1, <1>5, <1>6, SMT DEF Fits

\* One that is not has a shift that leaves 24 bits of it.
LEMMA ShiftUp ==
    ASSUME NEW d \in {1, 10}, NEW n \in Nat, 16777216 * d <= n, n <= 2147483775
    PROVE  /\ \E k \in 1 .. 28 : Fits(n \div Pow2[k], d)
           /\ \A k \in 1 .. 28 : Fits(n \div Pow2[k], d) =>
                /\ Pow2[k] >= 2 /\ Pow2[k] <= 256 /\ n < 16777216 * d * Pow2[k]
                /\ n >= 8388608 * d * Pow2[k]
<1> DEFINE F == [k \in 1 .. 28 |-> 16777216 * d * Pow2[k] - n]
           M == 8388608 * d
<1>1. M \in Nat \ {0} /\ 16777216 * d = 2 * M /\ M >= 8388608
  BY SMT
<1>2. ASSUME NEW p \in Nat \ {0}
      PROVE  n \div p \in M .. 2 * M - 1 <=> M * p <= n /\ n < 2 * (M * p)
  <2> DEFINE q == n \div p
             r == n % p
  <2>1. n \in Nat /\ q \in Nat /\ r \in 0 .. p - 1 /\ n = p * q + r
    BY SMT
  <2> HIDE DEF q, r, M
  <2>2. q \in M .. 2 * M - 1 => M * p <= n /\ n < 2 * (M * p)
    <3> SUFFICES ASSUME q >= M, q + 1 <= 2 * M PROVE M * p <= n /\ n < 2 * (M * p)
      BY <1>1, <2>1, SMT
    <3>1. p * M <= p * q /\ p * (q + 1) <= p * (2 * M)
      BY <1>1, <2>1, SMT
    <3>2. p * (q + 1) = p * q + p /\ p * (2 * M) = 2 * (M * p) /\ p * M = M * p
      BY <1>1, <2>1, SMT
    <3>3. p * q \in Nat /\ M * p \in Nat
      BY <1>1, <2>1, SMT
    <3> QED BY <2>1, <3>1, <3>2, <3>3, SMT
  <2>3. M * p <= n /\ n < 2 * (M * p) => q \in M .. 2 * M - 1
    <3> SUFFICES ASSUME M * p <= n, n < 2 * (M * p), q < M \/ q >= 2 * M PROVE FALSE
      BY <1>1, <2>1, SMT
    <3>1. CASE q < M
      <4>1. p * (q + 1) <= p * M /\ p * (q + 1) = p * q + p /\ p * M = M * p
        BY <1>1, <2>1, <3>1, SMT
      <4>2. p * q \in Nat /\ M * p \in Nat
        BY <1>1, <2>1, SMT
      <4> QED BY <2>1, <4>1, <4>2, SMT
    <3>2. CASE q >= 2 * M
      <4>1. p * (2 * M) <= p * q /\ p * (2 * M) = 2 * (M * p)
        BY <1>1, <2>1, <3>2, SMT
      <4>2. p * q \in Nat /\ M * p \in Nat
        BY <1>1, <2>1, SMT
      <4> QED BY <2>1, <4>1, <4>2, SMT
    <3> QED BY <3>1, <3>2
  <2> QED BY <2>2, <2>3 DEF q
<1>3. \A k \in 1 .. 28 : F[k] = 2 * (M * Pow2[k]) - n /\ F[k] \in Int
  <2> TAKE k \in 1 .. 28
  <2>1. Pow2[k] \in Nat /\ n \in Nat
    BY Shifts, SMT
  <2>2. F[k] = 2 * (M * Pow2[k]) - n
    BY <2>1, SMT
  <2>3. M * Pow2[k] \in Int
    BY <2>1, <1>1, SMT
  <2> QED BY <2>1, <2>2, <2>3, SMT
<1>4. F[28] >= 1 /\ F[1] < 1
  BY <1>3, Shifts, SMT
<1> HIDE DEF F
<1>5. PICK k \in 1 .. 28 : F[k] >= 1 /\ (k = 1 \/ F[k - 1] < 1)
  <2>1. 28 \in Nat /\ 28 # 0 /\ 1 \in Int /\ \A k \in 1 .. 28 : F[k] \in Int
    BY <1>3, SMT
  <2> QED BY <1>4, <2>1, FirstFrom, SMT
<1>6. k - 1 \in 1 .. 27 /\ (k - 1) + 1 = k /\ k - 1 \in 1 .. 28 /\ F[k - 1] < 1
  <2>1. k # 1
    BY <1>3, <1>4, <1>5, SMT
  <2> QED BY <1>5, <2>1, SMT
<1>7. n \div Pow2[k] \in M .. 2 * M - 1
  <2>1. Pow2[k] = 2 * Pow2[k - 1] /\ Pow2[k - 1] \in Nat /\ Pow2[k] \in Nat \ {0}
    BY <1>6, Shifts, SMT
  <2>2. M * Pow2[k - 1] \in Int /\ M * (2 * Pow2[k - 1]) = 2 * (M * Pow2[k - 1])
    BY <1>1, <2>1, SMT
  <2>3. M * Pow2[k] <= n /\ n < 2 * (M * Pow2[k])
    BY <1>3, <1>5, <1>6, <2>1, <2>2, SMT
  <2> QED BY <1>2, <2>1, <2>3, SMT
<1>8. ASSUME NEW j \in 1 .. 28, n \div Pow2[j] \in M .. 2 * M - 1
      PROVE  Pow2[j] >= 2 /\ Pow2[j] <= 256 /\ n < 2 * (M * Pow2[j]) /\ n >= M * Pow2[j]
  <2>1. Pow2[j] \in Nat \ {0}
    BY Shifts, SMT
  <2>2. M * Pow2[j] <= n /\ n < 2 * (M * Pow2[j])
    <3> HIDE DEF M
    <3> QED BY <1>2, <1>8, <2>1, SMT
  <2>3. Pow2[j] <= 256 /\ Pow2[j] >= 2
    <3> DEFINE p == Pow2[j]
    <3>1. CASE d = 1
      <4>0. M = 8388608 /\ n \in Nat /\ n >= 16777216 /\ n <= 2147483775
        BY <3>1, SMT
      <4>1. M * p = 8388608 * p /\ p \in Nat
        BY <4>0, <2>1, SMT
      <4> HIDE DEF M, p
      <4> QED BY <2>2, <4>0, <4>1, SMT DEF p
    <3>2. CASE d = 10
      <4>0. M = 83886080 /\ n \in Nat /\ n >= 167772160 /\ n <= 2147483775
        BY <3>2, SMT
      <4>1. M * p = 83886080 * p /\ p \in Nat
        BY <4>0, <2>1, SMT
      <4> HIDE DEF M, p
      <4> QED BY <2>2, <4>0, <4>1, SMT DEF p
    <3> QED BY <3>1, <3>2, SMT
  <2> QED BY <2>1, <2>2, <2>3, SMT
<1>9. ASSUME NEW j \in 1 .. 28
      PROVE  /\ Fits(n \div Pow2[j], d) <=> n \div Pow2[j] \in M .. 2 * M - 1
             /\ 16777216 * d * Pow2[j] = 2 * (M * Pow2[j])
             /\ 8388608 * d * Pow2[j] = M * Pow2[j]
  <2>1. Pow2[j] \in Nat \ {0} /\ n \div Pow2[j] \in Int
    BY Shifts, SMT
  <2>2. 16777216 * d * Pow2[j] = 2 * (M * Pow2[j])
    BY <2>1, SMT
  <2>3. Fits(n \div Pow2[j], d) <=> n \div Pow2[j] \in M .. 2 * M - 1
    BY <1>1, <2>1, SMT DEF Fits
  <2> QED BY <2>2, <2>3
<1> HIDE DEF M
<1>10. \E j \in 1 .. 28 : Fits(n \div Pow2[j], d)
  BY <1>7, <1>9, SMT
<1>11. \A j \in 1 .. 28 : Fits(n \div Pow2[j], d) =>
          /\ Pow2[j] >= 2 /\ Pow2[j] <= 256 /\ n < 16777216 * d * Pow2[j]
          /\ n >= 8388608 * d * Pow2[j]
  BY <1>8, <1>9, SMT
<1> QED BY <1>10, <1>11

\* An int that has more than 24 bits loses some of them as a float.
LEMMA WholeIs ==
    ASSUME NEW v \in Nat, v <= MaxInt
    PROVE  /\ Whole(v) \in Nat /\ Whole(v) <= 2147483775
           /\ v < 16777216 => Whole(v) = v
           /\ v >= 16777216 => v - 128 <= Whole(v) /\ Whole(v) <= v + 128
<1> DEFINE f == FloatOf(v, 1)
<1>1. CASE v = 0
  <2>1. f = [m |-> 0, up |-> 1, down |-> 1]
    BY <1>1, SMT DEF FloatOf
  <2> QED BY <1>1, <2>1, SMT DEF Whole
<1>2. CASE v # 0 /\ v < 16777216
  <2> DEFINE k == CHOOSE k \in 1 .. 28 : Fits(v * Pow2[k], 1)
             p == Pow2[k]
  <2>1. 1 \in {1, 10} /\ 1 <= v /\ v < 16777216 * 1
    BY <1>2, SMT
  <2>2. \E j \in 1 .. 28 : Fits(v * Pow2[j], 1)
    BY <2>1, ShiftDown, SMT
  <2>5. f = [m |-> Nearest(v * p, 1), up |-> 1, down |-> p]
    BY <1>2, <2>1, SMT DEF FloatOf
  <2>3. k \in 1 .. 28
    BY <2>2, Zenon
  <2>4. p \in Nat \ {0}
    <3> HIDE DEF k
    <3> QED BY <2>3, Shifts, SMT
  <2> HIDE DEF p, k, f
  <2>6. v * p \in Nat
    BY <2>4, SMT
  <2>7. Nearest(v * p, 1) = v * p
    <3> DEFINE a == v * p
    <3> HIDE DEF a
    <3>1. a \in Nat /\ 1 \in Nat \ {0}
      BY <2>6, SMT DEF a
    <3>2. /\ Nearest(a, 1) \in Nat
          /\ 2 * (1 * Nearest(a, 1)) <= 2 * a + 1 /\ 2 * a <= 2 * (1 * Nearest(a, 1)) + 1
      BY <3>1, NearestIs
    <3>3. Nearest(a, 1) = a
      <4> DEFINE x == Nearest(a, 1)
      <4> HIDE DEF x
      <4>1. x \in Nat /\ 2 * x <= 2 * a + 1 /\ 2 * a <= 2 * x + 1
        BY <3>2, SMT DEF x
      <4>2. x = a
        BY <3>1, <4>1, SMT
      <4> QED BY <4>2 DEF x
    <3> QED BY <3>3 DEF a
  <2>8. (v * p * 1) \div p = v
    BY <2>4, <2>6, SMT
  <2>9. Whole(v) = v
    BY <2>5, <2>7, <2>8, SMT DEF Whole, f
  <2> QED BY <1>2, <2>9, SMT
<1>3. CASE v >= 16777216
  <2> DEFINE k == CHOOSE k \in 1 .. 28 : Fits(v \div Pow2[k], 1)
             p == Pow2[k]
  <2>1. 1 \in {1, 10} /\ 16777216 * 1 <= v /\ v <= 2147483775 /\ ~(v < 16777216 * 1) /\ v # 0
    BY <1>3, SMT DEF MaxInt
  <2>2. /\ \E j \in 1 .. 28 : Fits(v \div Pow2[j], 1)
        /\ \A j \in 1 .. 28 : Fits(v \div Pow2[j], 1) => Pow2[j] >= 2 /\ Pow2[j] <= 256
    BY <2>1, ShiftUp, SMT
  <2>5. f = [m |-> Nearest(v, 1 * p), up |-> p, down |-> 1]
    BY <2>1, SMT DEF FloatOf
  <2>3. k \in 1 .. 28 /\ Fits(v \div Pow2[k], 1)
    BY <2>2, Zenon
  <2>4. p \in Nat \ {0} /\ p <= 256
    <3> HIDE DEF k
    <3>1. Pow2[k] >= 2 /\ Pow2[k] <= 256
      BY <2>2, <2>3, Zenon
    <3> QED BY <2>3, <3>1, Shifts, SMT
  <2> HIDE DEF p, k, f
  <2> DEFINE m == Nearest(v, p)
  <2>6. 1 * p = p /\ p \in Nat \ {0}
    BY <2>4, SMT
  <2>7. m \in Nat /\ 2 * (p * m) <= 2 * v + p /\ 2 * v <= 2 * (p * m) + p
    BY <2>6, NearestIs
  <2> HIDE DEF m
  <2>8. Whole(v) = p * m
    <3>1. f.m = m /\ f.up = p /\ f.down = 1
      BY <2>5, <2>6, SMT DEF m
    <3>2. m * p = p * m /\ p * m \in Nat
      BY <2>6, <2>7, SMT
    <3>3. (p * m) \div 1 = p * m
      BY <3>2, SMT
    <3> QED BY <3>1, <3>2, <3>3 DEF Whole, f
  <2> DEFINE w == p * m
  <2>9. w \in Nat /\ 2 * w <= 2 * v + p /\ 2 * v <= 2 * w + p /\ p \in Nat /\ p <= 256
    BY <2>4, <2>6, <2>7, SMT
  <2> HIDE DEF w
  <2>10. v - 128 <= w /\ w <= v + 128
    BY <2>9, SMT
  <2>11. w <= 2147483775
    BY <2>9, <2>10, SMT DEF MaxInt
  <2> QED BY <1>3, <2>8, <2>9, <2>10, <2>11, SMT DEF w
<1> QED BY <1>1, <1>2, <1>3, SMT

\* A tenth of it as a float, by which of the two it is scaled.
LEMMA TenthIs ==
    ASSUME NEW v \in Nat, v <= MaxInt, v # 0
    PROVE  LET f == Whole(v)
               d == Tenth(v)
           IN /\ d.m \in Nat /\ d.up \in Nat \ {0} /\ d.down \in Nat \ {0}
              /\ \/ /\ d.up = 1 /\ f * d.down >= 83886080
                    /\ 10 * d.m <= f * d.down + 5 /\ f * d.down <= 10 * d.m + 5
                 \/ /\ d.down = 1 /\ d.up <= 25 /\ f >= 167772160
                    /\ 10 * (d.up * d.m) <= f + 5 * d.up /\ f <= 10 * (d.up * d.m) + 5 * d.up
<1> DEFINE f == Whole(v)
           d == Tenth(v)
<1>1. f \in Nat /\ f # 0 /\ f <= 2147483775
  BY WholeIs, SMT DEF MaxInt
<1>2. d = FloatOf(f, 10)
  BY DEF Tenth
<1> HIDE DEF f, d
<1>3. CASE f < 167772160
  <2> DEFINE k == CHOOSE k \in 1 .. 28 : Fits(f * Pow2[k], 10)
             p == Pow2[k]
             m == Nearest(f * p, 10)
  <2>1. 10 \in {1, 10} /\ 1 <= f /\ f < 16777216 * 10
    BY <1>1, <1>3, SMT
  <2>2. \E j \in 1 .. 28 : Fits(f * Pow2[j], 10)
    BY <1>1, <2>1, ShiftDown, SMT
  <2>5. d = [m |-> m, up |-> 1, down |-> p]
    BY <1>1, <1>2, <2>1, SMT DEF FloatOf
  <2>3. k \in 1 .. 28 /\ Fits(f * Pow2[k], 10)
    BY <2>2, Zenon
  <2>4. p \in Nat \ {0}
    <3> HIDE DEF k
    <3> QED BY <2>3, Shifts, SMT
  <2>6. f * p >= 83886080
    <3> HIDE DEF k
    <3> QED BY <2>3, SMT DEF Fits
  <2> HIDE DEF p, k
  <2>7. f * p \in Nat /\ 10 \in Nat \ {0}
    BY <1>1, <2>4, SMT
  <2>8. m \in Nat /\ 2 * (10 * m) <= 2 * (f * p) + 10 /\ 2 * (f * p) <= 2 * (10 * m) + 10
    BY <2>7, NearestIs
  <2> HIDE DEF m
  <2>9. d.m = m /\ d.up = 1 /\ d.down = p
    BY <2>5
  <2>10. 10 * m <= f * p + 5 /\ f * p <= 10 * m + 5
    BY <2>7, <2>8, SMT
  <2> QED BY <2>4, <2>6, <2>8, <2>9, <2>10, SMT DEF f, d
<1>4. CASE f >= 167772160
  <2> DEFINE k == CHOOSE k \in 1 .. 28 : Fits(f \div Pow2[k], 10)
             p == Pow2[k]
             m == Nearest(f, 10 * p)
  <2>1. 10 \in {1, 10} /\ 16777216 * 10 <= f /\ ~(f < 16777216 * 10)
    BY <1>1, <1>4, SMT
  <2>2. \E j \in 1 .. 28 : Fits(f \div Pow2[j], 10)
    BY <1>1, <2>1, ShiftUp, SMT
  <2>3. \A j \in 1 .. 28 : Fits(f \div Pow2[j], 10) =>
            Pow2[j] >= 2 /\ Pow2[j] <= 256 /\ f >= 8388608 * 10 * Pow2[j]
    BY <1>1, <2>1, ShiftUp, SMT
  <2>4. k \in 1 .. 28 /\ Fits(f \div Pow2[k], 10)
    BY <2>2, Zenon
  <2>5. d = [m |-> m, up |-> p, down |-> 1]
    BY <1>1, <1>2, <2>1, SMT DEF FloatOf
  <2> HIDE DEF k
  <2>12. p \in Nat \ {0} /\ p <= 256 /\ f >= 8388608 * 10 * p
    BY <2>3, <2>4, Shifts, SMT
  <2> HIDE DEF p
  <2>6. p \in Nat \ {0} /\ p <= 25
    BY <1>1, <2>12, SMT
  <2>7. 10 * p \in Nat \ {0}
    BY <2>6, SMT
  <2>8. m \in Nat /\ 2 * ((10 * p) * m) <= 2 * f + 10 * p /\ 2 * f <= 2 * ((10 * p) * m) + 10 * p
    <3> DEFINE b == 10 * p
    <3> HIDE DEF b
    <3>1. b \in Nat \ {0}
      BY <2>7 DEF b
    <3>2. /\ Nearest(f, b) \in Nat
          /\ 2 * (b * Nearest(f, b)) <= 2 * f + b /\ 2 * f <= 2 * (b * Nearest(f, b)) + b
      <4>1. f \in Nat
        BY <1>1, SMT
      <4> QED BY <4>1, <3>1, NearestIs, Zenon
    <3> QED BY <3>2 DEF b
  <2> HIDE DEF m
  <2>9. d.m = m /\ d.up = p /\ d.down = 1
    BY <2>5
  <2>10. (10 * p) * m = 10 * (p * m) /\ p * m \in Nat
    BY <2>6, <2>8, SMT
  <2>11. 10 * (p * m) <= f + 5 * p /\ f <= 10 * (p * m) + 5 * p
    BY <1>1, <2>6, <2>8, <2>10, SMT
  <2> QED BY <1>4, <2>6, <2>8, <2>9, <2>11, SMT DEF f, d
<1> QED BY <1>1, <1>3, <1>4, SMT

\* A quotient that misses p by less than the divisor.
LEMMA QuotientNear ==
    ASSUME NEW a \in Nat, NEW b \in Nat \ {0}, NEW p \in Nat \ {0},
           a < p * b + b, p * b <= a + b
    PROVE  a \div b \in {p, p - 1}
<1> DEFINE q == a \div b
<1>1. q \in Nat /\ b * q <= a /\ a < b * q + b
  OBVIOUS
<1> HIDE DEF q
<1>2. p * b \in Nat /\ b * q \in Nat /\ p * b = b * p
  BY <1>1
<1>3. q < p + 1
  <2> SUFFICES ASSUME q >= p + 1 PROVE FALSE
    BY <1>1
  <2>1. b * (p + 1) <= b * q /\ b * (p + 1) = b * p + b
    BY <1>1
  <2> QED BY <1>1, <1>2, <2>1
<1>4. q >= p - 1
  <2> SUFFICES ASSUME q + 2 <= p PROVE FALSE
    BY <1>1
  <2>1. b * (q + 2) <= b * p /\ b * (q + 2) = b * q + b + b
    BY <1>1
  <2> QED BY <1>1, <1>2, <2>1
<1> QED BY <1>1, <1>3, <1>4 DEF q

\* A travel comes back, or one less.
LEMMA TravelBack ==
    ASSUME NEW p \in Nat, p <= 65535, NEW s \in Nat \ {0}, p * s <= MaxInt
    PROVE  TruncatedTenth(Tenth(p * s), s) % 65536 \in {p, p - 1}
<1> DEFINE v == p * s
           f == Whole(v)
           d == Tenth(v)
<1>1. v \in Nat
  BY SMT
<1>2. CASE p = 0
  <2>1. v = 0
    BY <1>2, SMT
  <2>2. 0 \in Nat /\ 0 <= MaxInt /\ 0 < 16777216
    BY SMT DEF MaxInt
  <2>3. Whole(0) = 0
    BY <2>2, WholeIs, SMT
  <2>4. d = [m |-> 0, up |-> 1, down |-> 1]
    BY <2>1, <2>3, SMT DEF Tenth, FloatOf
  <2>5. TruncatedTenth(d, s) = (0 * 1 * 10) \div (1 * s)
    BY <2>4, SMT DEF TruncatedTenth
  <2> HIDE DEF d
  <2>6. 1 * s = s /\ 0 * 1 * 10 = 0 /\ 0 \div s = 0
    BY SMT
  <2>7. TruncatedTenth(d, s) = 0
    BY <2>5, <2>6, SMT
  <2>8. 0 \in Nat /\ 65536 \in Nat \ {0} /\ 0 < 65536
    BY SMT
  <2>9. 0 % 65536 = 0
    BY <2>8, ModSmall
  <2> QED BY <1>2, <2>7, <2>9, SMT DEF d
<1>3. CASE p # 0
  <2>1. p \in Nat \ {0} /\ v # 0
    <3>1. (p - 1) * s \in Nat /\ p * s = (p - 1) * s + s
      BY <1>3, SMT
    <3> QED BY <1>3, <3>1, SMT
  <2>2. /\ f \in Nat
        /\ v < 16777216 => f = v
        /\ v >= 16777216 => v - 128 <= f /\ f <= v + 128
    BY <1>1, WholeIs, SMT
  <2>3. /\ d.m \in Nat /\ d.up \in Nat \ {0} /\ d.down \in Nat \ {0}
        /\ \/ /\ d.up = 1 /\ f * d.down >= 83886080
              /\ 10 * d.m <= f * d.down + 5 /\ f * d.down <= 10 * d.m + 5
           \/ /\ d.down = 1 /\ d.up <= 25 /\ f >= 167772160
              /\ 10 * (d.up * d.m) <= f + 5 * d.up /\ f <= 10 * (d.up * d.m) + 5 * d.up
    <3> HIDE DEF v
    <3>1. LET ff == Whole(v)
              dd == Tenth(v)
          IN /\ dd.m \in Nat /\ dd.up \in Nat \ {0} /\ dd.down \in Nat \ {0}
             /\ \/ /\ dd.up = 1 /\ ff * dd.down >= 83886080
                   /\ 10 * dd.m <= ff * dd.down + 5 /\ ff * dd.down <= 10 * dd.m + 5
                \/ /\ dd.down = 1 /\ dd.up <= 25 /\ ff >= 167772160
                   /\ 10 * (dd.up * dd.m) <= ff + 5 * dd.up /\ ff <= 10 * (dd.up * dd.m) + 5 * dd.up
      <4>1. v \in Nat /\ v <= MaxInt /\ v # 0
        BY <1>1, <2>1 DEF v
      <4> QED BY <4>1, TenthIs, SMT
    <3> QED BY <3>1
  <2>4. v >= 16777216 => s >= 257
    <3> SUFFICES ASSUME s <= 256 PROVE v < 16777216
      BY <1>1, SMT
    <3>1. p * s <= p * 256
      BY SMT
    <3> QED BY <3>1, SMT
  <2>5. TruncatedTenth(d, s) = (d.m * d.up * 10) \div (d.down * s)
    BY DEF TruncatedTenth
  <2> DEFINE m == d.m
             up == d.up
             down == d.down
             a == m * up * 10
             b == down * s
  <2>6. a \in Nat /\ b \in Nat \ {0} /\ a = 10 * (up * m)
    <3> HIDE DEF m, up, down
    <3>1. m \in Nat /\ up \in Nat \ {0} /\ down \in Nat \ {0}
      BY <2>3, SMT DEF m, up, down
    <3>2. m * up \in Nat /\ m * up = up * m
      BY <3>1, SMT
    <3>3. down * s \in Nat \ {0}
      <4>1. (down - 1) * s \in Nat /\ down * s = (down - 1) * s + s
        BY <3>1, SMT
      <4> QED BY <4>1, SMT
    <3> QED BY <3>2, <3>3, SMT
  <2>7. p * b = v * down
    BY <2>3, SMT
  <2> HIDE DEF f, d, v
  <2>8. a < p * b + b /\ p * b <= a + b
    <3>1. CASE up = 1 /\ f * down >= 83886080 /\ 10 * m <= f * down + 5 /\ f * down <= 10 * m + 5
      <4>1. a = 10 * m
        BY <2>3, <2>6, <3>1, SMT
      <4>2. CASE v < 16777216
        <5>1. p * b >= 83886080
          BY <2>2, <2>7, <3>1, <4>2
        <5>2. b > 5
          <6> HIDE DEF b
          <6> SUFFICES ASSUME b <= 5 PROVE FALSE
            BY <2>6, SMT
          <6>1. p * b \in Nat /\ p * b <= p * 5 /\ p * 5 <= 65535 * 5
            BY <2>6, SMT
          <6> QED BY <5>1, <6>1, SMT
        <5>3. p * b \in Nat /\ f * down = p * b
          BY <2>2, <2>6, <2>7, <4>2, SMT
        <5> HIDE DEF a, b
        <5> QED BY <2>3, <2>6, <3>1, <4>1, <5>2, <5>3, SMT
      <4>3. CASE v >= 16777216
        <5>1. f * down <= (v + 128) * down /\ (v - 128) * down <= f * down
          BY <1>1, <2>2, <2>3, <4>3, SMT
        <5>2. (v + 128) * down = v * down + 128 * down /\ (v - 128) * down = v * down - 128 * down
          BY <1>1, <2>3, SMT
        <5>3. b >= 257 * down
          BY <2>3, <2>4, <4>3, SMT
        <5>4. v * down \in Nat /\ f * down \in Nat /\ down \in Nat /\ down >= 1
          BY <1>1, <2>2, <2>3, SMT
        <5> HIDE DEF a, b, down
        <5> QED BY <2>3, <2>6, <2>7, <3>1, <4>1, <5>1, <5>2, <5>3, <5>4, SMT
      <4> QED BY <1>1, <4>2, <4>3, SMT
    <3>2. CASE /\ down = 1 /\ up <= 25 /\ f >= 167772160
               /\ 10 * (up * m) <= f + 5 * up /\ f <= 10 * (up * m) + 5 * up
      <4>1. v >= 16777216
        BY <1>1, <2>2, <3>2, SMT
      <4>2. b = s /\ p * b = v /\ up \in Nat
        BY <1>1, <2>3, <2>7, <3>2, SMT
      <4> HIDE DEF a, b
      <4>3. a <= f + 125 /\ f <= a + 125
        BY <2>2, <2>6, <3>2, <4>2, SMT
      <4>4. v >= 167772032 /\ s >= 2560
        <5>1. v >= 167772032
          BY <1>1, <2>2, <3>2, <4>1, SMT
        <5> SUFFICES ASSUME s < 2560 PROVE FALSE
          BY <5>1, SMT
        <5>2. p * s <= p * 2560
          BY SMT
        <5> QED BY <5>1, <5>2, SMT DEF v
      <4> QED BY <1>1, <2>2, <2>6, <4>1, <4>2, <4>3, <4>4, SMT
    <3> QED BY <2>3, <3>1, <3>2, SMT
  <2>9. a \div b \in {p, p - 1}
    <3> HIDE DEF a, b
    <3> QED BY <2>1, <2>6, <2>8, QuotientNear, SMT
  <2>10. p % 65536 = p /\ (p - 1) % 65536 = p - 1
    <3>1. 65536 \in Nat \ {0} /\ p < 65536 /\ p - 1 \in Nat /\ p - 1 < 65536
      BY <2>1, SMT
    <3> QED BY <3>1, ModSmall
  <2>11. TruncatedTenth(d, s) % 65536 \in {p, p - 1}
    <3> HIDE DEF a, b
    <3>1. TruncatedTenth(d, s) = a \div b
      BY <2>5 DEF a, b
    <3>2. \/ TruncatedTenth(d, s) = p
          \/ TruncatedTenth(d, s) = p - 1
      BY <2>9, <3>1
    <3> QED BY <2>10, <3>2
  <2> QED BY <2>11 DEF d, v
<1> QED BY <1>2, <1>3

\* What is counted in steps comes back.
LEMMA StepsBack ==
    ASSUME NEW v \in Int, NEW s \in Nat \ {0}
    PROVE  (v * s) \div s = v
OBVIOUS

\* The travel of a point of a dynamogram, six bits with the top half negative (ExtractTravel),
\* comes back from steps.
LEMMA TravelStepsBack ==
    ASSUME NEW a \in 0 .. 63, NEW s \in Nat \ {0}
    PROVE  ((ExtractTravel(a) * s) \div s) % 64 = a
<1>1. ExtractTravel(a) \in Int /\ (ExtractTravel(a) = a \/ ExtractTravel(a) = a - 64)
  BY DEF ExtractTravel
<1>2. (ExtractTravel(a) * s) \div s = ExtractTravel(a)
  BY <1>1, StepsBack
<1>3. a % 64 = a /\ (a - 64) % 64 = a
  OBVIOUS
<1> QED BY <1>1, <1>2, <1>3

\* A byte of an echogram comes back: its two halves are written as numbers of both signs.
LEMMA EchoBack ==
    ASSUME NEW p \in 0 .. 255
    PROVE  EchoStored(EchoPoint(p)[1]) = p /\ EchoPoint(p)[1] \in Int
<1>1. EchoPoint(p)[1] = IF p > 127 THEN -(p - 127) ELSE p
  BY DEF EchoPoint
<1>2. p % 256 = p
  BY ModSmall
<1>3. CASE p > 127
  <2>1. EchoPoint(p)[1] = -(p - 127) /\ -(p - 127) < 0 /\ (-(-(p - 127))) + 127 = p
    BY <1>1, <1>3
  <2> QED BY <1>2, <2>1 DEF EchoStored
<1>4. CASE p <= 127
  <2>1. EchoPoint(p)[1] = p /\ ~(p < 0)
    BY <1>1, <1>4
  <2> QED BY <1>2, <2>1 DEF EchoStored
<1> QED BY <1>3, <1>4

\* Two decimal digits, packed and extracted.
LEMMA ReflectionsBack ==
    ASSUME NEW v \in TwoDigits
    PROVE  PackReflections(ExtractReflections(v)) = v /\ ExtractReflections(v) \in Int
<1>1. PICK d \in 0 .. 9, u \in 0 .. 9 : v = 16 * d + u
  BY DEF TwoDigits
<1>2. v \div 16 = d /\ v % 16 = u /\ d % 16 = d
  BY <1>1
<1>3. ExtractReflections(v) = 10 * d + u
  BY <1>2 DEF ExtractReflections
<1> DEFINE r == 10 * d + u
<1>4. r % 10 = u /\ r \div 10 = d /\ d % 10 = d /\ r \div 100 = 0 /\ r \div 1000 = 0 /\ 0 % 10 = 0
  OBVIOUS
<1>5. PackReflections(r) = u + 16 * d
  BY <1>4 DEF PackReflections
<1> QED BY <1>1, <1>3, <1>5

-----------------------------------------------------------------------------
(* The names of the variables *)

\* The eight variables of a .dat file, all different and none with the name of a chart.
LEMMA DatNamesAre ==
    /\ DOMAIN DatNames = 1 .. 8 /\ Len(DatNames) = 8
    /\ DatNames[1] = "FileTypeId" /\ DatNames[2] = "BeginDateTime"
    /\ DatNames[3] = "Position" /\ DatNames[4] = "PlaceId"
    /\ DatNames[5] = "Depth" /\ DatNames[6] = "DevInfo"
    /\ DatNames[7] = "RegInfo" /\ DatNames[8] = "ChartInfo"
    /\ \A i, j \in 1 .. 8 : DatNames[i] = DatNames[j] => i = j
    /\ \A i \in 1 .. 8 : DatNames[i] \notin {"OmegaData", "DynChart", "EchoChart", "unknown", "refused", "NULL"}
<1>1. Len(DatNames) = 8 /\ DOMAIN DatNames = 1 .. 8
  BY DEF DatNames
<1>2.
      /\ DatNames[1] = "FileTypeId" /\ DatNames[2] = "BeginDateTime"
      /\ DatNames[3] = "Position" /\ DatNames[4] = "PlaceId"
      /\ DatNames[5] = "Depth" /\ DatNames[6] = "DevInfo"
      /\ DatNames[7] = "RegInfo" /\ DatNames[8] = "ChartInfo"
  BY DEF DatNames
<1>3. ASSUME NEW i \in 1 .. 8
      PROVE
             \/ i = 1 \/ i = 2 \/ i = 3 \/ i = 4 \/ i = 5 \/ i = 6 \/ i = 7 \/ i = 8
  OBVIOUS
<1>4. ASSUME NEW i \in 1 .. 8, NEW j \in 1 .. 8, DatNames[i] = DatNames[j]
      PROVE  i = j
  BY <1>2, <1>3, <1>4, SMTT(60)
<1>5. ASSUME NEW i \in 1 .. 8
      PROVE  DatNames[i] \notin {"OmegaData", "DynChart", "EchoChart", "unknown", "refused", "NULL"}
  BY <1>2, <1>3, SMTT(30)
<1> QED BY <1>1, <1>2, <1>4, <1>5

\* The 26 variables of a .dyn file, all different and none with the name of a chart.
LEMMA DynNamesAre ==
    /\ DOMAIN DynNames = 1 .. 26 /\ Len(DynNames) = 26
    /\ DynNames[1] = "FileTypeId" /\ DynNames[2] = "BeginDateTime"
    /\ DynNames[3] = "Position" /\ DynNames[4] = "DevInfo"
    /\ DynNames[5] = "RegInfo" /\ DynNames[6] = "Oper"
    /\ DynNames[7] = "TravelStep" /\ DynNames[8] = "LoadStep"
    /\ DynNames[9] = "TimeStep" /\ DynNames[10] = "Rod"
    /\ DynNames[11] = "Aperture" /\ DynNames[12] = "MaxWeight"
    /\ DynNames[13] = "MinWeight" /\ DynNames[14] = "TopWeight"
    /\ DynNames[15] = "BotWeight" /\ DynNames[16] = "Travel"
    /\ DynNames[17] = "BeginPos" /\ DynNames[18] = "Period"
    /\ DynNames[19] = "Cycles" /\ DynNames[20] = "Pressure"
    /\ DynNames[21] = "BufPressure" /\ DynNames[22] = "LinePressure"
    /\ DynNames[23] = "PumpType" /\ DynNames[24] = "Acc"
    /\ DynNames[25] = "Temp" /\ DynNames[26] = "DynamogrammChartInfo"
    /\ \A i, j \in 1 .. 26 : DynNames[i] = DynNames[j] => i = j
    /\ \A i \in 1 .. 26 : DynNames[i] \notin {"OmegaData", "DynChart", "EchoChart", "unknown", "refused", "NULL"}
<1>1. Len(DynNames) = 26 /\ DOMAIN DynNames = 1 .. 26
  BY DEF DynNames
<1>2.
      /\ DynNames[1] = "FileTypeId" /\ DynNames[2] = "BeginDateTime"
      /\ DynNames[3] = "Position" /\ DynNames[4] = "DevInfo"
      /\ DynNames[5] = "RegInfo" /\ DynNames[6] = "Oper"
      /\ DynNames[7] = "TravelStep" /\ DynNames[8] = "LoadStep"
      /\ DynNames[9] = "TimeStep" /\ DynNames[10] = "Rod"
      /\ DynNames[11] = "Aperture" /\ DynNames[12] = "MaxWeight"
      /\ DynNames[13] = "MinWeight" /\ DynNames[14] = "TopWeight"
      /\ DynNames[15] = "BotWeight" /\ DynNames[16] = "Travel"
      /\ DynNames[17] = "BeginPos" /\ DynNames[18] = "Period"
      /\ DynNames[19] = "Cycles" /\ DynNames[20] = "Pressure"
      /\ DynNames[21] = "BufPressure" /\ DynNames[22] = "LinePressure"
      /\ DynNames[23] = "PumpType" /\ DynNames[24] = "Acc"
      /\ DynNames[25] = "Temp" /\ DynNames[26] = "DynamogrammChartInfo"
  BY DEF DynNames
<1>3. ASSUME NEW i \in 1 .. 26
      PROVE
             \/ i = 1 \/ i = 2 \/ i = 3 \/ i = 4 \/ i = 5 \/ i = 6 \/ i = 7 \/ i = 8
             \/ i = 9 \/ i = 10 \/ i = 11 \/ i = 12 \/ i = 13 \/ i = 14 \/ i = 15 \/ i = 16
             \/ i = 17 \/ i = 18 \/ i = 19 \/ i = 20 \/ i = 21 \/ i = 22 \/ i = 23 \/ i = 24
             \/ i = 25 \/ i = 26
  OBVIOUS
<1>4. ASSUME NEW i \in 1 .. 26, NEW j \in 1 .. 26, DynNames[i] = DynNames[j]
      PROVE  i = j
  BY <1>2, <1>3, <1>4, SMTT(60)
<1>5. ASSUME NEW i \in 1 .. 26
      PROVE  DynNames[i] \notin {"OmegaData", "DynChart", "EchoChart", "unknown", "refused", "NULL"}
  BY <1>2, <1>3, SMTT(30)
<1> QED BY <1>1, <1>2, <1>4, <1>5

\* The 21 variables of a .echo file, all different and none with the name of a chart.
LEMMA EchoNamesAre ==
    /\ DOMAIN EchoNames = 1 .. 21 /\ Len(EchoNames) = 21
    /\ EchoNames[1] = "FileTypeId" /\ EchoNames[2] = "BeginDateTime"
    /\ EchoNames[3] = "Position" /\ EchoNames[4] = "DevInfo"
    /\ EchoNames[5] = "RegInfo" /\ EchoNames[6] = "Oper"
    /\ EchoNames[7] = "Discrete" /\ EchoNames[8] = "Reflections"
    /\ EchoNames[9] = "Level" /\ EchoNames[10] = "Pressure"
    /\ EchoNames[11] = "Table" /\ EchoNames[12] = "Speed"
    /\ EchoNames[13] = "BufPressure" /\ EchoNames[14] = "LinePressure"
    /\ EchoNames[15] = "Current" /\ EchoNames[16] = "IdleHour"
    /\ EchoNames[17] = "IdleMin" /\ EchoNames[18] = "Mode"
    /\ EchoNames[19] = "Acc" /\ EchoNames[20] = "Temp"
    /\ EchoNames[21] = "EchoChartInfo"
    /\ \A i, j \in 1 .. 21 : EchoNames[i] = EchoNames[j] => i = j
    /\ \A i \in 1 .. 21 : EchoNames[i] \notin {"OmegaData", "DynChart", "EchoChart", "unknown", "refused", "NULL"}
<1>1. Len(EchoNames) = 21 /\ DOMAIN EchoNames = 1 .. 21
  BY DEF EchoNames
<1>2.
      /\ EchoNames[1] = "FileTypeId" /\ EchoNames[2] = "BeginDateTime"
      /\ EchoNames[3] = "Position" /\ EchoNames[4] = "DevInfo"
      /\ EchoNames[5] = "RegInfo" /\ EchoNames[6] = "Oper"
      /\ EchoNames[7] = "Discrete" /\ EchoNames[8] = "Reflections"
      /\ EchoNames[9] = "Level" /\ EchoNames[10] = "Pressure"
      /\ EchoNames[11] = "Table" /\ EchoNames[12] = "Speed"
      /\ EchoNames[13] = "BufPressure" /\ EchoNames[14] = "LinePressure"
      /\ EchoNames[15] = "Current" /\ EchoNames[16] = "IdleHour"
      /\ EchoNames[17] = "IdleMin" /\ EchoNames[18] = "Mode"
      /\ EchoNames[19] = "Acc" /\ EchoNames[20] = "Temp"
      /\ EchoNames[21] = "EchoChartInfo"
  BY DEF EchoNames
<1>3. ASSUME NEW i \in 1 .. 21
      PROVE
             \/ i = 1 \/ i = 2 \/ i = 3 \/ i = 4 \/ i = 5 \/ i = 6 \/ i = 7 \/ i = 8
             \/ i = 9 \/ i = 10 \/ i = 11 \/ i = 12 \/ i = 13 \/ i = 14 \/ i = 15 \/ i = 16
             \/ i = 17 \/ i = 18 \/ i = 19 \/ i = 20 \/ i = 21
  OBVIOUS
<1>4. ASSUME NEW i \in 1 .. 21, NEW j \in 1 .. 21, EchoNames[i] = EchoNames[j]
      PROVE  i = j
  BY <1>2, <1>3, <1>4, SMTT(60)
<1>5. ASSUME NEW i \in 1 .. 21
      PROVE  EchoNames[i] \notin {"OmegaData", "DynChart", "EchoChart", "unknown", "refused", "NULL"}
  BY <1>2, <1>3, SMTT(30)
<1> QED BY <1>1, <1>2, <1>4, <1>5


-----------------------------------------------------------------------------
(* What the proofs know of names, of blocks and of sources *)

\* The parts of a block.
LEMMA BlockIs ==
    /\ \A m, n : Info(m) = Info(n) => m = n
    /\ \A n : Info(n).k = "info" /\ Info(n).n = n
    /\ \A v : Data(v).k = "data" /\ Data(v).v = v
    /\ Header.k = "header"
    /\ \A n, v : Info(n) # Data(v) /\ Info(n) # Header /\ Data(v) # Header
<1>1. \A m, n : Info(m) = Info(n) => m = n
  <2> TAKE m, n
  <2>1. Info(m).n = m /\ Info(n).n = n
    BY DEF Info
  <2> QED BY <2>1
<1>2. \A n : Info(n).k = "info" /\ Info(n).n = n
  BY DEF Info
<1>3. \A v : Data(v).k = "data" /\ Data(v).v = v
  BY DEF Data
<1>4. Header.k = "header"
  BY DEF Header
<1>5. \A n, v : Info(n) # Data(v) /\ Info(n) # Header /\ Data(v) # Header
  BY <1>2, <1>3, <1>4
<1> QED BY <1>1, <1>2, <1>3, <1>4, <1>5

\* The numbers of the variables, and that their names are told apart.
LEMMA NamesAre ==
    ASSUME fmt \in Formats
    PROVE  /\ N \in Nat /\ N >= 8 /\ fmt \in {"dat", "dyn", "echo"}
           /\ \A i \in 1 .. N : NamesOf(fmt)[i] \in Names
           /\ \A n \in Names : \E i \in 1 .. N : n = NamesOf(fmt)[i]
           /\ \A i, j \in 1 .. N : NamesOf(fmt)[i] = NamesOf(fmt)[j] => i = j
           /\ NamesOf(fmt)[1] = "FileTypeId"
           /\ Chart[fmt] \notin Names \cup {"unknown", "refused", "NULL"}
           /\ "unknown" \notin Names /\ "refused" \notin Names /\ "NULL" \notin Names
           /\ {"FileTypeId", "Position", "DevInfo", "RegInfo"} \subseteq Names
           /\ "Position" # Chart[fmt] /\ "FileTypeId" # Chart[fmt]
<1>1. CASE fmt = "dat"
  <2>1. NamesOf(fmt) = DatNames /\ Chart[fmt] = "OmegaData"
    BY <1>1 DEF NamesOf, Chart
  <2>2. N = 8 /\ Names = {DatNames[i] : i \in 1 .. 8}
    BY <2>1, DatNamesAre DEF N, Names, ToSet
  <2>3. Chart[fmt] \notin {"unknown", "refused", "NULL", "Position", "FileTypeId"}
    BY <2>1
  <2>4. {"FileTypeId", "Position", "DevInfo", "RegInfo"} \subseteq Names
    BY <2>2, DatNamesAre
  <2>5. \A n \in Names : n \notin {Chart[fmt], "unknown", "refused", "NULL"}
    BY <2>1, <2>2, DatNamesAre
  <2>6. /\ \A i \in 1 .. N : NamesOf(fmt)[i] \in Names
        /\ \A n \in Names : \E i \in 1 .. N : n = NamesOf(fmt)[i]
    BY <2>1, <2>2
  <2>7. /\ \A i, j \in 1 .. N : NamesOf(fmt)[i] = NamesOf(fmt)[j] => i = j
        /\ NamesOf(fmt)[1] = "FileTypeId"
    BY <2>1, <2>2, DatNamesAre
  <2>8. N \in Nat /\ N >= 8
    BY <2>2
  <2>9. /\ Chart[fmt] \notin Names \cup {"unknown", "refused", "NULL"}
        /\ "unknown" \notin Names /\ "refused" \notin Names /\ "NULL" \notin Names
        /\ "Position" # Chart[fmt] /\ "FileTypeId" # Chart[fmt]
    BY <2>3, <2>5
  <2> QED BY <1>1, <2>4, <2>6, <2>7, <2>8, <2>9
<1>2. CASE fmt = "dyn"
  <2>1. NamesOf(fmt) = DynNames /\ Chart[fmt] = "DynChart"
    BY <1>2 DEF NamesOf, Chart
  <2>2. N = 26 /\ Names = {DynNames[i] : i \in 1 .. 26}
    BY <2>1, DynNamesAre DEF N, Names, ToSet
  <2>3. Chart[fmt] \notin {"unknown", "refused", "NULL", "Position", "FileTypeId"}
    BY <2>1
  <2>4. {"FileTypeId", "Position", "DevInfo", "RegInfo"} \subseteq Names
    BY <2>2, DynNamesAre
  <2>5. \A n \in Names : n \notin {Chart[fmt], "unknown", "refused", "NULL"}
    BY <2>1, <2>2, DynNamesAre
  <2>6. /\ \A i \in 1 .. N : NamesOf(fmt)[i] \in Names
        /\ \A n \in Names : \E i \in 1 .. N : n = NamesOf(fmt)[i]
    BY <2>1, <2>2
  <2>7. /\ \A i, j \in 1 .. N : NamesOf(fmt)[i] = NamesOf(fmt)[j] => i = j
        /\ NamesOf(fmt)[1] = "FileTypeId"
    BY <2>1, <2>2, DynNamesAre
  <2>8. N \in Nat /\ N >= 8
    BY <2>2
  <2>9. /\ Chart[fmt] \notin Names \cup {"unknown", "refused", "NULL"}
        /\ "unknown" \notin Names /\ "refused" \notin Names /\ "NULL" \notin Names
        /\ "Position" # Chart[fmt] /\ "FileTypeId" # Chart[fmt]
    BY <2>3, <2>5
  <2> QED BY <1>2, <2>4, <2>6, <2>7, <2>8, <2>9
<1>3. CASE fmt = "echo"
  <2>1. NamesOf(fmt) = EchoNames /\ Chart[fmt] = "EchoChart"
    BY <1>3 DEF NamesOf, Chart
  <2>2. N = 21 /\ Names = {EchoNames[i] : i \in 1 .. 21}
    BY <2>1, EchoNamesAre DEF N, Names, ToSet
  <2>3. Chart[fmt] \notin {"unknown", "refused", "NULL", "Position", "FileTypeId"}
    BY <2>1
  <2>4. {"FileTypeId", "Position", "DevInfo", "RegInfo"} \subseteq Names
    BY <2>2, EchoNamesAre
  <2>5. \A n \in Names : n \notin {Chart[fmt], "unknown", "refused", "NULL"}
    BY <2>1, <2>2, EchoNamesAre
  <2>6. /\ \A i \in 1 .. N : NamesOf(fmt)[i] \in Names
        /\ \A n \in Names : \E i \in 1 .. N : n = NamesOf(fmt)[i]
    BY <2>1, <2>2
  <2>7. /\ \A i, j \in 1 .. N : NamesOf(fmt)[i] = NamesOf(fmt)[j] => i = j
        /\ NamesOf(fmt)[1] = "FileTypeId"
    BY <2>1, <2>2, EchoNamesAre
  <2>8. N \in Nat /\ N >= 8
    BY <2>2
  <2>9. /\ Chart[fmt] \notin Names \cup {"unknown", "refused", "NULL"}
        /\ "unknown" \notin Names /\ "refused" \notin Names /\ "NULL" \notin Names
        /\ "Position" # Chart[fmt] /\ "FileTypeId" # Chart[fmt]
    BY <2>3, <2>5
  <2> QED BY <1>3, <2>4, <2>6, <2>7, <2>8, <2>9
<1> QED BY <1>1, <1>2, <1>3, FormatsAssumption

\* The variables that others need.
LEMMA SpecialNames ==
    ASSUME fmt \in Formats
    PROVE  /\ fmt = "dat" => Names \cap (Special \cup {"Discrete"}) = {}
           /\ fmt = "dyn" => /\ N = 26 /\ "Level" \notin Names /\ "Discrete" \notin Names
                             /\ Weights \cup Positions \cup {"Period"} \subseteq Names
                             /\ {"LoadStep", "TimeStep", "TravelStep"} \subseteq Names
           /\ fmt = "echo" => N = 21 /\ Names \cap Special = {"Level"} /\ "Discrete" \in Names
<1>1. CASE fmt = "dat"
  <2>1. NamesOf(fmt) = DatNames
    BY <1>1 DEF NamesOf
  <2>2. Names = {DatNames[i] : i \in 1 .. 8}
    BY <2>1, DatNamesAre DEF Names, ToSet
  <2>3. \A i \in 1 .. 8 : DatNames[i] \notin {"Travel", "BeginPos", "Level", "Discrete"}
    <3> TAKE i \in 1 .. 8
    <3>1. i = 1 \/ i = 2 \/ i = 3 \/ i = 4 \/ i = 5 \/ i = 6 \/ i = 7 \/ i = 8
      OBVIOUS
    <3> QED BY <3>1, DatNamesAre
  <2> QED BY <1>1, <2>2, <2>3 DEF Special, Positions
<1>2. CASE fmt = "dyn"
  <2>1. NamesOf(fmt) = DynNames
    BY <1>2 DEF NamesOf
  <2>2. N = 26 /\ Names = {DynNames[i] : i \in 1 .. 26}
    BY <2>1, DynNamesAre DEF N, Names, ToSet
  <2>3. \A i \in 1 .. 26 : DynNames[i] \notin {"Level", "Discrete"}
    <3> TAKE i \in 1 .. 26
    <3>1. \/ i = 1 \/ i = 2 \/ i = 3 \/ i = 4 \/ i = 5 \/ i = 6 \/ i = 7 \/ i = 8
          \/ i = 9 \/ i = 10 \/ i = 11 \/ i = 12 \/ i = 13 \/ i = 14 \/ i = 15 \/ i = 16
          \/ i = 17 \/ i = 18 \/ i = 19 \/ i = 20 \/ i = 21 \/ i = 22 \/ i = 23 \/ i = 24
          \/ i = 25 \/ i = 26
      OBVIOUS
    <3> QED BY <3>1, DynNamesAre
  <2>4. Weights \cup Positions \cup {"Period"} \subseteq Names
    BY <2>2, DynNamesAre DEF Weights, Positions
  <2>5. {"LoadStep", "TimeStep", "TravelStep"} \subseteq Names
    BY <2>2, DynNamesAre
  <2>6. "Level" \notin Names /\ "Discrete" \notin Names
    BY <2>2, <2>3
  <2> QED BY <1>2, <2>2, <2>4, <2>5, <2>6
<1>3. CASE fmt = "echo"
  <2>1. NamesOf(fmt) = EchoNames
    BY <1>3 DEF NamesOf
  <2>2. N = 21 /\ Names = {EchoNames[i] : i \in 1 .. 21}
    BY <2>1, EchoNamesAre DEF N, Names, ToSet
  <2>3. \A i \in 1 .. 21 : EchoNames[i] \notin {"Travel", "BeginPos"}
    <3> TAKE i \in 1 .. 21
    <3>1. \/ i = 1 \/ i = 2 \/ i = 3 \/ i = 4 \/ i = 5 \/ i = 6 \/ i = 7 \/ i = 8
          \/ i = 9 \/ i = 10 \/ i = 11 \/ i = 12 \/ i = 13 \/ i = 14 \/ i = 15 \/ i = 16
          \/ i = 17 \/ i = 18 \/ i = 19 \/ i = 20 \/ i = 21
      OBVIOUS
    <3> QED BY <3>1, EchoNamesAre
  <2>4. "Level" \in Names /\ "Discrete" \in Names
    BY <2>2, EchoNamesAre
  <2>5. "Travel" \notin Names /\ "BeginPos" \notin Names
    BY <2>2, <2>3
  <2>6. Names \cap Special = {"Level"}
    BY <2>4, <2>5 DEF Special, Positions
  <2> QED BY <1>3, <2>2, <2>4, <2>6
<1> QED BY <1>1, <1>2, <1>3, NamesAre

\* What the fields of a source are.
LEMMA SourceIs ==
    ASSUME fmt \in Formats, src \in Sources[fmt]
    PROVE  /\ DOMAIN src.vars = Names \ {"Discrete"}
           /\ \A n \in Names \ {"Discrete"} : src.vars[n] \in Fields(fmt, n)
           /\ fmt = "dyn" => \A n \in Weights \cup Positions \cup {"Period"} :
                                 src.vars[n] * src.vars[StepOf(n)] <= MaxInt
           /\ src.chart \in Seq(Points(fmt)) /\ Len(src.chart) \in Nat
           /\ fmt # "dat" => Len(src.chart) <= ArrayLen
<1>1. /\ DOMAIN src.vars = Names \ {"Discrete"}
      /\ \A n \in DOMAIN src.vars : src.vars[n] \in Fields(fmt, n)
      /\ fmt = "dyn" => \A n \in Weights \cup Positions \cup {"Period"} :
                            src.vars[n] * src.vars[StepOf(n)] <= MaxInt
      /\ src.chart \in Seq(Points(fmt))
      /\ fmt # "dat" => Len(src.chart) <= ArrayLen
  BY SourcesAssumption DEF Names
<1>2. Len(src.chart) \in Nat
  BY <1>1, LenProperties
<1> QED BY <1>1, <1>2

\* Each is a whole number; some are not below 0.
LEMMA FieldsAre ==
    ASSUME fmt \in Formats, src \in Sources[fmt]
    PROVE  /\ \A n \in Names \ {"Discrete"} : src.vars[n] \in Int
           /\ src.vars["Position"] \in 0 .. 6
           /\ \A n \in ChartInfos \cap Names : src.vars[n] = 0
           /\ fmt = "dyn" =>
                \A n \in Weights \cup Positions \cup {"Period", "LoadStep", "TimeStep", "TravelStep"} :
                    n \in Names \ {"Discrete"} /\ src.vars[n] \in Uint16
           /\ fmt = "echo" /\ "Reflections" \in Names =>
                src.vars["Reflections"] \in TwoDigits
           /\ fmt = "echo" => src.vars["Level"] \in Uint16
<1>1. ASSUME NEW n \in Names \ {"Discrete"}
      PROVE  src.vars[n] \in Int
  <2>1. src.vars[n] \in Fields(fmt, n)
    BY SourceIs
  <2>2. \A d, u \in 0 .. 9 : 16 * d + u \in Int
    OBVIOUS
  <2>3. TwoDigits \subseteq Int
    BY <2>2 DEF TwoDigits
  <2>4. Uint16 \subseteq Int /\ (0 .. 6) \subseteq Int /\ {0} \subseteq Int
    BY DEF Uint16
  <2> HIDE DEF Uint16
  <2>5. Fields(fmt, n) \subseteq Int
    BY <2>3, <2>4, Zenon DEF Fields
  <2> QED BY <2>1, <2>5
<1>2. src.vars["Position"] \in 0 .. 6
  <2>1. "Position" \in Names \ {"Discrete"}
    BY NamesAre
  <2>2. Fields(fmt, "Position") = 0 .. 6
    BY DEF Fields, ChartInfos, Weights, Positions
  <2> QED BY <2>1, <2>2, SourceIs
<1>3. ASSUME NEW n \in ChartInfos \cap Names
      PROVE  src.vars[n] = 0
  <2>1. n \in Names \ {"Discrete"} /\ n # "Position"
    BY DEF ChartInfos
  <2>2. Fields(fmt, n) = {0}
    BY <2>1 DEF Fields, ChartInfos, Weights, Positions
  <2> QED BY <2>1, <2>2, SourceIs
<1>4. ASSUME fmt = "dyn", NEW n \in Weights \cup Positions \cup {"Period", "LoadStep", "TimeStep", "TravelStep"}
      PROVE  n \in Names \ {"Discrete"} /\ src.vars[n] \in Uint16
  <2>1. n \in Names \ {"Discrete"}
    BY <1>4, SpecialNames DEF Weights, Positions
  <2>2. n # "Position" /\ n # "Reflections" /\ n \notin ChartInfos
    BY <1>4 DEF Weights, Positions, ChartInfos
  <2>3. Fields(fmt, n) = Uint16
    BY <1>4, <2>2 DEF Fields, ChartInfos, Weights, Positions
  <2>4. src.vars[n] \in Fields(fmt, n)
    BY <2>1, SourceIs
  <2> QED BY <2>1, <2>3, <2>4
<1>5. ASSUME fmt = "echo", "Reflections" \in Names
      PROVE  src.vars["Reflections"] \in TwoDigits
  <2>1. Fields(fmt, "Reflections") = TwoDigits
    BY DEF Fields, ChartInfos, Weights, Positions
  <2>2. "Reflections" \in Names \ {"Discrete"}
    BY <1>5
  <2>3. src.vars["Reflections"] \in Fields(fmt, "Reflections")
    BY <2>2, SourceIs
  <2> QED BY <2>1, <2>3, Zenon
<1>6. ASSUME fmt = "echo"
      PROVE  src.vars["Level"] \in Uint16
  <2>1. Fields(fmt, "Level") = Uint16
    BY <1>6 DEF Fields, ChartInfos, Weights, Positions
  <2>2. "Level" \in Names \ {"Discrete"}
    BY <1>6, SpecialNames
  <2>3. src.vars["Level"] \in Fields(fmt, "Level")
    BY <2>2, SourceIs
  <2> QED BY <2>1, <2>3
<1> QED BY <1>1, <1>2, <1>3, <1>4, <1>5, <1>6

\* 16 bits.
LEMMA Uint16Is == \A v \in Uint16 : v \in Nat /\ v <= 65535 /\ v < 65536
<1> DEFINE m == 65535
<1>1. m \in Nat /\ m + 1 = 65536 /\ m = 65535
  OBVIOUS
<1>2. m \in Nat
  OBVIOUS
<1>3. Uint16 = 0 .. m
  BY SMT DEF Uint16
<1> HIDE DEF m
<1>4. \A v \in 0 .. m : v \in Nat /\ v <= m /\ v < m + 1
  BY <1>2
<1>5. \A v \in Uint16 : v \in Nat /\ v <= m /\ v < m + 1
  BY <1>3, <1>4, Zenon
<1> QED BY <1>1, <1>5

\* What a variable may be once it has gone through EDF, format by format.
LEMMA KeepsIs ==
    ASSUME fmt \in Formats, NEW n \in Names
    PROVE  /\ n = "Discrete" => Keeps(n) = {DiscreteBit(src.vars["Level"])}
           /\ n # "Discrete" => Keeps(n) = Kept(n)
           /\ n = "Position" => Keeps(n) = {src.vars[n], -src.vars[n]}
           /\ fmt = "dat" /\ n # "Position" => Keeps(n) = {src.vars[n]}
           /\ fmt = "dyn" /\ n \in Positions =>
                Keeps(n) = IF src.vars["TravelStep"] = 0 THEN {0} ELSE {src.vars[n], src.vars[n] - 1}
           /\ fmt = "dyn" /\ n \in {"Pressure", "BufPressure", "LinePressure"} => Keeps(n) = {0}
           /\ fmt = "dyn" /\ n \notin Positions \cup {"Position", "Pressure", "BufPressure", "LinePressure"} =>
                Keeps(n) = {src.vars[n]}
           /\ fmt = "echo" /\ n = "Mode" => Keeps(n) = {0}
           /\ fmt = "echo" /\ n \notin {"Position", "Mode", "Discrete"} => Keeps(n) = {src.vars[n]}
<1>1. n = "Discrete" => Keeps(n) = {DiscreteBit(src.vars["Level"])}
  BY DEF Keeps
<1>2. n # "Discrete" => Keeps(n) = Kept(n)
  BY DEF Keeps
<1>3. n = "Position" => Kept(n) = {src.vars[n], -src.vars[n]}
  BY DEF Kept, Positions
<1>4. fmt = "dat" /\ n # "Position" => Kept(n) = {src.vars[n]}
  BY DEF Kept
<1>5. fmt = "dyn" /\ n \in Positions =>
        Kept(n) = IF src.vars["TravelStep"] = 0 THEN {0} ELSE {src.vars[n], src.vars[n] - 1}
  BY DEF Kept, Positions
<1>6. fmt = "dyn" /\ n \in {"Pressure", "BufPressure", "LinePressure"} => Kept(n) = {0}
  BY DEF Kept, Positions
<1>7. fmt = "dyn" /\ n \notin Positions \cup {"Position", "Pressure", "BufPressure", "LinePressure"} =>
        Kept(n) = {src.vars[n]}
  BY DEF Kept
<1>8. fmt = "echo" /\ n = "Mode" => Kept(n) = {0}
  BY DEF Kept
<1>9. fmt = "echo" /\ n \notin {"Position", "Mode"} => Kept(n) = {src.vars[n]}
  BY DEF Kept
<1>10. "Discrete" \notin Positions \cup {"Position", "Pressure", "BufPressure", "LinePressure", "Mode"}
  BY DEF Positions
<1>11. fmt \in {"dyn", "dat"} => n # "Discrete"
  BY SpecialNames
<1> QED BY <1>1, <1>2, <1>3, <1>4, <1>5, <1>6, <1>7, <1>8, <1>9, <1>10, <1>11

\* A variable that needs no other, or only a step that has been read, comes back.
LEMMA ReadBack ==
    ASSUME fmt \in Formats, src \in Sources[fmt], NEW n \in Names \ Special,
           dat[n] \in {First(n)} \cup Keeps(n),
           fmt = "dyn" /\ n \in Weights \cup {"Period"} =>
                dat[StepOf(n)] = src.vars[StepOf(n)] /\ src.vars[StepOf(n)] # 0
    PROVE  Read(n, Written(n)) \in Keeps(n)
<1>1. CASE n = "Position"
  <2>1. Read(n, Written(n)) = PositionRead(Written(n))
    BY <1>1 DEF Read
  <2>2. Written(n) = src.vars[n]
    BY <1>1, NamesAre DEF Written, DynWritten, EchoWritten, Weights, Positions
  <2>3. src.vars[n] \in Int
    BY <1>1, FieldsAre
  <2>4. PositionRead(src.vars[n]) \in {src.vars[n], -src.vars[n]}
    BY <2>3 DEF PositionRead
  <2> QED BY <1>1, <2>1, <2>2, <2>4, KeepsIs
<1>2. CASE n # "Position" /\ fmt = "dat"
  <2>1. Read(n, Written(n)) = DatRead(n, src.vars[n])
    BY <1>2 DEF Read, Written
  <2>2. Keeps(n) = {src.vars[n]}
    BY <1>2, KeepsIs
  <2>3. CASE n = "ChartInfo"
    <3>1. src.vars[n] = 0
      BY <2>3, FieldsAre DEF ChartInfos
    <3>2. First(n) = 0
      BY <2>3 DEF First
    <3> QED BY <2>1, <2>2, <2>3, <3>1, <3>2 DEF DatRead
  <2>4. CASE n # "ChartInfo"
    BY <2>1, <2>2, <2>4 DEF DatRead
  <2> QED BY <2>3, <2>4
<1>3. CASE n # "Position" /\ fmt = "dyn"
  <2>1. Read(n, Written(n)) = DynRead(n, DynWritten(n))
    BY <1>3 DEF Read, Written
  <2>2. n \notin Positions
    BY DEF Special
  <2>3. CASE n \in Weights \cup {"Period"}
    <3>1. Keeps(n) = {src.vars[n]}
      BY <1>3, <2>2, <2>3, KeepsIs DEF Weights
    <3>2. n \notin {"Pressure", "BufPressure", "LinePressure", "DynamogrammChartInfo"}
      BY <2>3 DEF Weights
    <3>3. DynWritten(n) = src.vars[n] * src.vars[StepOf(n)]
      BY <2>2, <2>3 DEF DynWritten
    <3>4. DynRead(n, DynWritten(n)) = (DynWritten(n) \div dat[StepOf(n)]) % 65536
      BY <2>2, <2>3, <3>2 DEF DynRead
    <3>5. StepOf(n) \in {"LoadStep", "TimeStep"}
      BY <2>3 DEF StepOf, Weights, Positions
    <3>6. src.vars[n] \in Uint16 /\ src.vars[StepOf(n)] \in Uint16
      BY <1>3, <2>3, <3>5, FieldsAre
    <3>7. src.vars[n] \in Int /\ src.vars[StepOf(n)] \in Nat \ {0}
      BY <1>3, <2>3, <3>6, Uint16Is
    <3>8. (src.vars[n] * src.vars[StepOf(n)]) \div src.vars[StepOf(n)] = src.vars[n]
      BY <3>7, StepsBack
    <3>9. src.vars[n] % 65536 = src.vars[n]
      BY <3>6, Uint16Is, ModSmall
    <3> QED BY <1>3, <2>1, <2>3, <3>1, <3>3, <3>4, <3>8, <3>9
  <2>4. CASE n \in {"Pressure", "BufPressure", "LinePressure", "DynamogrammChartInfo"}
    <3>1. DynRead(n, DynWritten(n)) = dat[n]
      BY <2>2, <2>4 DEF DynRead, Weights, Positions
    <3>2. First(n) = 0
      BY <2>4 DEF First
    <3>3. n # "DynamogrammChartInfo" => Keeps(n) = {0}
      BY <1>3, <2>4, KeepsIs
    <3>4. n = "DynamogrammChartInfo" => Keeps(n) = {src.vars[n]} /\ src.vars[n] = 0
      BY <1>3, <2>2, KeepsIs, FieldsAre DEF ChartInfos
    <3> QED BY <2>1, <3>1, <3>2, <3>3, <3>4
  <2>5. CASE n \notin Weights \cup {"Period"} \cup {"Pressure", "BufPressure", "LinePressure", "DynamogrammChartInfo"}
    <3>1. DynWritten(n) = src.vars[n]
      BY <2>2, <2>5 DEF DynWritten
    <3>2. DynRead(n, DynWritten(n)) = src.vars[n]
      BY <2>2, <2>5, <3>1 DEF DynRead
    <3>3. Keeps(n) = {src.vars[n]}
      BY <1>3, <2>2, <2>5, KeepsIs
    <3> QED BY <2>1, <3>2, <3>3
  <2> QED BY <2>3, <2>4, <2>5
<1>4. CASE n # "Position" /\ fmt = "echo"
  <2>1. Read(n, Written(n)) = EchoRead(n, EchoWritten(n))
    BY <1>4 DEF Read, Written
  <2>2. n # "Level"
    BY DEF Special
  <2>3. CASE n = "Reflections"
    <3>1. EchoWritten(n) = ExtractReflections(src.vars[n])
      BY <2>3 DEF EchoWritten
    <3>2. EchoRead(n, EchoWritten(n)) = PackReflections(EchoWritten(n))
      BY <2>3 DEF EchoRead
    <3>3. src.vars[n] \in TwoDigits
      BY <1>4, <2>3, FieldsAre
    <3>4. PackReflections(ExtractReflections(src.vars[n])) = src.vars[n]
      BY <3>3, ReflectionsBack
    <3>5. Keeps(n) = {src.vars[n]}
      BY <1>4, <2>3, KeepsIs
    <3> QED BY <2>1, <3>1, <3>2, <3>4, <3>5
  <2>4. CASE n \in {"Mode", "EchoChartInfo"}
    <3>1. EchoRead(n, EchoWritten(n)) = dat[n]
      BY <2>4 DEF EchoRead
    <3>2. First(n) = 0
      BY <2>4 DEF First
    <3>3. n = "Mode" => Keeps(n) = {0}
      BY <1>4, KeepsIs
    <3>4. n = "EchoChartInfo" => Keeps(n) = {src.vars[n]} /\ src.vars[n] = 0
      BY <1>4, KeepsIs, FieldsAre DEF ChartInfos
    <3> QED BY <2>1, <2>4, <3>1, <3>2, <3>3, <3>4
  <2>5. CASE n = "Discrete"
    <3>1. EchoRead(n, EchoWritten(n)) = DiscreteBit(src.vars["Level"])
      BY <2>5 DEF EchoRead, EchoWritten
    <3>2. Keeps(n) = {DiscreteBit(src.vars["Level"])}
      BY <2>5, KeepsIs
    <3> QED BY <2>1, <3>1, <3>2
  <2>6. CASE n \notin {"Reflections", "Mode", "EchoChartInfo", "Discrete"}
    <3>1. EchoRead(n, EchoWritten(n)) = src.vars[n]
      BY <2>2, <2>6 DEF EchoRead, EchoWritten
    <3>2. Keeps(n) = {src.vars[n]}
      BY <1>4, <2>6, KeepsIs
    <3> QED BY <2>1, <3>1, <3>2
  <2> QED BY <2>3, <2>4, <2>5, <2>6
<1> QED BY <1>1, <1>2, <1>3, <1>4, NamesAre

\* A travel needs its step, the level of a liquid the length of a discrete.
LEMMA SpecialBack ==
    ASSUME fmt \in Formats, src \in Sources[fmt], NEW n \in Names \cap Special,
           fmt = "dyn" => dat["TravelStep"] = src.vars["TravelStep"],
           fmt = "echo" => dat["Discrete"] = DiscreteBit(src.vars["Level"])
    PROVE  Read(n, Written(n)) \in Keeps(n)
<1>1. CASE fmt = "dyn"
  <2>1. n \in Positions
    BY <1>1, SpecialNames DEF Special
  <2>2. n # "Position" /\ n \notin Weights \cup {"Period", "Pressure", "BufPressure", "LinePressure", "DynamogrammChartInfo"}
    BY <2>1 DEF Positions, Weights
  <2> DEFINE s == src.vars["TravelStep"]
  <2>3. StepOf(n) = "TravelStep"
    BY <2>1 DEF StepOf, Positions, Weights
  <2>4. Written(n) = Tenth(src.vars[n] * s)
    BY <1>1, <2>1, <2>2, <2>3 DEF Written, DynWritten
  <2>5. Read(n, Written(n)) = IF s = 0 THEN 0 ELSE TruncatedTenth(Written(n), s) % 65536
    BY <1>1, <2>1, <2>2, <2>3 DEF Read, DynRead
  <2>6. src.vars[n] \in Uint16 /\ s \in Uint16
    BY <1>1, <2>1, FieldsAre
  <2>7. src.vars[n] * s <= MaxInt
    BY <1>1, <2>1, <2>3, SourceIs
  <2>8. Keeps(n) = IF s = 0 THEN {0} ELSE {src.vars[n], src.vars[n] - 1}
    BY <1>1, <2>1, KeepsIs
  <2>9. CASE s = 0
    BY <2>5, <2>8, <2>9
  <2>10. CASE s # 0
    <3>1. src.vars[n] \in Nat /\ src.vars[n] <= 65535 /\ s \in Nat \ {0}
      BY <2>6, <2>10, Uint16Is
    <3>2. TruncatedTenth(Tenth(src.vars[n] * s), s) % 65536 \in {src.vars[n], src.vars[n] - 1}
      BY <2>7, <3>1, TravelBack
    <3> QED BY <2>4, <2>5, <2>8, <2>10, <3>2
  <2> QED BY <2>9, <2>10
<1>2. CASE fmt = "echo"
  <2>1. n = "Level"
    BY <1>2, SpecialNames
  <2> DEFINE bit == DiscreteBit(src.vars["Level"])
  <2>2. Written(n) = src.vars[n] - 16384 * bit
    BY <1>2, <2>1 DEF Written, EchoWritten
  <2>3. Read(n, Written(n)) = Written(n) + 16384 * bit
    BY <1>2, <2>1 DEF Read, EchoRead
  <2>4. src.vars[n] \in Int /\ bit \in Int
    <3>1. src.vars["Level"] \in Uint16
      BY <1>2, FieldsAre
    <3>2. src.vars["Level"] \in Int
      BY <3>1, Uint16Is
    <3> QED BY <2>1, <3>2 DEF DiscreteBit
  <2>5. Keeps(n) = {src.vars[n]}
    BY <1>2, <2>1, KeepsIs
  <2> HIDE DEF bit
  <2> QED BY <2>2, <2>3, <2>4, <2>5
<1>3. CASE fmt = "dat"
  BY <1>3, SpecialNames
<1> QED BY <1>1, <1>2, <1>3, NamesAre

-----------------------------------------------------------------------------
(* The units of blocks *)

\* Units come one behind the other.
LEMMA UnitsBehind ==
    /\ \A x, y, z \in Seq(Unit) : (x \o y) \o z = x \o (y \o z)
    /\ \A x, y \in Seq(Unit) :
         /\ x \o y \in Seq(Unit) /\ Len(x) \in Nat /\ Len(y) \in Nat /\ Len(x \o y) = Len(x) + Len(y)
         /\ \A i \in 1 .. Len(x) + Len(y) : (x \o y)[i] = IF i <= Len(x) THEN x[i] ELSE y[i - Len(x)]
<1>1. \A x, y, z \in Seq(Unit) : (x \o y) \o z = x \o (y \o z)
  BY ConcatAssociative
<1>2. ASSUME NEW x \in Seq(Unit), NEW y \in Seq(Unit)
      PROVE  /\ x \o y \in Seq(Unit) /\ Len(x) \in Nat /\ Len(y) \in Nat /\ Len(x \o y) = Len(x) + Len(y)
             /\ \A i \in 1 .. Len(x) + Len(y) : (x \o y)[i] = IF i <= Len(x) THEN x[i] ELSE y[i - Len(x)]
  BY ConcatProperties, LenProperties
<1> QED BY <1>1, <1>2

\* The units of some blocks.
LEMMA GotIs ==
    ASSUME NEW f, NEW c \in Nat, NEW j \in Nat, HaveUnits(f, c, j)
    PROVE  Got(f, c, j) \in Seq(Unit) /\ Len(Got(f, c, j)) \in Nat
<1> DEFINE ss == [i \in 1 .. j |-> UnitsAt(f, c + i)]
<1>0. \A i \in 1 .. j : UnitsAt(f, c + i) \in Seq(Unit)
  BY DEF HaveUnits
<1>1. /\ ss \in Seq(Seq(Unit)) /\ Len(ss) = j /\ \A i \in 1 .. j : ss[i] = UnitsAt(f, c + i)
  BY <1>0
<1>2. Got(f, c, j) = FlattenSeq(ss)
  BY DEF Got
<1> HIDE DEF ss
<1>3. FlattenSeq(ss) \in Seq(Unit) /\ Len(FlattenSeq(ss)) \in Nat
  <2>1. j \in 0 .. Len(ss)
    BY <1>1
  <2>2. FlattenSeq(ss) \in Seq(Unit)
    BY <1>1, <2>1, FlattenFront
  <2> QED BY <2>2, LenProperties
<1> QED BY <1>2, <1>3

\* Those of the last are behind those of the others.
LEMMA GotBack ==
    ASSUME NEW f, NEW c \in Nat, NEW j \in Nat \ {0}, HaveUnits(f, c, j)
    PROVE  Got(f, c, j) = Got(f, c, j - 1) \o UnitsAt(f, c + j)
<1> DEFINE ss == [i \in 1 .. j |-> UnitsAt(f, c + i)]
<1>0. \A i \in 1 .. j : UnitsAt(f, c + i) \in Seq(Unit)
  BY DEF HaveUnits
<1>1. /\ ss \in Seq(Seq(Unit)) /\ Len(ss) = j /\ \A i \in 1 .. j : ss[i] = UnitsAt(f, c + i)
  BY <1>0
<1>2. Got(f, c, j) = FlattenSeq(ss)
  BY DEF Got
<1> HIDE DEF ss
<1>3. FlattenSeq(ss) = Got(f, c, j - 1) \o UnitsAt(f, c + j)
  <2> DEFINE tt == [i \in 1 .. j - 1 |-> UnitsAt(f, c + i)]
  <2>1. /\ tt \in Seq(Seq(Unit)) /\ Len(tt) = j - 1 /\ \A i \in 1 .. j - 1 : tt[i] = UnitsAt(f, c + i)
    <3>1. j - 1 \in Nat /\ \A i \in 1 .. j - 1 : i \in 1 .. j
      OBVIOUS
    <3>2. \A i \in 1 .. j - 1 : UnitsAt(f, c + i) \in Seq(Unit)
      BY <1>0, <3>1
    <3> QED BY <3>1, <3>2
  <2>2. Got(f, c, j - 1) = FlattenSeq(tt)
    BY DEF Got
  <2> HIDE DEF tt
  <2>3. UnitsAt(f, c + j) \in Seq(Unit)
    BY <1>0
  <2>4. /\ Append(tt, UnitsAt(f, c + j)) \in Seq(Seq(Unit)) /\ Len(Append(tt, UnitsAt(f, c + j))) = j
        /\ \A i \in 1 .. j : Append(tt, UnitsAt(f, c + j))[i] = UnitsAt(f, c + i)
    <3>1. /\ Append(tt, UnitsAt(f, c + j)) \in Seq(Seq(Unit)) /\ Len(Append(tt, UnitsAt(f, c + j))) = (j - 1) + 1
          /\ \A i \in 1 .. j - 1 : Append(tt, UnitsAt(f, c + j))[i] = tt[i]
          /\ Append(tt, UnitsAt(f, c + j))[(j - 1) + 1] = UnitsAt(f, c + j)
      BY <2>1, <2>3, AppendProperties
    <3>2. (j - 1) + 1 = j
      OBVIOUS
    <3>3. ASSUME NEW i \in 1 .. j PROVE Append(tt, UnitsAt(f, c + j))[i] = UnitsAt(f, c + i)
      <4>1. CASE i = j
        BY <3>1, <3>2, <4>1
      <4>2. CASE i # j
        <5>1. i \in 1 .. j - 1
          BY <4>2
        <5> QED BY <2>1, <3>1, <5>1
      <4> QED BY <4>1, <4>2
    <3> QED BY <3>1, <3>2, <3>3
  <2> DEFINE aa == Append(tt, UnitsAt(f, c + j))
  <2> HIDE DEF aa
  <2>5. aa = ss
    <3>1. aa \in Seq(Seq(Unit)) /\ Len(aa) = j /\ \A i \in 1 .. j : aa[i] = UnitsAt(f, c + i)
      BY <2>4 DEF aa
    <3>2. \A i \in 1 .. Len(aa) : aa[i] = ss[i]
      BY <1>1, <3>1
    <3> QED BY <1>1, <3>1, <3>2, SameSeq
  <2>6. FlattenSeq(aa) = FlattenSeq(tt) \o UnitsAt(f, c + j)
    BY <2>1, <2>3, FlattenAppend DEF aa
  <2> QED BY <2>2, <2>5, <2>6
<1> QED BY <1>2, <1>3

\* One block more.
LEMMA GotNext ==
    ASSUME NEW f, NEW c \in Nat, NEW j \in Nat, HaveUnits(f, c, j + 1)
    PROVE  Got(f, c, j + 1) = Got(f, c, j) \o UnitsAt(f, c + (j + 1))
<1> DEFINE n == j + 1
<1>1. n \in Nat \ {0} /\ HaveUnits(f, c, n) /\ n - 1 = j
  OBVIOUS
<1> HIDE DEF n
<1>2. Got(f, c, n) = Got(f, c, n - 1) \o UnitsAt(f, c + n)
  BY <1>1, GotBack
<1> QED BY <1>1, <1>2 DEF n

\* No block, no units.
LEMMA GotNone ==
    ASSUME NEW f, NEW c \in Nat
    PROVE  Got(f, c, 0) = <<>>
<1>1. [i \in 1 .. 0 |-> UnitsAt(f, c + i)] \in Seq(Int) /\ Len([i \in 1 .. 0 |-> UnitsAt(f, c + i)]) = 0
  <2>1. 0 \in Nat /\ \A i \in 1 .. 0 : UnitsAt(f, c + i) \in Int
    OBVIOUS
  <2> QED BY <2>1
<1>2. [i \in 1 .. 0 |-> UnitsAt(f, c + i)] = <<>>
  BY <1>1, EmptyLen
<1> QED BY <1>2, FlattenEmpty DEF Got

\* The same blocks have the same units, wherever they are.
LEMMA GotSame ==
    ASSUME NEW f, NEW g, NEW c \in Nat, NEW b \in Nat, NEW j \in Nat,
           SameUnits(f, c, g, b, j)
    PROVE  Got(f, c, j) = Got(g, b, j)
<1>1. [i \in 1 .. j |-> UnitsAt(f, c + i)] = [i \in 1 .. j |-> UnitsAt(g, b + i)]
  BY DEF SameUnits
<1> QED BY <1>1 DEF Got

\* What the first blocks have is the beginning of what more have.
LEMMA GotBegins ==
    ASSUME NEW f, NEW c \in Nat, NEW j \in Nat, HaveUnits(f, c, j),
           NEW k \in 0 .. j
    PROVE  Begins(Got(f, c, k), Got(f, c, j))
<1> DEFINE ss == [i \in 1 .. j |-> UnitsAt(f, c + i)]
<1>0. \A i \in 1 .. j : UnitsAt(f, c + i) \in Seq(Unit)
  BY DEF HaveUnits
<1>1. /\ ss \in Seq(Seq(Unit)) /\ Len(ss) = j /\ \A i \in 1 .. j : ss[i] = UnitsAt(f, c + i)
  BY <1>0
<1>2. Got(f, c, j) = FlattenSeq(ss)
  BY DEF Got
<1> DEFINE tt == [i \in 1 .. k |-> UnitsAt(f, c + i)]
<1>3. /\ tt \in Seq(Seq(Unit)) /\ Len(tt) = k /\ \A i \in 1 .. k : tt[i] = UnitsAt(f, c + i)
  <2>1. k \in Nat /\ \A i \in 1 .. k : UnitsAt(f, c + i) \in Seq(Unit)
    BY <1>0
  <2> QED BY <2>1
<1>4. Got(f, c, k) = FlattenSeq(tt)
  BY DEF Got
<1> HIDE DEF ss, tt
<1>5. tt = SubSeq(ss, 1, k)
  <2>1. k \in 0 .. Len(ss) /\ k \in Nat
    BY <1>1
  <2> DEFINE s == SubSeq(ss, 1, k)
  <2>2. s \in Seq(Seq(Unit)) /\ Len(s) = k
    BY <1>1, <2>1, FrontOf
  <2>3. \A i \in 1 .. k : s[i] = ss[i]
    BY <1>1, <2>1
  <2> HIDE DEF s
  <2>4. ASSUME NEW i \in 1 .. Len(tt) PROVE tt[i] = s[i]
    <3>1. i \in 1 .. k /\ i \in 1 .. j
      BY <1>3, <2>1
    <3> QED BY <1>1, <1>3, <2>3, <3>1
  <2>5. tt = s
    BY <1>3, <2>2, <2>4, SameSeq
  <2> QED BY <2>5 DEF s
<1>6. k \in 0 .. Len(ss)
  BY <1>1
<1> QED BY <1>1, <1>2, <1>4, <1>5, <1>6, FlattenFront

-----------------------------------------------------------------------------
(* Blocks put in and taken out *)

\* A piece of a sequence.
LEMMA PieceIs ==
    ASSUME NEW T, NEW s \in Seq(T), NEW m \in Nat \ {0}, NEW n \in 0 .. Len(s), m <= n + 1
    PROVE  /\ SubSeq(s, m, n) \in Seq(T) /\ Len(SubSeq(s, m, n)) = n - m + 1
           /\ \A i \in 1 .. n - m + 1 : SubSeq(s, m, n)[i] = s[m + i - 1]
<1>1. Len(s) \in Nat
  BY LenProperties
<1>2. \A i \in m .. n : s[i] \in T
  <2> TAKE i \in m .. n
  <2>1. i \in 1 .. Len(s)
    BY <1>1
  <2> QED BY <2>1, ElementOfSeq
<1>3. m \in Int /\ n \in Int /\ (m <= n \/ n - m + 1 = 0)
  BY <1>1
<1>4. /\ SubSeq(s, m, n) \in Seq(T)
      /\ Len(SubSeq(s, m, n)) = IF m <= n THEN n - m + 1 ELSE 0
      /\ \A i \in 1 .. n - m + 1 : SubSeq(s, m, n)[i] = s[m + i - 1]
  BY <1>2, <1>3, SubSeqProperties
<1> QED BY <1>1, <1>3, <1>4

\* One element more.
LEMMA InsertIs ==
    ASSUME NEW T, NEW s \in Seq(T), NEW p \in 1 .. Len(s) + 1, NEW x \in T
    PROVE  /\ InsertAt(s, p, x) \in Seq(T) /\ Len(InsertAt(s, p, x)) = Len(s) + 1
           /\ \A k \in 1 .. p - 1 : InsertAt(s, p, x)[k] = s[k]
           /\ InsertAt(s, p, x)[p] = x
           /\ \A k \in p + 1 .. Len(s) + 1 : InsertAt(s, p, x)[k] = s[k - 1]
<1> DEFINE a == SubSeq(s, 1, p - 1)
           b == <<x>>
           d == SubSeq(s, p, Len(s))
<1>1. Len(s) \in Nat /\ p \in Nat \ {0} /\ p - 1 \in 0 .. Len(s) /\ Len(s) \in 0 .. Len(s)
  BY LenProperties
<1>2. a \in Seq(T) /\ Len(a) = p - 1 /\ \A k \in 1 .. p - 1 : a[k] = s[k]
  <2>1. /\ a \in Seq(T) /\ Len(a) = (p - 1) - 1 + 1
        /\ \A k \in 1 .. (p - 1) - 1 + 1 : a[k] = s[1 + k - 1]
    <3>1. 1 \in Nat \ {0} /\ 1 <= (p - 1) + 1
      BY <1>1
    <3> QED BY <1>1, <3>1, PieceIs
  <2>2. (p - 1) - 1 + 1 = p - 1 /\ \A k \in 1 .. p - 1 : 1 + k - 1 = k
    BY <1>1
  <2> QED BY <2>1, <2>2
<1>3. b \in Seq(T) /\ Len(b) = 1 /\ b[1] = x
  OBVIOUS
<1>4. /\ d \in Seq(T) /\ Len(d) = Len(s) - p + 1
      /\ \A k \in 1 .. Len(s) - p + 1 : d[k] = s[p + k - 1]
  BY <1>1, PieceIs
<1> HIDE DEF a, b, d
<1>5. /\ a \o b \in Seq(T) /\ Len(a \o b) = p
      /\ \A k \in 1 .. p - 1 : (a \o b)[k] = s[k]
      /\ (a \o b)[p] = x
  <2>1. /\ a \o b \in Seq(T) /\ Len(a \o b) = Len(a) + Len(b)
        /\ \A k \in 1 .. Len(a) + Len(b) : (a \o b)[k] = IF k <= Len(a) THEN a[k] ELSE b[k - Len(a)]
    BY <1>2, <1>3, ConcatProperties
  <2>2. Len(a) + Len(b) = p /\ p \in 1 .. p /\ p - Len(a) = 1 /\ ~(p <= Len(a))
    BY <1>1, <1>2, <1>3
  <2>3. (a \o b)[p] = x
    BY <1>3, <2>1, <2>2
  <2>4. ASSUME NEW k \in 1 .. p - 1 PROVE (a \o b)[k] = s[k]
    <3>1. k \in 1 .. Len(a) + Len(b) /\ k <= Len(a)
      BY <1>1, <1>2, <2>2
    <3> QED BY <1>2, <2>1, <3>1
  <2> QED BY <2>1, <2>2, <2>3, <2>4
<1> DEFINE h == a \o b
           g == h \o d
<1>6. InsertAt(s, p, x) = g
  BY DEF InsertAt, a, b, d
<1> HIDE DEF h
<1>7. h \in Seq(T) /\ Len(h) = p /\ (\A k \in 1 .. p - 1 : h[k] = s[k]) /\ h[p] = x
  BY <1>5 DEF h
<1>8. /\ g \in Seq(T) /\ Len(g) = Len(h) + Len(d)
      /\ \A k \in 1 .. Len(h) + Len(d) : g[k] = IF k <= Len(h) THEN h[k] ELSE d[k - Len(h)]
  BY <1>4, <1>7, ConcatProperties
<1> HIDE DEF g
<1>9. Len(h) + Len(d) = Len(s) + 1
  BY <1>1, <1>4, <1>7
<1>10. ASSUME NEW k \in 1 .. p PROVE g[k] = h[k]
  <2>1. k \in 1 .. Len(h) + Len(d) /\ k <= Len(h)
    BY <1>1, <1>7, <1>9
  <2> QED BY <1>8, <2>1
<1>11. ASSUME NEW k \in p + 1 .. Len(s) + 1 PROVE g[k] = s[k - 1]
  <2>1. k \in 1 .. Len(h) + Len(d) /\ ~(k <= Len(h)) /\ k - p \in 1 .. Len(s) - p + 1 /\ p + (k - p) - 1 = k - 1
    BY <1>1, <1>7, <1>9
  <2>2. g[k] = d[k - p]
    BY <1>7, <1>8, <2>1
  <2> QED BY <1>4, <2>1, <2>2
<1>12. \A k \in 1 .. p - 1 : g[k] = s[k]
  <2>1. \A k \in 1 .. p - 1 : k \in 1 .. p
    BY <1>1
  <2> QED BY <1>7, <1>10, <2>1
<1>13. g[p] = x
  BY <1>1, <1>7, <1>10
<1> QED BY <1>6, <1>8, <1>9, <1>11, <1>12, <1>13

\* One element less.
LEMMA RemoveIs ==
    ASSUME NEW T, NEW s \in Seq(T), NEW p \in 1 .. Len(s)
    PROVE  /\ RemoveAt(s, p) \in Seq(T) /\ Len(RemoveAt(s, p)) = Len(s) - 1
           /\ \A k \in 1 .. p - 1 : RemoveAt(s, p)[k] = s[k]
           /\ \A k \in p .. Len(s) - 1 : RemoveAt(s, p)[k] = s[k + 1]
<1> DEFINE a == SubSeq(s, 1, p - 1)
           d == SubSeq(s, p + 1, Len(s))
           g == a \o d
<1>1. /\ Len(s) \in Nat /\ p \in Nat \ {0} /\ p - 1 \in 0 .. Len(s) /\ Len(s) \in 0 .. Len(s)
      /\ p + 1 \in Nat \ {0} /\ p + 1 <= Len(s) + 1
  BY LenProperties
<1>2. a \in Seq(T) /\ Len(a) = p - 1 /\ \A k \in 1 .. p - 1 : a[k] = s[k]
  <2>1. /\ a \in Seq(T) /\ Len(a) = (p - 1) - 1 + 1
        /\ \A k \in 1 .. (p - 1) - 1 + 1 : a[k] = s[1 + k - 1]
    <3>1. 1 \in Nat \ {0} /\ 1 <= (p - 1) + 1
      BY <1>1
    <3> QED BY <1>1, <3>1, PieceIs
  <2>2. (p - 1) - 1 + 1 = p - 1 /\ \A k \in 1 .. p - 1 : 1 + k - 1 = k
    BY <1>1
  <2> QED BY <2>1, <2>2
<1>3. /\ d \in Seq(T) /\ Len(d) = Len(s) - p
      /\ \A k \in 1 .. Len(s) - p : d[k] = s[p + k]
  <2>1. /\ d \in Seq(T) /\ Len(d) = Len(s) - (p + 1) + 1
        /\ \A k \in 1 .. Len(s) - (p + 1) + 1 : d[k] = s[(p + 1) + k - 1]
    BY <1>1, PieceIs
  <2>2. Len(s) - (p + 1) + 1 = Len(s) - p /\ \A k \in 1 .. Len(s) - p : (p + 1) + k - 1 = p + k
    BY <1>1
  <2> QED BY <2>1, <2>2
<1>4. RemoveAt(s, p) = g
  BY DEF RemoveAt
<1> HIDE DEF a, d
<1>5. /\ g \in Seq(T) /\ Len(g) = Len(a) + Len(d)
      /\ \A k \in 1 .. Len(a) + Len(d) : g[k] = IF k <= Len(a) THEN a[k] ELSE d[k - Len(a)]
  BY <1>2, <1>3, ConcatProperties
<1> HIDE DEF g
<1>6. Len(a) + Len(d) = Len(s) - 1
  BY <1>1, <1>2, <1>3
<1>7. ASSUME NEW k \in 1 .. p - 1 PROVE g[k] = s[k]
  <2>1. k \in 1 .. Len(a) + Len(d) /\ k <= Len(a)
    BY <1>1, <1>2, <1>6
  <2> QED BY <1>2, <1>5, <2>1
<1>8. ASSUME NEW k \in p .. Len(s) - 1 PROVE g[k] = s[k + 1]
  <2>1. k \in 1 .. Len(a) + Len(d) /\ ~(k <= Len(a)) /\ k - (p - 1) \in 1 .. Len(s) - p /\ p + (k - (p - 1)) = k + 1
    BY <1>1, <1>2, <1>6
  <2>2. g[k] = d[k - (p - 1)]
    BY <1>2, <1>5, <2>1
  <2> QED BY <1>3, <2>1, <2>2
<1> QED BY <1>4, <1>5, <1>6, <1>7, <1>8

\* One more among the items, as a fact with a name.
HasOne(T, s, r, p, x) ==
    /\ r \in Seq(T) /\ Len(r) = Len(s) + 1
    /\ \A k \in 1 .. p - 1 : r[k] = s[k]
    /\ r[p] = x
    /\ \A k \in p + 1 .. Len(s) + 1 : r[k] = s[k - 1]
\* An insertion puts one more among the items.
LEMMA OneIn ==
    ASSUME NEW T, NEW s \in Seq(T), NEW p \in 1 .. Len(s) + 1, NEW x \in T
    PROVE  HasOne(T, s, InsertAt(s, p, x), p, x)
BY InsertIs DEF HasOne

\* A description and its value more.
HasPair(T, f, g, p, i, d) ==
    /\ g \in Seq(T) /\ Len(g) = Len(f) + 2
    /\ \A k \in 1 .. p - 1 : g[k] = f[k]
    /\ g[p] = i /\ g[p + 1] = d
    /\ \A k \in p + 2 .. Len(f) + 2 : g[k] = f[k - 2]
\* InsertPair puts a description and its value, in this order, before the block at p.
LEMMA PairIn ==
    ASSUME NEW T, NEW f \in Seq(T), NEW p \in 1 .. Len(f) + 1, NEW i \in T, NEW d \in T
    PROVE  HasPair(T, f, InsertPair(f, p, i, d), p, i, d)
<1> DEFINE g == InsertPair(f, p, i, d)
           h == InsertAt(f, p, d)
<1>1. /\ h \in Seq(T) /\ Len(h) = Len(f) + 1
      /\ \A k \in 1 .. p - 1 : h[k] = f[k]
      /\ h[p] = d
      /\ \A k \in p + 1 .. Len(f) + 1 : h[k] = f[k - 1]
  BY InsertIs
<1>2. g = InsertAt(h, p, i)
  BY DEF InsertPair
<1> HIDE DEF h, g
<1>3. Len(f) \in Nat /\ p \in 1 .. Len(h) + 1
  BY <1>1, LenProperties
<1>4. /\ g \in Seq(T) /\ Len(g) = Len(h) + 1
      /\ \A k \in 1 .. p - 1 : g[k] = h[k]
      /\ g[p] = i
      /\ \A k \in p + 1 .. Len(h) + 1 : g[k] = h[k - 1]
  <2>1. h \in Seq(T) /\ i \in T
    BY <1>1
  <2>2. HasOne(T, h, InsertAt(h, p, i), p, i)
    BY <1>3, <2>1, OneIn, Zenon
  <2> QED BY <1>2, <2>2, Zenon DEF HasOne
<1>5. g[p + 1] = d
  <2>1. p + 1 \in p + 1 .. Len(h) + 1 /\ (p + 1) - 1 = p
    BY <1>1, <1>3
  <2> QED BY <1>1, <1>4, <2>1
<1>6. ASSUME NEW k \in p + 2 .. Len(f) + 2 PROVE g[k] = f[k - 2]
  <2>1. k \in p + 1 .. Len(h) + 1 /\ k - 1 \in p + 1 .. Len(f) + 1 /\ (k - 1) - 1 = k - 2
    BY <1>1, <1>3
  <2>2. g[k] = h[k - 1] /\ h[k - 1] = f[(k - 1) - 1]
    BY <1>1, <1>4, <2>1
  <2> QED BY <2>1, <2>2
<1>7. Len(g) = Len(f) + 2 /\ \A k \in 1 .. p - 1 : g[k] = f[k]
  BY <1>1, <1>3, <1>4
<1>8. HasPair(T, f, g, p, i, d)
  BY <1>4, <1>5, <1>6, <1>7 DEF HasPair
<1> QED BY <1>8 DEF g

\* A description and its value less.
LEMMA PairOut ==
    ASSUME NEW T, NEW f \in Seq(T), NEW p \in 1 .. Len(f) - 1
    PROVE  /\ RemovePair(f, p) \in Seq(T) /\ Len(RemovePair(f, p)) = Len(f) - 2
           /\ \A k \in 1 .. p - 1 : RemovePair(f, p)[k] = f[k]
           /\ \A k \in p .. Len(f) - 2 : RemovePair(f, p)[k] = f[k + 2]
<1> DEFINE g == RemovePair(f, p)
           h == RemoveAt(f, p)
<1>1. Len(f) \in Nat /\ p \in 1 .. Len(f)
  BY LenProperties
<1>2. /\ h \in Seq(T) /\ Len(h) = Len(f) - 1
      /\ \A k \in 1 .. p - 1 : h[k] = f[k]
      /\ \A k \in p .. Len(f) - 1 : h[k] = f[k + 1]
  BY <1>1, RemoveIs
<1>3. g = RemoveAt(h, p)
  BY DEF RemovePair
<1> HIDE DEF h, g
<1>4. p \in 1 .. Len(h)
  BY <1>1, <1>2
<1>5. /\ g \in Seq(T) /\ Len(g) = Len(h) - 1
      /\ \A k \in 1 .. p - 1 : g[k] = h[k]
      /\ \A k \in p .. Len(h) - 1 : g[k] = h[k + 1]
  BY <1>2, <1>3, <1>4, RemoveIs
<1>6. ASSUME NEW k \in p .. Len(f) - 2 PROVE g[k] = f[k + 2]
  <2>1. k \in p .. Len(h) - 1 /\ k + 1 \in p .. Len(f) - 1 /\ (k + 1) + 1 = k + 2
    BY <1>1, <1>2
  <2>2. g[k] = h[k + 1] /\ h[k + 1] = f[(k + 1) + 1]
    BY <1>2, <1>5, <2>1
  <2> QED BY <2>1, <2>2
<1>7. Len(g) = Len(f) - 2 /\ \A k \in 1 .. p - 1 : g[k] = f[k]
  BY <1>1, <1>2, <1>5
<1> QED BY <1>5, <1>6, <1>7 DEF g

-----------------------------------------------------------------------------
(* The converter and its source stay what they are *)

\* What depends on the converter and its source alone stays when both do.
LEMMA WrittenStays ==
    ASSUME fmt' = fmt, src' = src
    PROVE  /\ Names' = Names /\ N' = N /\ Unit' = Unit /\ Value' = Value /\ Entry' = Entry
           /\ PerPoint' = PerPoint
           /\ \A n : Written(n)' = Written(n) /\ First(n)' = First(n)
           /\ \A u, k : UnitsOf(u, k)' = UnitsOf(u, k)
           /\ \A u, m : IsUnits(u, m)' = IsUnits(u, m)
<1>1. Names' = Names /\ N' = N /\ Unit' = Unit /\ PerPoint' = PerPoint
  BY DEF Names, N, Unit, PerPoint
<1>2. \A n : DynWritten(n)' = DynWritten(n) /\ EchoWritten(n)' = EchoWritten(n)
  BY DEF DynWritten, EchoWritten
<1>3. \A n : Written(n)' = Written(n) /\ First(n)' = First(n)
  BY <1>2 DEF Written, First
<1>4. Value' = Value
  BY <1>1, <1>3 DEF Value
<1>5. Entry' = Entry
  BY <1>1, <1>4 DEF Entry
<1>6. \A u, k : UnitsOf(u, k)' = UnitsOf(u, k)
  BY DEF UnitsOf, Travel
<1>7. \A u, m : IsUnits(u, m)' = IsUnits(u, m)
  BY <1>1, <1>6 DEF IsUnits
<1> QED BY <1>1, <1>3, <1>4, <1>5, <1>6, <1>7

\* The shape is a matter of the file alone.
LEMMA ShapeStays ==
    ASSUME fmt' = fmt, src' = src
    PROVE  \A c, e : Shape(file, c, e)' = Shape(file', c, e)
<1>1. /\ Names' = Names /\ Entry' = Entry /\ Unit' = Unit
      /\ \A n : Written(n)' = Written(n)
  BY WrittenStays
<1>2. \A k : InfoAt(file, k)' = InfoAt(file', k)
  BY <1>1 DEF InfoAt
<1>3. \A k : ValueAt(file, k)' = ValueAt(file', k)
  BY <1>1, <1>2 DEF ValueAt, InfoAt
<1> QED BY <1>1, <1>2, <1>3 DEF Shape

\* What is said of a file is said of it when it is the next file, too.
LEMMA FileStays ==
    ASSUME fmt' = fmt, src' = src
    PROVE  \A c, e, sh, u : FileIs(file, edit, c, e, sh, u)' = FileIs(file', edit', c, e, sh, u)
<1>1. /\ Names' = Names /\ N' = N /\ \A u, m : IsUnits(u, m)' = IsUnits(u, m)
  BY WrittenStays
<1>2. \A c, e : Shape(file, c, e)' = Shape(file', c, e)
  BY ShapeStays
<1>3. \A c, sh : Ordered(file, edit, c, sh)' = Ordered(file', edit', c, sh)
  BY <1>1 DEF Ordered, InOrder
<1>4. \A sh : Only(file, edit, sh)' = Only(file', edit', sh)
  BY <1>1 DEF Only
<1>5. Once(file, edit)' = Once(file', edit') /\ OnlyRefused(file, edit)' = OnlyRefused(file', edit')
      /\ All(file, edit)' = All(file', edit')
  BY <1>1 DEF Once, OnlyRefused, All
<1>6. \A c, j : Got(file, c, j)' = Got(file', c, j)
  BY DEF Got
<1>7. \A c, e, u : UnitsIn(file, c, e, u)' = UnitsIn(file', c, e, u)
  BY <1>1, <1>6 DEF UnitsIn
<1>8. \A k : InfoAt(file, k)' = InfoAt(file', k)
  BY <1>1 DEF InfoAt
<1>9. \A c, e, u : Complete(file, edit, c, e, u)' = Complete(file', edit', c, e, u)
  BY <1>6, <1>8 DEF Complete
<1> QED BY <1>2, <1>3, <1>4, <1>5, <1>7, <1>9 DEF FileIs

\* What is said of the chart in a file depends on the file and px alone.
LEMMA ChartStays ==
    ASSUME fmt' = fmt, src' = src
    PROVE  \A m : ChartIs(file, m, px)' = ChartIs(file', m, px')
<1>1. /\ N' = N /\ PerPoint' = PerPoint /\ Unit' = Unit /\ \A u, m : IsUnits(u, m)' = IsUnits(u, m)
  BY WrittenStays
<1>2. \A c, j : Got(file, c, j)' = Got(file', c, j)
  BY DEF Got
<1>3. Info(Chart[fmt])' = Info(Chart[fmt])
  BY DEF Info
<1>5. \A b, e : ChartBlocks(file, b, e)' = ChartBlocks(file', b, e)
  BY <1>1 DEF ChartBlocks, UnitsAt
<1>6. ChartBlocks(file, 2 * N + 2, Len(file))' = ChartBlocks(file', 2 * N + 2, Len(file'))
  BY <1>1 DEF ChartBlocks, UnitsAt
<1> DEFINE g == Got(file, 2 * N + 2, Len(file) - (2 * N + 2))
           h == Got(file', 2 * N + 2, Len(file') - (2 * N + 2))
<1>4. g' = h
  BY <1>1 DEF Got
<1> HIDE DEF g, h
<1> QED BY <1>1, <1>3, <1>4, <1>6 DEF ChartIs, g, h

-----------------------------------------------------------------------------
(* Writing *)

\* The invariant holds before XToEdf writes its first variable.
LEMMA InitInv == Init => Inv
<1> SUFFICES ASSUME Init PROVE Inv
  OBVIOUS
<1>1. /\ fmt \in Formats /\ src \in Sources[fmt] /\ phase = "write" /\ next = 1 /\ px = 0 /\ edit = "none"
      /\ file = <<Header>> /\ cursor = 0 /\ t = "NULL" /\ mem = 0
      /\ data = <<>> /\ part = <<>> /\ last = 0 /\ head = [written |-> FALSE] /\ code = 0
  BY DEF Init, Header
<1>2. dat = [n \in Names |-> First(n)]
  BY DEF Init, Names, First
<1>3. N \in Nat /\ N >= 8
  BY <1>1, NamesAre
<1>4. Len(src.chart) \in Nat
  BY <1>1, SourceIs
<1>5. NotRead
  BY <1>1, <1>2 DEF NotRead
<1>6. VarsWritten
  <2>1. Header \in Entry
    BY DEF Entry
  <2>2. file \in Seq(Entry) /\ Len(file) = 1 /\ file[1] = Header
    BY <1>1, <2>1
  <2> QED BY <1>1, <1>3, <2>2 DEF VarsWritten
<1>7. ChartWritten
  BY <1>1, <1>3 DEF ChartWritten
<1>8. Writing
  <2>1. next \in 1 .. N + Len(src.chart) + 1
    BY <1>1, <1>3, <1>4
  <2> QED BY <1>1, <1>5, <1>6, <1>7, <2>1 DEF Writing
<1> QED BY <1>1, <1>8 DEF Inv, HasRead, AllEdits

\* A chart of which no point has been written has no units.
LEMMA NoPoints ==
    ASSUME NEW u, u = <<>>
    PROVE  IsUnits(u, 0) /\ Len(u) = 0 /\ PerPoint \in {1, 4}
<1>1. u \in Seq(Unit) /\ Len(u) = 0
  BY EmptySeq
<1>2. PerPoint \in {1, 4}
  BY DEF PerPoint, RecItems
<1>3. PerPoint * 0 = 0
  BY <1>2
<1> QED BY <1>1, <1>2, <1>3 DEF IsUnits

\* A variable is written: its description and its value, and that of the chart
\* behind the last of them.
LEMMA WriteVarInv == Inv /\ WriteVar => Inv'
<1> SUFFICES ASSUME Inv, WriteVar PROVE Inv'
  OBVIOUS
<1>1. /\ fmt \in Formats /\ src \in Sources[fmt] /\ phase = "write" /\ next \in Nat \ {0} /\ edit = "none"
      /\ next <= N /\ px = 0 /\ VarsWritten /\ NotRead
  BY DEF Inv, WriteVar, Writing, N
<1>2. /\ fmt' = fmt /\ src' = src /\ phase' = phase /\ px' = px /\ edit' = edit
      /\ next' = next + 1
      /\ cursor' = cursor /\ t' = t /\ mem' = mem /\ dat' = dat /\ data' = data
      /\ part' = part /\ last' = last /\ head' = head /\ code' = code
  BY DEF WriteVar, srcVars, readVars
<1> DEFINE n == NamesOf(fmt)[next]
           p == <<Info(n), Data(Written(n))>>
           q == IF next = N THEN <<Info(Chart[fmt])>> ELSE <<>>
<1>3. file' = (file \o p) \o q
  BY DEF WriteVar, N
<1>4. N \in Nat /\ N >= 8 /\ Len(src.chart) \in Nat
  BY <1>1, NamesAre, SourceIs
<1>5. file \in Seq(Entry) /\ Len(file) = 2 * next - 1 /\ file[1] = Header
  BY <1>1 DEF VarsWritten
<1>6. n \in Names /\ next \in 1 .. N
  BY <1>1, <1>4, NamesAre
<1>7. /\ Info(n) \in Entry /\ Data(Written(n)) \in Entry /\ Info(Chart[fmt]) \in Entry
  <2>1. n \in Names
    BY <1>6
  <2>2. Written(n) \in Value
    BY <1>6 DEF Value
  <2> HIDE DEF n
  <2> QED BY <2>1, <2>2 DEF Entry, Info, Data
<1> HIDE DEF n
<1>8. p \in Seq(Entry) /\ Len(p) = 2 /\ p[1] = Info(n) /\ p[2] = Data(Written(n))
  BY <1>7
<1>9. /\ q \in Seq(Entry) /\ Len(q) = (IF next = N THEN 1 ELSE 0)
      /\ next = N => q[1] = Info(Chart[fmt])
  <2>1. <<>> \in Seq(Entry) /\ Len(<<>>) = 0
    BY EmptySeq
  <2>2. <<Info(Chart[fmt])>> \in Seq(Entry) /\ Len(<<Info(Chart[fmt])>>) = 1
    BY <1>7
  <2> QED BY <2>1, <2>2
<1> HIDE DEF p, q
<1> DEFINE h == file \o p
<1>10. /\ h \in Seq(Entry) /\ Len(h) = 2 * next + 1
       /\ \A k \in 1 .. 2 * next - 1 : h[k] = file[k]
       /\ h[2 * next] = Info(n) /\ h[2 * next + 1] = Data(Written(n))
  <2>1. /\ h \in Seq(Entry) /\ Len(h) = Len(file) + Len(p)
        /\ \A k \in 1 .. Len(file) + Len(p) : h[k] = IF k <= Len(file) THEN file[k] ELSE p[k - Len(file)]
    BY <1>5, <1>8, ConcatProperties
  <2>2. Len(file) + Len(p) = 2 * next + 1
    BY <1>1, <1>5, <1>8
  <2>3. /\ 2 * next \in 1 .. Len(file) + Len(p) /\ ~(2 * next <= Len(file)) /\ 2 * next - Len(file) = 1
        /\ 2 * next + 1 \in 1 .. Len(file) + Len(p) /\ ~(2 * next + 1 <= Len(file)) /\ 2 * next + 1 - Len(file) = 2
    BY <1>1, <1>5, <1>8
  <2>4. \A k \in 1 .. 2 * next - 1 : k \in 1 .. Len(file) + Len(p) /\ k <= Len(file)
    BY <1>1, <1>5, <1>8
  <2> DEFINE a == 2 * next
             b == 2 * next + 1
             l == Len(file) + Len(p)
  <2> HIDE DEF h
  <2>5. h \in Seq(Entry) /\ Len(h) = 2 * next + 1
    BY <2>1, <2>2, Zenon
  <2>6. \A k \in 1 .. 2 * next - 1 : h[k] = file[k]
    BY <2>1, <2>4, Zenon
  <2>7. /\ a \in 1 .. l /\ ~(a <= Len(file)) /\ a - Len(file) = 1
        /\ b \in 1 .. l /\ ~(b <= Len(file)) /\ b - Len(file) = 2
    BY <2>3
  <2>9. \A k \in 1 .. l : h[k] = IF k <= Len(file) THEN file[k] ELSE p[k - Len(file)]
    BY <2>1
  <2> HIDE DEF a, b, l
  <2>8. h[a] = p[1] /\ h[b] = p[2]
    BY <2>7, <2>9
  <2> QED BY <1>8, <2>5, <2>6, <2>8, Zenon DEF a, b
<1> HIDE DEF h
<1>11. /\ file' \in Seq(Entry) /\ Len(file') = Len(h) + Len(q)
       /\ \A k \in 1 .. Len(h) + Len(q) : file'[k] = IF k <= Len(h) THEN h[k] ELSE q[k - Len(h)]
  <2>1. file' = h \o q
    BY <1>3 DEF h
  <2> QED BY <1>9, <1>10, <2>1, ConcatProperties
<1>12. /\ Len(file') = IF next = N THEN 2 * next + 2 ELSE 2 * next + 1
       /\ \A k \in 1 .. 2 * next + 1 : file'[k] = h[k]
       /\ next = N => file'[2 * next + 2] = Info(Chart[fmt])
  <2>1. Len(h) + Len(q) = IF next = N THEN 2 * next + 2 ELSE 2 * next + 1
    BY <1>1, <1>9, <1>10
  <2>2. \A k \in 1 .. 2 * next + 1 : k \in 1 .. Len(h) + Len(q) /\ k <= Len(h)
    BY <1>1, <1>9, <1>10
  <2>3. next = N => 2 * next + 2 \in 1 .. Len(h) + Len(q) /\ ~(2 * next + 2 <= Len(h)) /\ 2 * next + 2 - Len(h) = 1
    BY <1>1, <1>9, <1>10
  <2> QED BY <1>9, <1>11, <2>1, <2>2, <2>3
<1>13. VarsWritten'
  <2>1. file'[1] = Header /\ Len(file') >= 1
    <3>1. 1 \in 1 .. 2 * next + 1 /\ 1 \in 1 .. 2 * next - 1
      BY <1>1
    <3> QED BY <1>1, <1>5, <1>10, <1>12, <3>1
  <2>2. /\ next' <= N => Len(file') = 2 * next' - 1
        /\ next' > N => Len(file') >= 2 * N + 2
    BY <1>1, <1>2, <1>4, <1>12
  <2>3. ASSUME NEW j \in 1 .. N, j < next'
        PROVE  file'[2 * j] = Info(NamesOf(fmt)[j]) /\ file'[2 * j + 1] = Data(Written(NamesOf(fmt)[j]))
    <3>1. CASE j = next
      <4>1. 2 * j \in 1 .. 2 * next + 1 /\ 2 * j + 1 \in 1 .. 2 * next + 1
        BY <1>1, <3>1
      <4> QED BY <1>10, <1>12, <3>1, <4>1 DEF n
    <3>2. CASE j # next
      <4>1. j < next
        BY <1>1, <1>2, <2>3, <3>2
      <4>2. /\ 2 * j \in 1 .. 2 * next + 1 /\ 2 * j + 1 \in 1 .. 2 * next + 1
            /\ 2 * j \in 1 .. 2 * next - 1 /\ 2 * j + 1 \in 1 .. 2 * next - 1
        BY <1>1, <4>1
      <4>3. file[2 * j] = Info(NamesOf(fmt)[j]) /\ file[2 * j + 1] = Data(Written(NamesOf(fmt)[j]))
        BY <1>1, <4>1 DEF VarsWritten
      <4> QED BY <1>10, <1>12, <4>2, <4>3
    <3> QED BY <3>1, <3>2
  <2>4. N' = N /\ Entry' = Entry /\ \A m : Written(m)' = Written(m)
    BY <1>2, WrittenStays
  <2>5. \A j \in 1 .. N : j < next' =>
           file'[2 * j] = Info(NamesOf(fmt)[j])' /\ file'[2 * j + 1] = Data(Written(NamesOf(fmt)[j]))'
    <3> TAKE j \in 1 .. N
    <3>1. Info(NamesOf(fmt)[j])' = Info(NamesOf(fmt)[j])
      BY <1>2 DEF Info
    <3>2. Written(NamesOf(fmt)[j])' = Written(NamesOf(fmt)[j])
      BY <1>2, <2>4 DEF Written, DynWritten, EchoWritten
    <3>3. Data(Written(NamesOf(fmt)[j]))' = Data(Written(NamesOf(fmt)[j]))
      BY <3>2 DEF Data
    <3> QED BY <2>3, <3>1, <3>3
  <2> QED BY <1>2, <1>11, <2>1, <2>2, <2>4, <2>5 DEF VarsWritten
<1>14. ChartWritten'
  <2>1. CASE next # N
    <3>1. ~(next' > N')
      BY <1>1, <1>2, <1>4, <2>1, WrittenStays
    <3> QED BY <3>1 DEF ChartWritten
  <2>2. CASE next = N
    <3>1. Len(file') = 2 * N + 2 /\ file'[2 * N + 2] = Info(Chart[fmt])
      BY <1>4, <1>12, <2>2
    <3> DEFINE u == Got(file', 2 * N + 2, Len(file') - (2 * N + 2))
    <3>2. u = <<>>
      <4>1. Len(file') - (2 * N + 2) = 0 /\ 2 * N + 2 \in Nat
        BY <1>4, <3>1
      <4>2. Got(file', 2 * N + 2, 0) = <<>>
        BY <4>1, GotNone
      <4> QED BY <4>1, <4>2
    <3> HIDE DEF u
    <3>3. IsUnits(u, 0) /\ Len(u) = 0 /\ PerPoint * 0 = 0
      <4>1. IsUnits(u, 0) /\ Len(u) = 0 /\ PerPoint \in {1, 4}
        BY <3>2, NoPoints
      <4> QED BY <4>1
    <3>4. px' = 0
      BY <1>1, <1>2
    <3>5. ChartBlocks(file', 2 * N + 2, Len(file'))
      BY <1>4, <3>1 DEF ChartBlocks
    <3>6. ChartIs(file', 0, px')
      BY <3>1, <3>3, <3>4, <3>5 DEF ChartIs, u
    <3>7. ChartIs(file, 0, px)'
      BY <1>2, <3>6, ChartStays
    <3>8. 0 \in Nat /\ next' = N' + 1 + 0
      BY <1>2, <1>4, <2>2, WrittenStays
    <3> QED BY <3>7, <3>8 DEF ChartWritten
  <2> QED BY <2>1, <2>2
<1>15. NotRead'
  <2>1. /\ cursor = 0 /\ t = "NULL" /\ mem = 0 /\ dat = [m \in Names |-> First(m)]
        /\ data = <<>> /\ part = <<>> /\ last = 0 /\ head = [written |-> FALSE] /\ code = 0
    BY <1>1 DEF NotRead
  <2>2. Names' = Names /\ \A m : First(m)' = First(m)
    BY <1>2, WrittenStays
  <2> QED BY <1>2, <2>1, <2>2 DEF NotRead
<1>16. Writing'
  <2>1. next' \in 1 .. (N + Len(src.chart) + 1)' /\ (next' <= N' => px' = 0)
    BY <1>1, <1>2, <1>4, WrittenStays
  <2> QED BY <1>1, <1>2, <1>13, <1>14, <1>15, <2>1 DEF Writing
<1> QED BY <1>1, <1>2, <1>16 DEF Inv, HasRead, AllEdits

\* What one block takes more is behind what all have.
TakesMore(g, f, b, j, r) ==
    /\ b \in Nat /\ j \in Nat \ {0} /\ r \in Seq(Unit) /\ HaveUnits(f, b, j)
    /\ SameUnits(g, b, f, b, j - 1) /\ UnitsAt(g, b + j) = UnitsAt(f, b + j) \o r
\* Units put behind those of the last block are behind all units.
LEMMA GotMore ==
    ASSUME NEW f, NEW g, NEW b, NEW j, NEW r, TakesMore(g, f, b, j, r)
    PROVE  Got(g, b, j) = Got(f, b, j) \o r
<1>0. /\ b \in Nat /\ j \in Nat \ {0} /\ r \in Seq(Unit) /\ HaveUnits(f, b, j)
      /\ SameUnits(g, b, f, b, j - 1) /\ UnitsAt(g, b + j) = UnitsAt(f, b + j) \o r
  BY DEF TakesMore
<1>1. j \in Nat /\ j - 1 \in Nat /\ j > 0 /\ j \in 1 .. j /\ \A i \in 1 .. j - 1 : i \in 1 .. j
  BY <1>0
<1>2. UnitsAt(f, b + j) \in Seq(Unit) /\ UnitsAt(f, b + j) \o r \in Seq(Unit)
  <2>1. UnitsAt(f, b + j) \in Seq(Unit)
    BY <1>0, <1>1 DEF HaveUnits
  <2> QED BY <1>0, <2>1, ConcatProperties
<1>3. HaveUnits(g, b, j)
  <2> SUFFICES ASSUME NEW i \in 1 .. j PROVE UnitsAt(g, b + i) \in Seq(Unit)
    BY <1>0 DEF HaveUnits
  <2>1. i = j \/ i \in 1 .. j - 1
    BY <1>0
  <2> QED BY <1>0, <1>1, <1>2, <2>1 DEF HaveUnits, SameUnits
<1>4. HaveUnits(f, b, j - 1)
  BY <1>0, <1>1 DEF HaveUnits
<1>5. Got(f, b, j) = Got(f, b, j - 1) \o UnitsAt(f, b + j)
  BY <1>0, <1>1, GotBack
<1>6. Got(g, b, j) = Got(g, b, j - 1) \o UnitsAt(g, b + j)
  BY <1>0, <1>1, <1>3, GotBack
<1>7. Got(f, b, j - 1) \in Seq(Unit)
  BY <1>0, <1>1, <1>4, GotIs
<1>8. Got(g, b, j - 1) = Got(f, b, j - 1)
  BY <1>0, <1>1, GotSame
<1>9. (Got(f, b, j - 1) \o UnitsAt(f, b + j)) \o r = Got(f, b, j - 1) \o (UnitsAt(f, b + j) \o r)
  BY <1>0, <1>2, <1>7, ConcatAssociative, SMTT(30)
<1> QED BY <1>0, <1>5, <1>6, <1>8, <1>9

\* What one block more has, too.
HasOneMore(g, f, b, j, r) ==
    /\ b \in Nat /\ j \in Nat /\ r \in Seq(Unit) /\ HaveUnits(f, b, j)
    /\ SameUnits(g, b, f, b, j) /\ UnitsAt(g, b + (j + 1)) = r
\* The units of a new block are behind all units.
LEMMA GotOneMore ==
    ASSUME NEW f, NEW g, NEW b, NEW j, NEW r, HasOneMore(g, f, b, j, r)
    PROVE  Got(g, b, j + 1) = Got(f, b, j) \o r
<1>0. /\ b \in Nat /\ j \in Nat /\ r \in Seq(Unit) /\ HaveUnits(f, b, j)
      /\ SameUnits(g, b, f, b, j) /\ UnitsAt(g, b + (j + 1)) = r
  BY DEF HasOneMore
<1>1. j + 1 \in Nat /\ j + 1 > 0 /\ (j + 1) - 1 = j
  BY <1>0
<1>2. HaveUnits(g, b, j + 1)
  <2> SUFFICES ASSUME NEW i \in 1 .. j + 1 PROVE UnitsAt(g, b + i) \in Seq(Unit)
    BY <1>0 DEF HaveUnits
  <2>1. i = j + 1 \/ i \in 1 .. j
    BY <1>0
  <2> QED BY <1>0, <2>1 DEF HaveUnits, SameUnits
<1>3. Got(g, b, j + 1) = Got(g, b, j) \o UnitsAt(g, b + (j + 1))
  BY <1>0, <1>2, GotNext
<1>4. Got(g, b, j) = Got(f, b, j)
  BY <1>0, GotSame
<1> QED BY <1>0, <1>1, <1>3, <1>4

\* The last block of a chart takes units.
\* f and g have the same first blocks.
SameBlocks(f, g, n) == \A k \in 1 .. n : f[k] = g[k]
PutMore(f, r) == [f EXCEPT ![Len(f)].v = @ \o r]
CanTake(f, L, r) ==
    /\ f \in Seq(Entry) /\ L = Len(f) /\ L >= 1 /\ f[L].k = "data" /\ f[L].v \in Seq(Unit)
    /\ r \in Seq(Unit)
\* The last block takes more units, and no block before it changes.
LEMMA PutMoreIs ==
    ASSUME NEW f, NEW L, NEW r, CanTake(f, L, r)
    PROVE  /\ PutMore(f, r) \in Seq(Entry) /\ Len(PutMore(f, r)) = L
           /\ SameBlocks(PutMore(f, r), f, L - 1)
           /\ PutMore(f, r)[L].k = "data" /\ UnitsAt(PutMore(f, r), L) = UnitsAt(f, L) \o r
           /\ UnitsAt(PutMore(f, r), L) \in Seq(Unit)
<1>0. /\ f \in Seq(Entry) /\ L = Len(f) /\ L >= 1 /\ f[L].k = "data" /\ f[L].v \in Seq(Unit)
      /\ r \in Seq(Unit)
  BY DEF CanTake
<1> DEFINE x == f[L].v \o r
           g == [f EXCEPT ![L].v = x]
           w == Data(x)
<1>1. L \in Nat /\ L \in 1 .. Len(f)
  BY <1>0, LenProperties
<1>2. x \in Seq(Unit)
  BY <1>0, ConcatProperties
<1>3. [f[L] EXCEPT !.v = x] = w
  <2>1. f[L] \in Entry
    BY <1>0, <1>1, ElementOfSeq
  <2>2. f[L] \in [k : {"data"}, v : Value]
    BY <1>0, <2>1 DEF Entry, Header
  <2> HIDE DEF x
  <2>3. PICK v \in Value : f[L] = [k |-> "data", v |-> v]
    BY <2>2
  <2> QED BY <2>3 DEF Data
<1> HIDE DEF x
<1>4. w \in Entry
  <2>1. x \in Value
    BY <1>2 DEF Value
  <2> QED BY <2>1 DEF Entry, Data
<1>5. g = [f EXCEPT ![L] = w]
  BY <1>3
<1>6. w.k = "data" /\ w.v = x
  BY BlockIs
<1> HIDE DEF w
<1> DEFINE h == [f EXCEPT ![L] = w]
<1>7. /\ h \in Seq(Entry) /\ Len(h) = Len(f)
      /\ \A k \in 1 .. Len(f) : h[k] = IF k = L THEN w ELSE f[k]
  BY <1>0, <1>1, <1>4, ExceptSeq
<1> HIDE DEF h
<1>8. h[L] = w /\ \A k \in 1 .. L - 1 : h[k] = f[k]
  BY <1>0, <1>1, <1>7
<1>9. g = h
  BY <1>5 DEF h
<1> HIDE DEF g
<1>10. /\ g \in Seq(Entry) /\ Len(g) = L
       /\ \A k \in 1 .. L - 1 : g[k] = f[k]
       /\ g[L].k = "data" /\ g[L].v = x /\ g[L].v \in Seq(Unit)
  BY <1>0, <1>2, <1>6, <1>7, <1>8, <1>9
<1>11. PutMore(f, r) = [f EXCEPT ![L].v = f[L].v \o r]
  BY <1>0 DEF PutMore
<1>12. PutMore(f, r) = g
  BY <1>11 DEF g, x
<1> QED BY <1>10, <1>12 DEF x, UnitsAt, SameBlocks

\* A sequence is cut in two.
LEMMA CutIs ==
    ASSUME NEW T, NEW s \in Seq(T), NEW n \in 0 .. Len(s)
    PROVE  /\ SubSeq(s, 1, n) \in Seq(T) /\ SubSeq(s, n + 1, Len(s)) \in Seq(T)
           /\ Len(SubSeq(s, 1, n)) = n /\ Len(SubSeq(s, n + 1, Len(s))) = Len(s) - n
           /\ SubSeq(s, 1, n) \o SubSeq(s, n + 1, Len(s)) = s
<1> DEFINE a == SubSeq(s, 1, n)
           d == SubSeq(s, n + 1, Len(s))
           g == a \o d
<1>1. Len(s) \in Nat /\ n \in Nat /\ Len(s) \in 0 .. Len(s) /\ n + 1 \in Nat \ {0} /\ n + 1 <= Len(s) + 1
  BY LenProperties
<1>2. a \in Seq(T) /\ Len(a) = n /\ \A k \in 1 .. n : a[k] = s[k]
  <2>1. /\ a \in Seq(T) /\ Len(a) = n - 1 + 1 /\ \A k \in 1 .. n - 1 + 1 : a[k] = s[1 + k - 1]
    <3>1. 1 \in Nat \ {0} /\ 1 <= n + 1
      BY <1>1
    <3> QED BY <3>1, PieceIs
  <2>2. n - 1 + 1 = n /\ \A k \in 1 .. n : 1 + k - 1 = k
    BY <1>1, SMT
  <2> QED BY <2>1, <2>2
<1>3. d \in Seq(T) /\ Len(d) = Len(s) - n /\ \A k \in 1 .. Len(s) - n : d[k] = s[n + k]
  <2>1. /\ d \in Seq(T) /\ Len(d) = Len(s) - (n + 1) + 1
        /\ \A k \in 1 .. Len(s) - (n + 1) + 1 : d[k] = s[(n + 1) + k - 1]
    BY <1>1, PieceIs
  <2>2. Len(s) - (n + 1) + 1 = Len(s) - n /\ \A k \in 1 .. Len(s) - n : (n + 1) + k - 1 = n + k
    BY <1>1
  <2> QED BY <2>1, <2>2
<1> HIDE DEF a, d
<1>4. /\ g \in Seq(T) /\ Len(g) = Len(a) + Len(d)
      /\ \A k \in 1 .. Len(a) + Len(d) : g[k] = IF k <= Len(a) THEN a[k] ELSE d[k - Len(a)]
  BY <1>2, <1>3, ConcatProperties
<1> HIDE DEF g
<1>5. Len(a) + Len(d) = Len(s)
  BY <1>1, <1>2, <1>3
<1>6. ASSUME NEW k \in 1 .. Len(g) PROVE g[k] = s[k]
  <2>1. k \in 1 .. Len(a) + Len(d)
    BY <1>4
  <2>2. CASE k <= n
    <3>1. k \in 1 .. n
      BY <1>1, <2>2, <2>1
    <3> QED BY <1>2, <1>4, <2>1, <2>2, <3>1
  <2>3. CASE ~(k <= n)
    <3>1. k - n \in 1 .. Len(s) - n /\ n + (k - n) = k
      BY <1>1, <1>5, <2>1, <2>3
    <3> QED BY <1>2, <1>3, <1>4, <2>1, <2>3, <3>1
  <2> QED BY <2>2, <2>3
<1>7. g = s
  BY <1>4, <1>5, <1>6, SameSeq
<1> QED BY <1>2, <1>3, <1>7 DEF a, d, g

-----------------------------------------------------------------------------
(* The units of a point are put into the last block and a new one *)

\* The last block takes the units r; a new one has s.
PutNew(f, s) == Append(f, Data(s))

\* A new block with units s, and no block before it changes.
LEMMA PutNewIs ==
    ASSUME NEW f \in Seq(Entry), NEW L \in Nat, L = Len(f), NEW s \in Seq(Unit)
    PROVE  /\ PutNew(f, s) \in Seq(Entry) /\ Len(PutNew(f, s)) = L + 1
           /\ SameBlocks(PutNew(f, s), f, L)
           /\ PutNew(f, s)[L + 1].k = "data" /\ UnitsAt(PutNew(f, s), L + 1) = s
<1> DEFINE w == Data(s)
<1>1. w \in Entry /\ w.k = "data" /\ w.v = s
  <2>1. s \in Value
    BY DEF Value
  <2>2. Data(s) \in Entry
    BY <2>1 DEF Entry, Data
  <2> QED BY <2>2, BlockIs
<1>2. PutNew(f, s) = Append(f, w)
  BY DEF PutNew
<1> HIDE DEF w
<1>3. /\ Append(f, w) \in Seq(Entry) /\ Len(Append(f, w)) = L + 1
      /\ \A k \in 1 .. L : Append(f, w)[k] = f[k]
      /\ Append(f, w)[L + 1] = w
  BY <1>1, AppendProperties
<1> QED BY <1>1, <1>2, <1>3 DEF UnitsAt, SameBlocks

\* Blocks that are the same are blocks of a chart, too.
LEMMA SameChart ==
    ASSUME NEW f, NEW g, NEW b \in Nat, NEW n \in Nat, SameBlocks(g, f, n), ChartBlocks(f, b, n)
    PROVE  ChartBlocks(g, b, n)
<1> SUFFICES ASSUME NEW k \in b + 1 .. n PROVE g[k].k = "data" /\ UnitsAt(g, k) \in Seq(Unit)
  BY DEF ChartBlocks
<1>1. k \in 1 .. n
  OBVIOUS
<1>2. g[k] = f[k] /\ f[k].k = "data" /\ UnitsAt(f, k) \in Seq(Unit)
  BY <1>1 DEF SameBlocks, ChartBlocks
<1> QED BY <1>2 DEF UnitsAt

\* A chart of one block more is a chart.
LEMMA OneChartMore ==
    ASSUME NEW g, NEW b \in Nat, NEW n \in Nat, ChartBlocks(g, b, n),
           g[n + 1].k = "data", UnitsAt(g, n + 1) \in Seq(Unit)
    PROVE  ChartBlocks(g, b, n + 1)
<1> SUFFICES ASSUME NEW k \in b + 1 .. n + 1 PROVE g[k].k = "data" /\ UnitsAt(g, k) \in Seq(Unit)
  BY DEF ChartBlocks
<1>1. k = n + 1 \/ k \in b + 1 .. n
  OBVIOUS
<1> QED BY <1>1 DEF ChartBlocks

\* The blocks of a chart have units.
LEMMA ChartUnits ==
    ASSUME NEW f, NEW b \in Nat, NEW j \in Nat, ChartBlocks(f, b, b + j)
    PROVE  HaveUnits(f, b, j) /\ Got(f, b, j) \in Seq(Unit)
<1>1. HaveUnits(f, b, j)
  <2> SUFFICES ASSUME NEW i \in 1 .. j PROVE UnitsAt(f, b + i) \in Seq(Unit)
    BY DEF HaveUnits
  <2>1. b + i \in b + 1 .. b + j
    OBVIOUS
  <2> QED BY <2>1 DEF ChartBlocks
<1> QED BY <1>1, GotIs

\* Blocks that are the same hold the same units.
LEMMA SameBlocksUnits ==
    ASSUME NEW f, NEW g, NEW b \in Nat, NEW j \in Nat, SameBlocks(g, f, b + j)
    PROVE  SameUnits(g, b, f, b, j)
<1> SUFFICES ASSUME NEW i \in 1 .. j PROVE UnitsAt(g, b + i) = UnitsAt(f, b + i)
  BY DEF SameUnits
<1>1. b + i \in 1 .. b + j
  OBVIOUS
<1> QED BY <1>1 DEF SameBlocks, UnitsAt

\* The units of a file of which the last block has taken r.
LEMMA MoreUnits ==
    ASSUME NEW f \in Seq(Entry), NEW b \in Nat, NEW j \in Nat \ {0}, b + j = Len(f),
           ChartBlocks(f, b, b + j), NEW r \in Seq(Unit)
    PROVE  /\ PutMore(f, r) \in Seq(Entry) /\ Len(PutMore(f, r)) = b + j
           /\ SameBlocks(PutMore(f, r), f, b + j - 1)
           /\ ChartBlocks(PutMore(f, r), b, b + j)
           /\ Got(PutMore(f, r), b, j) = Got(f, b, j) \o r
<1> DEFINE g == PutMore(f, r)
           L == b + j
<1>1. L \in Nat /\ L >= 1 /\ L - 1 \in Nat /\ L \in b + 1 .. b + j /\ j - 1 \in Nat /\ L - 1 = b + (j - 1) /\ (L - 1) + 1 = L
      /\ j \in Nat /\ b + j - 1 = L - 1
  OBVIOUS
<1>2. f[L].k = "data" /\ UnitsAt(f, L) \in Seq(Unit)
  BY <1>1 DEF ChartBlocks
<1>3. L = Len(f)
  OBVIOUS
<1>4. ChartBlocks(f, b, L)
  OBVIOUS
<1> HIDE DEF L
<1>5. /\ g \in Seq(Entry) /\ Len(g) = L /\ SameBlocks(g, f, L - 1)
      /\ g[L].k = "data" /\ UnitsAt(g, L) = UnitsAt(f, L) \o r /\ UnitsAt(g, L) \in Seq(Unit)
  <2>1. CanTake(f, L, r)
    BY <1>1, <1>2, <1>3 DEF CanTake, UnitsAt
  <2> HIDE DEF L
  <2> QED BY <2>1, PutMoreIs
<1> HIDE DEF g
<1>6. ChartBlocks(f, b, L - 1)
  <2>1. \A k \in b + 1 .. L - 1 : k \in b + 1 .. L
    BY <1>1
  <2> QED BY <1>4, <2>1 DEF ChartBlocks
<1>7. ChartBlocks(g, b, L - 1)
  BY <1>1, <1>5, <1>6, SameChart
<1> DEFINE n == L - 1
<1>8. ChartBlocks(g, b, n + 1)
  <2>1. n \in Nat /\ n + 1 = L
    BY <1>1
  <2>2. ChartBlocks(g, b, n)
    BY <1>7
  <2> HIDE DEF n
  <2> QED BY <1>5, <2>1, <2>2, OneChartMore
<1>9. SameUnits(g, b, f, b, j - 1)
  <2>1. SameBlocks(g, f, b + (j - 1))
    BY <1>1, <1>5
  <2> QED BY <1>1, <2>1, SameBlocksUnits
<1>10. HaveUnits(f, b, j)
  BY <1>1, ChartUnits
<1>11. UnitsAt(g, b + j) = UnitsAt(f, b + j) \o r
  BY <1>5 DEF L
<1>12. Got(g, b, j) = Got(f, b, j) \o r
  <2>1. TakesMore(g, f, b, j, r)
    BY <1>9, <1>10, <1>11 DEF TakesMore
  <2> QED BY <2>1, GotMore
<1>13. ChartBlocks(g, b, L)
  BY <1>1, <1>8
<1> QED BY <1>5, <1>12, <1>13 DEF L, g

\* The units of a file with a new block of the units s.
LEMMA NewUnits ==
    ASSUME NEW f \in Seq(Entry), NEW b \in Nat, NEW j \in Nat, b + j = Len(f),
           ChartBlocks(f, b, b + j), NEW s \in Seq(Unit)
    PROVE  /\ PutNew(f, s) \in Seq(Entry) /\ Len(PutNew(f, s)) = b + (j + 1)
           /\ SameBlocks(PutNew(f, s), f, b + j)
           /\ ChartBlocks(PutNew(f, s), b, b + (j + 1))
           /\ Got(PutNew(f, s), b, j + 1) = Got(f, b, j) \o s
<1> DEFINE g == PutNew(f, s)
           L == b + j
<1>1. L \in Nat /\ L + 1 = b + (j + 1)
  OBVIOUS
<1>2. L = Len(f) /\ ChartBlocks(f, b, L)
  OBVIOUS
<1>3. HaveUnits(f, b, j)
  BY ChartUnits
<1> HIDE DEF L
<1>4. /\ g \in Seq(Entry) /\ Len(g) = L + 1 /\ SameBlocks(g, f, L)
      /\ g[L + 1].k = "data" /\ UnitsAt(g, L + 1) = s
  BY <1>1, <1>2, PutNewIs
<1> HIDE DEF g
<1>5. ChartBlocks(g, b, L)
  BY <1>1, <1>2, <1>4, SameChart
<1>6. ChartBlocks(g, b, L + 1)
  BY <1>1, <1>4, <1>5, OneChartMore
<1>7. SameUnits(g, b, f, b, j)
  <2>1. SameBlocks(g, f, b + j)
    BY <1>4 DEF L
  <2> QED BY <2>1, SameBlocksUnits
<1>8. UnitsAt(g, b + (j + 1)) = s
  BY <1>1, <1>4
<1>9. Got(g, b, j + 1) = Got(f, b, j) \o s
  <2>1. HasOneMore(g, f, b, j, s)
    BY <1>3, <1>7, <1>8 DEF HasOneMore
  <2> QED BY <2>1, GotOneMore
<1> QED BY <1>1, <1>4, <1>6, <1>9 DEF L, g

\* The units of a point come behind those of the points before, wherever the data
\* writer ends a block.
HasChart(f, b, j) ==
    /\ f \in Seq(Entry) /\ b \in Nat /\ j \in Nat /\ b >= 1 /\ b + j = Len(f) /\ f[b].k = "info"
    /\ ChartBlocks(f, b, b + j)
\* PutUnits puts the units of a point behind those the chart has, however it cuts them into blocks.
LEMMA PutIs ==
    ASSUME NEW b, NEW j, HasChart(file, b, j), NEW us, us \in Seq(Unit), PutUnits(us)
    PROVE  \E i \in Nat :
           /\ file' \in Seq(Entry) /\ Len(file') = b + i
           /\ SameBlocks(file', file, b)
           /\ ChartBlocks(file', b, b + i)
           /\ Got(file', b, i) = Got(file, b, j) \o us
<1>0. /\ file \in Seq(Entry) /\ b \in Nat /\ j \in Nat /\ b >= 1 /\ b + j = Len(file) /\ file[b].k = "info"
      /\ ChartBlocks(file, b, b + j)
  BY DEF HasChart
<1> DEFINE L == b + j
<1>1. L \in Nat /\ L >= 1 /\ Len(us) \in Nat /\ L = Len(file)
  BY <1>0, LenProperties
<1>2. Last(file) = file[Len(file)]
  BY DEF Last
<1>3. PICK c \in 0 .. Len(us) :
         /\ file[Len(file)].k # "data" => c = 0
         /\ file' = LET f == IF c = 0 THEN file ELSE PutMore(file, SubSeq(us, 1, c))
                    IN IF c = Len(us) THEN f ELSE PutNew(f, SubSeq(us, c + 1, Len(us)))
  BY <1>2 DEF PutUnits, PutMore, PutNew
<1> DEFINE r == SubSeq(us, 1, c)
           s == SubSeq(us, c + 1, Len(us))
           f == IF c = 0 THEN file ELSE PutMore(file, r)
<1>4. r \in Seq(Unit) /\ s \in Seq(Unit) /\ Len(r) = c /\ Len(s) = Len(us) - c /\ r \o s = us
  BY CutIs
<1>5. file' = IF c = Len(us) THEN f ELSE PutNew(f, s)
  BY <1>3
<1> HIDE DEF r, s
<1>6. Got(file, b, j) \in Seq(Unit)
  BY <1>0, ChartUnits
<1>7. /\ f \in Seq(Entry) /\ Len(f) = b + j
      /\ SameBlocks(f, file, b) /\ ChartBlocks(f, b, b + j)
      /\ Got(f, b, j) = Got(file, b, j) \o r
  <2>1. CASE c = 0
    <3>1. f = file
      BY <2>1
    <3>2. r = <<>>
      BY <1>4, <2>1, EmptyLen
    <3>3. Got(file, b, j) \o <<>> = Got(file, b, j)
      BY <1>6, ConcatEmptySeq
    <3> HIDE DEF f
    <3> QED BY <1>0, <3>1, <3>2, <3>3 DEF SameBlocks
  <2>2. CASE c # 0
    <3>1. file[L].k = "data"
      BY <1>1, <1>3, <2>2
    <3>2. j # 0
      BY <1>0, <3>1
    <3>3. j \in Nat \ {0} /\ b \in Nat /\ \A k \in 1 .. b : k \in 1 .. b + j - 1
      BY <1>0, <3>2
    <3>4. f = PutMore(file, r)
      BY <2>2
    <3> HIDE DEF f
    <3>5. /\ PutMore(file, r) \in Seq(Entry) /\ Len(PutMore(file, r)) = b + j
          /\ SameBlocks(PutMore(file, r), file, b + j - 1)
          /\ ChartBlocks(PutMore(file, r), b, b + j)
          /\ Got(PutMore(file, r), b, j) = Got(file, b, j) \o r
      BY <1>0, <1>4, <3>3, MoreUnits
    <3>6. SameBlocks(f, file, b)
      BY <3>3, <3>4, <3>5 DEF SameBlocks
    <3> QED BY <3>4, <3>5, <3>6
  <2> QED BY <2>1, <2>2
<1> HIDE DEF f
<1>8. CASE c = Len(us)
  <2>1. Len(s) = 0
    BY <1>1, <1>4, <1>8
  <2>2. s = <<>>
    BY <1>4, <2>1, EmptyLen
  <2>3. r = us
    BY <1>4, <2>2, ConcatEmptySeq
  <2>4. file' = f
    BY <1>5, <1>8
  <2> QED BY <1>0, <1>7, <2>3, <2>4
<1>9. CASE c # Len(us)
  <2>1. file' = PutNew(f, s)
    BY <1>5, <1>9
  <2>2. /\ PutNew(f, s) \in Seq(Entry) /\ Len(PutNew(f, s)) = b + (j + 1)
        /\ SameBlocks(PutNew(f, s), f, b + j)
        /\ ChartBlocks(PutNew(f, s), b, b + (j + 1))
        /\ Got(PutNew(f, s), b, j + 1) = Got(f, b, j) \o s
    BY <1>0, <1>4, <1>7, NewUnits
  <2>3. Got(file', b, j + 1) = Got(file, b, j) \o us
    <3>1. (Got(file, b, j) \o r) \o s = Got(file, b, j) \o (r \o s)
      <4>1. r \in Seq(Unit) /\ s \in Seq(Unit)
        BY <1>4
      <4> QED BY <1>6, <4>1, ConcatAssociative, SMTT(30)
    <3> QED BY <1>4, <1>7, <2>1, <2>2, <3>1
  <2>4. SameBlocks(file', file, b)
    <3>1. \A k \in 1 .. b : k \in 1 .. b + j
      BY <1>0
    <3> QED BY <1>7, <2>1, <2>2, <3>1 DEF SameBlocks
  <2>5. j + 1 \in Nat
    BY <1>0
  <2> QED BY <1>0, <2>1, <2>2, <2>3, <2>4, <2>5
<1> QED BY <1>8, <1>9

-----------------------------------------------------------------------------
(* The units of a point *)

UnitsFrom(p) ==
    CASE fmt = "dat" -> p [] fmt = "dyn" -> DynPoint(p) [] fmt = "echo" -> EchoPoint(p)

\* What a point of the chart is written as.
LEMMA PointIs ==
    ASSUME fmt \in Formats, src \in Sources[fmt], px \in Int, NEW k \in 1 .. Len(src.chart)
    PROVE  /\ UnitsFrom(src.chart[k]) \in Seq(Unit) /\ Len(UnitsFrom(src.chart[k])) = PerPoint
           /\ fmt = "dat" => /\ PerPoint = 4 /\ RecItems = 4
                             /\ \A i \in 1 .. 4 : UnitsFrom(src.chart[k])[i] = src.chart[k][i]
           /\ fmt = "dyn" => /\ PerPoint = 1 /\ Travel(src.chart[k]) \in Int
                             /\ UnitsFrom(src.chart[k])[1].x = px + Travel(src.chart[k])
                             /\ UnitsFrom(src.chart[k])[1].y = src.chart[k][2] * src.vars["LoadStep"]
           /\ fmt = "echo" => PerPoint = 1 /\ UnitsFrom(src.chart[k])[1] = EchoPoint(src.chart[k])[1]
<1> DEFINE p == src.chart[k]
<1>1. p \in Points(fmt)
  <2>1. src.chart \in Seq(Points(fmt))
    BY SourceIs
  <2> QED BY <2>1, ElementOfSeq
<1> HIDE DEF p
<1>2. CASE fmt = "dat"
  <2>1. UnitsFrom(p) = p /\ PerPoint = 4 /\ RecItems = 4 /\ Unit = Int
    BY <1>2 DEF UnitsFrom, PerPoint, RecItems, Unit
  <2>2. p \in [1 .. 4 -> Int]
    BY <1>1, <1>2 DEF Points, RecItems
  <2>3. p \in Seq(Int) /\ Len(p) = 4
    <3>1. p \in Seq(Int)
      BY <2>2, SeqDef, 4 \in Nat
    <3>2. Len(p) \in Nat /\ p \in [1 .. Len(p) -> Int]
      BY <3>1, LenProperties
    <3>3. 1 .. Len(p) = 1 .. 4
      BY <2>2, <3>2
    <3>4. Len(p) = 4
      <4>1. 4 \in 1 .. Len(p)
        BY <3>3
      <4>2. Len(p) \in 1 .. Len(p)
        BY <3>2, <4>1
      <4>3. Len(p) \in 1 .. 4
        BY <3>3, <4>2
      <4> QED BY <3>2, <4>1, <4>3
    <3> QED BY <3>1, <3>4
  <2> QED BY <1>2, <2>1, <2>3 DEF p
<1>3. CASE fmt = "dyn"
  <2>1. UnitsFrom(p) = DynPoint(p) /\ PerPoint = 1 /\ Unit = [x : Int, y : Int]
    BY <1>3 DEF UnitsFrom, PerPoint, Unit
  <2>2. p \in (0 .. 63) \X (0 .. 1023)
    BY <1>1, <1>3 DEF Points
  <2>3. src.vars["LoadStep"] \in Int /\ src.vars["TravelStep"] \in Int
    <3>1. {"LoadStep", "TravelStep"} \subseteq Names \ {"Discrete"}
      BY <1>3, SpecialNames
    <3> QED BY <3>1, FieldsAre
  <2>4. p[1] \in Int /\ p[2] \in Int
    <3> DEFINE A == 0 .. 63
               B == 0 .. 1023
    <3>1. p \in A \X B
      BY <2>2
    <3>2. A \subseteq Int /\ B \subseteq Int
      OBVIOUS
    <3> HIDE DEF A, B
    <3>3. p[1] \in A /\ p[2] \in B
      BY <3>1
    <3> QED BY <3>2, <3>3
  <2>5. ExtractTravel(p[1]) \in Int
    BY <2>4 DEF ExtractTravel
  <2>6. Travel(p) \in Int
    BY <2>3, <2>5 DEF Travel
  <2>7. px + Travel(p) \in Int /\ p[2] * src.vars["LoadStep"] \in Int
    BY <2>3, <2>4, <2>6
  <2> DEFINE w == [x |-> px + Travel(p), y |-> p[2] * src.vars["LoadStep"]]
  <2>8. DynPoint(p) = <<w>>
    BY DEF DynPoint
  <2>9. w \in Unit /\ w.x = px + Travel(p) /\ w.y = p[2] * src.vars["LoadStep"]
    BY <2>1, <2>7
  <2> HIDE DEF w
  <2>10. <<w>> \in Seq(Unit) /\ Len(<<w>>) = 1 /\ <<w>>[1] = w
    BY <2>9
  <2> QED BY <1>3, <2>1, <2>6, <2>8, <2>9, <2>10 DEF p
<1>4. CASE fmt = "echo"
  <2>1. UnitsFrom(p) = EchoPoint(p) /\ PerPoint = 1 /\ Unit = Int
    BY <1>4 DEF UnitsFrom, PerPoint, Unit
  <2>2. p \in 0 .. 255
    BY <1>1, <1>4 DEF Points
  <2> DEFINE w == IF p > 127 THEN -(p - 127) ELSE p
  <2>3. w \in Int
    BY <2>2
  <2>4. EchoPoint(p) = <<w>>
    BY DEF EchoPoint
  <2> HIDE DEF w
  <2>5. <<w>> \in Seq(Int) /\ Len(<<w>>) = 1
    BY <2>3
  <2> QED BY <1>4, <2>1, <2>4, <2>5 DEF p
<1> QED BY <1>2, <1>3, <1>4, NamesAre

\* One point more.
HasPoints(u, m) ==
    /\ m \in Nat /\ IsUnits(u, m) /\ Len(u) = PerPoint * m
    /\ fmt = "dyn" => px = IF m = 0 THEN 0 ELSE u[m].x
\* With the units of the next point behind those of m points, the units are those of m + 1.
LEMMA PointMore ==
    ASSUME fmt \in Formats, src \in Sources[fmt], px \in Int,
           NEW m, NEW u, HasPoints(u, m), m + 1 \in 1 .. Len(src.chart),
           NEW us, us = UnitsFrom(src.chart[m + 1])
    PROVE  /\ IsUnits(u \o us, m + 1) /\ Len(u \o us) = PerPoint * (m + 1)
           /\ fmt = "dyn" => /\ px + Travel(src.chart[m + 1]) = (u \o us)[m + 1].x
                             /\ Travel(src.chart[m + 1]) \in Int
<1> DEFINE v == u \o us
           p == src.chart[m + 1]
<1>1. /\ m \in Nat /\ u \in Seq(Unit) /\ Len(u) = PerPoint * m
      /\ \A k \in 1 .. m : UnitsOf(u, k)
      /\ fmt = "dyn" => px = IF m = 0 THEN 0 ELSE u[m].x
  BY DEF HasPoints, IsUnits
<1>2. /\ us \in Seq(Unit) /\ Len(us) = PerPoint
      /\ fmt = "dat" => PerPoint = 4 /\ RecItems = 4 /\ \A i \in 1 .. 4 : us[i] = p[i]
      /\ fmt = "dyn" => /\ PerPoint = 1 /\ Travel(p) \in Int
                        /\ us[1].x = px + Travel(p) /\ us[1].y = p[2] * src.vars["LoadStep"]
      /\ fmt = "echo" => PerPoint = 1 /\ us[1] = EchoPoint(p)[1]
  BY PointIs
<1> HIDE DEF p
<1>3. fmt \in {"dat", "dyn", "echo"}
  BY NamesAre
<1>4. /\ v \in Seq(Unit) /\ Len(v) = Len(u) + Len(us)
      /\ \A i \in 1 .. Len(u) + Len(us) : v[i] = IF i <= Len(u) THEN u[i] ELSE us[i - Len(u)]
  BY <1>1, <1>2, UnitsBehind
<1> HIDE DEF v
<1>5. CASE fmt = "dat"
  <2>1. Len(u) = 4 * m /\ Len(us) = 4 /\ PerPoint = 4
    BY <1>1, <1>2, <1>5
  <2>2. \A i \in 1 .. 4 * m + 4 : v[i] = IF i <= 4 * m THEN u[i] ELSE us[i - 4 * m]
    BY <1>4, <2>1
  <2>3. ASSUME NEW k \in 1 .. m + 1 PROVE UnitsOf(v, k)
    <3>1. ASSUME NEW i \in 1 .. 4 PROVE v[4 * (k - 1) + i] = src.chart[k][i]
      <4>1. CASE k = m + 1
        <5> DEFINE z == 4 * (k - 1) + i
        <5>4. z \in 1 .. 4 * m + 4 /\ ~(z <= 4 * m) /\ z - 4 * m = i
          BY <1>1, <4>1
        <5> HIDE DEF z
        <5>5. v[z] = us[z - 4 * m]
          BY <2>2, <5>4
        <5>2. v[4 * (k - 1) + i] = us[i]
          BY <5>4, <5>5 DEF z
        <5>3. us[i] = p[i]
          BY <1>2, <1>5
        <5> QED BY <4>1, <5>2, <5>3 DEF p
      <4>2. CASE k # m + 1
        <5>1. k \in 1 .. m /\ 4 * (k - 1) + i \in 1 .. 4 * m + 4 /\ 4 * (k - 1) + i <= 4 * m
          BY <1>1, <4>2
        <5>2. v[4 * (k - 1) + i] = u[4 * (k - 1) + i]
          BY <2>2, <5>1
        <5>3. UnitsOf(u, k)
          BY <1>1, <5>1
        <5>4. u[4 * (k - 1) + i] = src.chart[k][i]
          BY <1>5, <5>3 DEF UnitsOf, RecItems
        <5> QED BY <5>2, <5>4
      <4> QED BY <4>1, <4>2
    <3> QED BY <1>5, <3>1 DEF UnitsOf, RecItems
  <2>4. Len(v) = 4 * (m + 1)
    BY <1>1, <1>4, <2>1
  <2> QED BY <1>4, <1>5, <2>1, <2>3, <2>4 DEF IsUnits, v
<1>6. CASE fmt # "dat"
  <2>1. Len(u) = m /\ Len(us) = 1 /\ PerPoint = 1
    BY <1>1, <1>2, <1>3, <1>6
  <2>2. Len(v) = m + 1 /\ v[m + 1] = us[1] /\ \A i \in 1 .. m : v[i] = u[i]
    <3>1. /\ m + 1 \in 1 .. Len(u) + Len(us) /\ ~(m + 1 <= Len(u)) /\ m + 1 - Len(u) = 1
          /\ \A i \in 1 .. m : i \in 1 .. Len(u) + Len(us) /\ i <= Len(u)
      BY <1>1, <2>1
    <3> QED BY <1>4, <2>1, <3>1
  <2>3. ASSUME NEW k \in 1 .. m + 1 PROVE UnitsOf(v, k)
    <3>1. CASE k = m + 1
      <4>1. p = src.chart[k]
        BY <3>1 DEF p
      <4>2. CASE fmt = "dyn"
        <5>1. v[k].x = px + Travel(p) /\ v[k].y = p[2] * src.vars["LoadStep"]
          BY <1>2, <2>2, <3>1, <4>2
        <5>2. px = IF k = 1 THEN 0 ELSE v[k - 1].x
          <6>1. CASE m = 0
            BY <1>1, <3>1, <4>2, <6>1
          <6>2. CASE m # 0
            <7>1. m \in 1 .. m /\ k # 1 /\ k - 1 = m
              BY <1>1, <3>1, <6>2
            <7> QED BY <1>1, <2>2, <4>2, <6>2, <7>1
          <6> QED BY <6>1, <6>2
        <5> QED BY <4>1, <4>2, <5>1, <5>2 DEF UnitsOf
      <4>3. CASE fmt = "echo"
        <5>1. v[k] = EchoPoint(p)[1]
          BY <1>2, <2>2, <3>1, <4>3
        <5> QED BY <4>1, <4>3, <5>1 DEF UnitsOf
      <4> QED BY <1>3, <1>6, <4>2, <4>3
    <3>2. CASE k # m + 1
      <4>1. k \in 1 .. m /\ (k # 1 => k - 1 \in 1 .. m)
        BY <1>1, <3>2
      <4>2. UnitsOf(u, k) /\ v[k] = u[k] /\ (k # 1 => v[k - 1] = u[k - 1])
        BY <1>1, <2>2, <4>1
      <4>3. CASE fmt = "dyn"
        BY <4>2, <4>3 DEF UnitsOf
      <4>4. CASE fmt = "echo"
        BY <4>2, <4>4 DEF UnitsOf
      <4> QED BY <1>3, <1>6, <4>3, <4>4
    <3> QED BY <3>1, <3>2
  <2>4. IsUnits(v, m + 1) /\ Len(v) = PerPoint * (m + 1)
    <3>1. PerPoint * (m + 1) = m + 1
      BY <1>1, <2>1
    <3> QED BY <1>4, <1>1, <2>2, <2>3, <3>1 DEF IsUnits
  <2>5. fmt = "dyn" => v[m + 1].x = px + Travel(p) /\ Travel(p) \in Int
    BY <1>2, <2>2
  <2> QED BY <2>4, <2>5 DEF v, p
<1> QED BY <1>5, <1>6

\* The chart with one point more.
LEMMA ChartMore ==
    ASSUME NEW f, NEW b, NEW i \in Nat, b = 2 * N + 2, N \in Nat, f \in Seq(Entry), Len(f) = b + i,
           f[b] = Info(Chart[fmt]), ChartBlocks(f, b, b + i),
           NEW v, v = Got(f, b, i), NEW n, IsUnits(v, n), Len(v) = PerPoint * n,
           NEW x, fmt = "dyn" => x = IF n = 0 THEN 0 ELSE v[n].x
    PROVE  ChartIs(f, n, x)
<1>1. Len(f) - b = i
  OBVIOUS
<1>2. Got(f, b, Len(f) - b) = v /\ ChartBlocks(f, b, Len(f))
  BY <1>1
<1> QED BY <1>2 DEF ChartIs

\* A point of the chart, or a record, is written.
LEMMA WritePointInv == Inv /\ WritePoint => Inv'
<1> SUFFICES ASSUME Inv, WritePoint PROVE Inv'
  OBVIOUS
<1>1. /\ fmt \in Formats /\ src \in Sources[fmt] /\ phase = "write" /\ next \in Nat \ {0} /\ edit = "none"
      /\ px \in Int /\ VarsWritten /\ ChartWritten /\ NotRead
  BY DEF Inv, WritePoint, Writing
<1>2. N \in Nat /\ N >= 8 /\ Len(src.chart) \in Nat
  BY <1>1, NamesAre, SourceIs
<1>3. /\ next - N \in 1 .. Len(src.chart)
      /\ PutUnits(UnitsFrom(src.chart[next - N]))
      /\ px' = IF fmt = "dyn" THEN px + Travel(src.chart[next - N]) ELSE px
      /\ fmt' = fmt /\ src' = src /\ phase' = phase /\ edit' = edit
      /\ next' = next + 1
      /\ cursor' = cursor /\ t' = t /\ mem' = mem /\ dat' = dat /\ data' = data
      /\ part' = part /\ last' = last /\ head' = head /\ code' = code
  BY DEF WritePoint, srcVars, readVars, UnitsFrom, N
<1>4. next > N
  BY <1>1, <1>2, <1>3
<1>5. PICK m \in Nat : next = N + 1 + m /\ ChartIs(file, m, px)
  BY <1>4, <1>1 DEF ChartWritten
<1>6. next - N = m + 1
  BY <1>2, <1>5
<1> DEFINE us == UnitsFrom(src.chart[m + 1])
           b == 2 * N + 2
           j == Len(file) - b
<1>7. us \in Seq(Unit) /\ PutUnits(us) /\ m + 1 \in 1 .. Len(src.chart)
  <2>1. m + 1 \in 1 .. Len(src.chart)
    BY <1>3, <1>6
  <2> QED BY <1>1, <1>3, <1>6, <2>1, PointIs
<1>8. /\ file \in Seq(Entry) /\ Len(file) >= b /\ file[1] = Header
      /\ \A k \in 1 .. N : file[2 * k] = Info(NamesOf(fmt)[k]) /\ file[2 * k + 1] = Data(Written(NamesOf(fmt)[k]))
  <2>1. \A k \in 1 .. N : k < next
    BY <1>2, <1>4, <1>1
  <2> QED BY <1>1, <1>4, <2>1 DEF VarsWritten
<1>9. b \in Nat /\ j \in Nat /\ b >= 1 /\ b + j = Len(file)
  BY <1>2, <1>8, LenProperties
<1>10. /\ file[b] = Info(Chart[fmt]) /\ ChartBlocks(file, b, Len(file))
  BY <1>5 DEF ChartIs
<1>11. PICK u : u = Got(file, b, j) /\ HasPoints(u, m)
  BY <1>5 DEF ChartIs, HasPoints
<1> HIDE DEF us, j
<1>12. HasChart(file, b, j)
  <2>1. file[b].k = "info"
    BY <1>10, BlockIs
  <2> QED BY <1>8, <1>9, <1>10, <2>1 DEF HasChart
<1> HIDE DEF b
<1>13. PICK i \in Nat :
          /\ file' \in Seq(Entry) /\ Len(file') = b + i
          /\ SameBlocks(file', file, b)
          /\ ChartBlocks(file', b, b + i)
          /\ Got(file', b, i) = Got(file, b, j) \o us
  <2>1. us \in Seq(Unit)
    BY <1>7
  <2>2. PutUnits(us)
    BY <1>7
  <2> QED BY <1>12, <2>1, <2>2, PutIs
<1> DEFINE v == u \o us
<1>14. /\ IsUnits(v, m + 1) /\ Len(v) = PerPoint * (m + 1)
       /\ fmt = "dyn" => /\ px + Travel(src.chart[m + 1]) = v[m + 1].x
                         /\ Travel(src.chart[m + 1]) \in Int
  <2>1. us = UnitsFrom(src.chart[m + 1])
    BY DEF us
  <2> QED BY <1>1, <1>7, <1>11, <2>1, PointMore
<1>15. v = Got(file', b, i)
  BY <1>11, <1>13
<1> HIDE DEF v
<1>16. px' \in Int /\ (fmt = "dyn" => px' = v[m + 1].x)
  BY <1>1, <1>3, <1>6, <1>14
<1>17. \A k \in 1 .. b : file'[k] = file[k]
  BY <1>13 DEF SameBlocks
<1>18. VarsWritten'
  <2>1. file'[1] = Header /\ Len(file') >= 1
    BY <1>8, <1>9, <1>13, <1>17
  <2>2. /\ next' <= N => Len(file') = 2 * next' - 1
        /\ next' > N => Len(file') >= 2 * N + 2
    <3>1. next' = next + 1 /\ next \in Nat /\ Len(file') = b + i
      BY <1>1, <1>3, <1>13
    <3>2. ~(next' <= N)
      BY <1>2, <1>4, <3>1
    <3>3. Len(file') >= b
      BY <1>9, <3>1
    <3> QED BY <3>2, <3>3 DEF b
  <2>3. ASSUME NEW k \in 1 .. N
        PROVE  file'[2 * k] = Info(NamesOf(fmt)[k]) /\ file'[2 * k + 1] = Data(Written(NamesOf(fmt)[k]))
    <3>1. 2 * k \in 1 .. b /\ 2 * k + 1 \in 1 .. b
      BY <1>2 DEF b
    <3> QED BY <1>8, <1>17, <3>1
  <2>4. N' = N /\ Entry' = Entry /\ \A n : Written(n)' = Written(n)
    BY <1>3, WrittenStays
  <2>5. \A k \in 1 .. N : k < next' =>
           file'[2 * k] = Info(NamesOf(fmt)[k])' /\ file'[2 * k + 1] = Data(Written(NamesOf(fmt)[k]))'
    <3> TAKE k \in 1 .. N
    <3>1. Info(NamesOf(fmt)[k])' = Info(NamesOf(fmt)[k])
      BY <1>3 DEF Info
    <3>2. Written(NamesOf(fmt)[k])' = Written(NamesOf(fmt)[k])
      BY <1>3, <2>4 DEF Written, DynWritten, EchoWritten
    <3>3. Data(Written(NamesOf(fmt)[k]))' = Data(Written(NamesOf(fmt)[k]))
      BY <3>2 DEF Data
    <3> QED BY <2>3, <3>1, <3>3
  <2> QED BY <1>13, <1>3, <2>1, <2>2, <2>4, <2>5 DEF VarsWritten
<1>19. ChartWritten'
  <2>1. file'[b] = Info(Chart[fmt])
    BY <1>9, <1>10, <1>17
  <2>2. fmt = "dyn" => px' = IF m + 1 = 0 THEN 0 ELSE v[m + 1].x
    BY <1>16
  <2>3. b = 2 * N + 2
    BY DEF b
  <2>4. ChartIs(file', m + 1, px')
    BY <1>2, <1>13, <1>14, <1>15, <2>1, <2>2, <2>3, ChartMore
  <2> DEFINE n == m + 1
  <2>5. n \in Nat /\ next' = N' + 1 + n
    <3>1. N' = N
      BY <1>3, WrittenStays
    <3> QED BY <1>2, <1>3, <1>5, <3>1
  <2>6. ChartIs(file', n, px')
    BY <2>4
  <2> HIDE DEF n
  <2>7. ChartIs(file, n, px)'
    BY <1>3, <2>6, ChartStays
  <2> QED BY <2>5, <2>7 DEF ChartWritten
<1>20. NotRead'
  <2>1. /\ cursor = 0 /\ t = "NULL" /\ mem = 0 /\ dat = [n \in Names |-> First(n)]
        /\ data = <<>> /\ part = <<>> /\ last = 0 /\ head = [written |-> FALSE] /\ code = 0
    BY <1>1 DEF NotRead
  <2>2. Names' = Names /\ \A n : First(n)' = First(n)
    BY <1>3, WrittenStays
  <2> QED BY <1>3, <2>1, <2>2 DEF NotRead
<1>21. Writing'
  <2>1. next' \in 1 .. (N + Len(src.chart) + 1)' /\ (next' <= N' => px' = 0)
    <3>1. N' = N
      BY <1>3, WrittenStays
    <3>2. next' = next + 1 /\ next - N \in 1 .. Len(src.chart) /\ src' = src /\ next \in Nat
      BY <1>1, <1>3
    <3> DEFINE l == Len(src.chart)
    <3>3. l' = l
      BY <3>2
    <3>4. l \in Nat /\ next - N \in 1 .. l
      BY <1>2, <3>2
    <3> HIDE DEF l
    <3>5. next' \in 1 .. (N + l + 1)' /\ ~(next' <= N')
      BY <1>2, <1>4, <3>1, <3>2, <3>3, <3>4
    <3> QED BY <3>5 DEF l
  <2> QED BY <1>1, <1>3, <1>18, <1>19, <1>20, <2>1 DEF Writing
<1> QED BY <1>1, <1>3, <1>16, <1>21 DEF Inv, HasRead, AllEdits

-----------------------------------------------------------------------------
(* The file that the converter has written *)

\* Its blocks, and the units of the chart.
Base(f, u) ==
    /\ f \in Seq(Entry) /\ Len(f) >= 2 * N + 2 /\ f[1] = Header /\ f[2 * N + 2] = Info(Chart[fmt])
    /\ ChartBlocks(f, 2 * N + 2, Len(f))
    /\ \A j \in 1 .. N :
          f[2 * j] = Info(NamesOf(fmt)[j]) /\ f[2 * j + 1] = Data(Written(NamesOf(fmt)[j]))
    /\ u = Got(f, 2 * N + 2, Len(f) - (2 * N + 2)) /\ IsUnits(u, Len(src.chart))

\* What the edits that lose no block of the chart keep.
Sound(f, c, e, u) ==
    /\ Shape(f, c, e) /\ e <= Len(f) /\ UnitsIn(f, c, e, u) /\ Got(f, c, e - c) = u
    /\ \A k \in 1 .. Len(f) : InfoAt(f, k) => k < Len(f)

\* Where the description of n is.
Occ(f, k, n) == k \in 1 .. Len(f) /\ f[k] = Info(n)

\* Every number behind the header is that of a variable's description, of its
\* value, of the chart's description or of one of its blocks.
LEMMA EvenOrOdd ==
    ASSUME NEW k \in Nat, k >= 2, NEW n \in Nat
    PROVE  \/ \E j \in 1 .. n : k = 2 * j
           \/ \E j \in 1 .. n : k = 2 * j + 1
           \/ k = 2 * n + 2
           \/ k > 2 * n + 2
<1> DEFINE j == k \div 2
<1>1. j \in Nat /\ j >= 1 /\ (k = 2 * j \/ k = 2 * j + 1)
  OBVIOUS
<1> HIDE DEF j
<1>2. CASE j <= n
  <2>1. j \in 1 .. n
    BY <1>1, <1>2
  <2> QED BY <1>1, <2>1
<1>3. CASE ~(j <= n)
  BY <1>1, <1>3
<1> QED BY <1>2, <1>3

\* The blocks of the file one by one.
LEMMA BaseIs ==
    ASSUME fmt \in Formats, NEW f, NEW u, Base(f, u), NEW k, k \in 1 .. Len(f)
    PROVE  \/ k = 1 /\ f[k] = Header
           \/ \E j \in 1 .. N : k = 2 * j /\ f[k] = Info(NamesOf(fmt)[j])
           \/ \E j \in 1 .. N : /\ k = 2 * j + 1 /\ f[k - 1] = Info(NamesOf(fmt)[j])
                                /\ f[k] = Data(Written(NamesOf(fmt)[j]))
           \/ k = 2 * N + 2 /\ f[k] = Info(Chart[fmt])
           \/ k > 2 * N + 2 /\ f[k].k = "data" /\ UnitsAt(f, k) \in Seq(Unit)
<1>1. N \in Nat
  BY NamesAre
<1>2. /\ f \in Seq(Entry) /\ f[1] = Header /\ f[2 * N + 2] = Info(Chart[fmt])
      /\ ChartBlocks(f, 2 * N + 2, Len(f)) /\ Len(f) \in Nat
      /\ \A j \in 1 .. N :
          f[2 * j] = Info(NamesOf(fmt)[j]) /\ f[2 * j + 1] = Data(Written(NamesOf(fmt)[j]))
  BY LenProperties DEF Base
<1>3. k \in Nat /\ k >= 1 /\ k <= Len(f)
  BY <1>2
<1>4. CASE k = 1
  BY <1>2, <1>4
<1>5. CASE k >= 2
  <2>1. CASE \E j \in 1 .. N : k = 2 * j
    BY <1>2, <2>1
  <2>2. CASE \E j \in 1 .. N : k = 2 * j + 1
    <3>1. PICK j \in 1 .. N : k = 2 * j + 1
      BY <2>2
    <3>2. k - 1 = 2 * j
      BY <3>1
    <3> QED BY <1>2, <3>1, <3>2
  <2>3. CASE k = 2 * N + 2
    BY <1>2, <2>3
  <2>4. CASE k > 2 * N + 2
    <3>1. k \in 2 * N + 2 + 1 .. Len(f)
      BY <1>1, <1>2, <1>3, <2>4
    <3>2. f[k].k = "data" /\ UnitsAt(f, k) \in Seq(Unit)
      BY <1>2, <3>1 DEF ChartBlocks
    <3> QED BY <2>4, <3>2
  <2> QED BY <1>1, <1>3, <1>5, <2>1, <2>2, <2>3, <2>4, EvenOrOdd
<1> QED BY <1>3, <1>4, <1>5

\* Descriptions are where the variables are.
LEMMA BaseOcc ==
    ASSUME fmt \in Formats, NEW f, NEW u, Base(f, u)
    PROVE  /\ \A i \in 1 .. N : \A k : Occ(f, k, NamesOf(fmt)[i]) <=> k = 2 * i
           /\ \A k : Occ(f, k, Chart[fmt]) <=> k = 2 * N + 2
           /\ \A k : ~Occ(f, k, "unknown") /\ ~Occ(f, k, "refused")
           /\ \A k \in 1 .. Len(f) : f[k].k = "info" <=> (k = 2 * N + 2 \/ \E i \in 1 .. N : k = 2 * i)
           /\ Len(f) \in Nat /\ Len(f) >= 2 * N + 2
<1>1. N \in Nat
  BY NamesAre
<1>2. /\ Len(f) \in Nat /\ Len(f) >= 2 * N + 2 /\ f[2 * N + 2] = Info(Chart[fmt])
      /\ \A j \in 1 .. N : f[2 * j] = Info(NamesOf(fmt)[j])
  BY LenProperties DEF Base
<1>3. ASSUME NEW i \in 1 .. N, NEW k PROVE Occ(f, k, NamesOf(fmt)[i]) <=> k = 2 * i
  <2>1. k = 2 * i => Occ(f, k, NamesOf(fmt)[i])
    <3>1. 2 * i \in 1 .. Len(f)
      BY <1>1, <1>2
    <3> QED BY <1>2, <3>1 DEF Occ
  <2>2. ASSUME Occ(f, k, NamesOf(fmt)[i]) PROVE k = 2 * i
    <3>1. k \in 1 .. Len(f) /\ f[k] = Info(NamesOf(fmt)[i])
      BY <2>2 DEF Occ
    <3>2. f[k] # Header /\ f[k].k # "data" /\ f[k] # Info(Chart[fmt]) /\ \A v : f[k] # Data(v)
      <4>1. NamesOf(fmt)[i] # Chart[fmt]
        BY NamesAre
      <4> QED BY <3>1, <4>1, BlockIs
    <3>3. PICK j \in 1 .. N : k = 2 * j /\ f[k] = Info(NamesOf(fmt)[j])
      BY <3>1, <3>2, BaseIs
    <3>4. NamesOf(fmt)[i] = NamesOf(fmt)[j]
      BY <3>1, <3>3, BlockIs
    <3>5. i = j
      BY <3>4, NamesAre
    <3> QED BY <3>3, <3>5
  <2> QED BY <2>1, <2>2
<1>4. ASSUME NEW k PROVE Occ(f, k, Chart[fmt]) <=> k = 2 * N + 2
  <2>1. k = 2 * N + 2 => Occ(f, k, Chart[fmt])
    <3>1. 2 * N + 2 \in 1 .. Len(f)
      BY <1>1, <1>2
    <3> QED BY <1>2, <3>1 DEF Occ
  <2>2. ASSUME Occ(f, k, Chart[fmt]) PROVE k = 2 * N + 2
    <3>1. k \in 1 .. Len(f) /\ f[k] = Info(Chart[fmt])
      BY <2>2 DEF Occ
    <3>2. f[k] # Header /\ f[k].k # "data" /\ \A v : f[k] # Data(v)
      BY <3>1, BlockIs
    <3>3. \A j \in 1 .. N : f[k] # Info(NamesOf(fmt)[j])
      <4> TAKE j \in 1 .. N
      <4>1. NamesOf(fmt)[j] # Chart[fmt]
        BY NamesAre
      <4> QED BY <3>1, <4>1, BlockIs
    <3> QED BY <3>1, <3>2, <3>3, BaseIs
  <2> QED BY <2>1, <2>2
<1>5. ASSUME NEW k, NEW n \in {"unknown", "refused"} PROVE ~Occ(f, k, n)
  <2> SUFFICES ASSUME Occ(f, k, n) PROVE FALSE
    OBVIOUS
  <2>1. k \in 1 .. Len(f) /\ f[k] = Info(n)
    BY DEF Occ
  <2>2. f[k] # Header /\ f[k].k # "data" /\ f[k] # Info(Chart[fmt]) /\ \A v : f[k] # Data(v)
    <3>1. n # Chart[fmt]
      BY NamesAre
    <3> QED BY <2>1, <3>1, BlockIs
  <2>3. \A j \in 1 .. N : f[k] # Info(NamesOf(fmt)[j])
    <3> TAKE j \in 1 .. N
    <3>1. NamesOf(fmt)[j] # n
      BY NamesAre
    <3> QED BY <2>1, <3>1, BlockIs
  <2> QED BY <2>1, <2>2, <2>3, BaseIs
<1>6. ASSUME NEW k \in 1 .. Len(f)
      PROVE  f[k].k = "info" <=> (k = 2 * N + 2 \/ \E i \in 1 .. N : k = 2 * i)
  <2>1. ASSUME k = 2 * N + 2 \/ \E i \in 1 .. N : k = 2 * i PROVE f[k].k = "info"
    <3>1. f[k] = Info(Chart[fmt]) \/ \E i \in 1 .. N : f[k] = Info(NamesOf(fmt)[i])
      BY <1>2, <2>1
    <3> QED BY <3>1, BlockIs
  <2>2. ASSUME f[k].k = "info" PROVE k = 2 * N + 2 \/ \E i \in 1 .. N : k = 2 * i
    <3>1. f[k] # Header /\ f[k].k # "data" /\ \A v : f[k] # Data(v)
      BY <2>2, BlockIs
    <3> QED BY <3>1, BaseIs
  <2> QED BY <2>1, <2>2
<1> QED BY <1>2, <1>3, <1>4, <1>5, <1>6

\* Every description but that of the chart is a variable's.
LEMMA BaseInfo ==
    ASSUME fmt \in Formats, NEW f, NEW u, Base(f, u), NEW k, k \in 1 .. Len(f)
    PROVE  InfoAt(f, k) <=> \E i \in 1 .. N : k = 2 * i
<1>1. ASSUME NEW i \in 1 .. N, k = 2 * i PROVE InfoAt(f, k)
  <2>1. f[k] = Info(NamesOf(fmt)[i])
    BY <1>1 DEF Base
  <2>2. NamesOf(fmt)[i] \in Names
    BY NamesAre
  <2> QED BY <2>1, <2>2 DEF InfoAt
<1>2. ASSUME InfoAt(f, k) PROVE \E i \in 1 .. N : k = 2 * i
  <2>1. PICK n \in Names \cup {"unknown", "refused"} : f[k] = Info(n)
    BY <1>2 DEF InfoAt
  <2>2. f[k] # Header /\ f[k].k # "data" /\ f[k] # Info(Chart[fmt]) /\ \A v : f[k] # Data(v)
    <3>1. n # Chart[fmt]
      BY <2>1, NamesAre
    <3> QED BY <2>1, <3>1, BlockIs
  <2> QED BY <2>2, BaseIs
<1> QED BY <1>1, <1>2

\* The units of the blocks before an end are the first of them.
LEMMA FirstUnits ==
    ASSUME NEW f, NEW c \in Nat, NEW e \in Nat, c <= e, ChartBlocks(f, c, e),
           NEW j \in 0 .. e - c
    PROVE  Begins(Got(f, c, j), Got(f, c, e - c))
<1> DEFINE n == e - c
<1>1. n \in Nat /\ c + n = e
  OBVIOUS
<1>2. ChartBlocks(f, c, c + n)
  BY <1>1
<1>3. j \in 0 .. n
  OBVIOUS
<1> HIDE DEF n
<1>4. HaveUnits(f, c, n)
  BY <1>1, <1>2, ChartUnits
<1>5. Begins(Got(f, c, j), Got(f, c, n))
  BY <1>1, <1>3, <1>4, GotBegins
<1> QED BY <1>5 DEF n

\* The file that the converter has written is of the shape that it is read in.
LEMMA BaseSound ==
    ASSUME fmt \in Formats, NEW f, NEW u, Base(f, u)
    PROVE  Sound(f, 2 * N + 2, Len(f), u)
<1> DEFINE c == 2 * N + 2
           e == Len(f)
<1>1. N \in Nat /\ N >= 8
  BY NamesAre
<1>2. c \in Nat /\ e \in Nat /\ 2 <= c /\ c <= e
  BY <1>1, LenProperties DEF Base
<1>3. /\ f \in Seq(Entry) /\ ChartBlocks(f, c, e) /\ u = Got(f, c, e - c) /\ IsUnits(u, Len(src.chart))
  BY DEF Base
<1>4. ASSUME NEW k \in 1 .. e
      PROVE  /\ k = 1 => f[k] = Header
             /\ k = c => f[k] = Info(Chart[fmt])
             /\ k \in c + 1 .. e => f[k].k = "data" /\ UnitsAt(f, k) \in Seq(Unit)
             /\ k # 1 /\ k \notin c .. e => InfoAt(f, k) \/ ValueAt(f, k)
             /\ InfoAt(f, k) => k < e
             /\ InfoAt(f, k) /\ k \in 1 .. e - 1 => f[k + 1].k = "data"
  <2>1. \/ k = 1 /\ f[k] = Header
        \/ \E j \in 1 .. N : k = 2 * j /\ f[k] = Info(NamesOf(fmt)[j])
        \/ \E j \in 1 .. N : /\ k = 2 * j + 1 /\ f[k - 1] = Info(NamesOf(fmt)[j])
                             /\ f[k] = Data(Written(NamesOf(fmt)[j]))
        \/ k = c /\ f[k] = Info(Chart[fmt])
        \/ k > c /\ f[k].k = "data" /\ UnitsAt(f, k) \in Seq(Unit)
    BY BaseIs
  <2>2. InfoAt(f, k) <=> \E i \in 1 .. N : k = 2 * i
    BY BaseInfo
  <2>3. InfoAt(f, k) => k < c /\ k < e
    BY <1>1, <1>2, <2>2
  <2>4. InfoAt(f, k) => f[k + 1].k = "data"
    <3>1. ASSUME NEW i \in 1 .. N, k = 2 * i PROVE f[k + 1].k = "data"
      <4>1. f[k + 1] = Data(Written(NamesOf(fmt)[i]))
        BY <3>1 DEF Base
      <4> QED BY <4>1, BlockIs
    <3> QED BY <2>2, <3>1
  <2>5. CASE k = 1
    <3>1. k # c /\ k \notin c + 1 .. e
      BY <1>2, <2>5
    <3>2. f[k] = Header
      BY <2>5 DEF Base
    <3> QED BY <2>3, <2>4, <2>5, <3>1, <3>2
  <2>6. CASE \E j \in 1 .. N : k = 2 * j
    <3>1. k # 1 /\ k # c /\ k \notin c + 1 .. e
      BY <1>1, <1>2, <2>6
    <3>2. InfoAt(f, k)
      BY <2>2, <2>6
    <3> QED BY <2>3, <2>4, <3>1, <3>2
  <2>7. CASE \E j \in 1 .. N : k = 2 * j + 1
    <3>1. k # 1 /\ k # c /\ k \notin c + 1 .. e
      BY <1>1, <1>2, <2>7
    <3>2. ValueAt(f, k)
      <4>1. PICK j \in 1 .. N : k = 2 * j + 1
        BY <2>7
      <4>2. f[2 * j] = Info(NamesOf(fmt)[j]) /\ f[2 * j + 1] = Data(Written(NamesOf(fmt)[j]))
        BY DEF Base
      <4>3. k - 1 = 2 * j /\ k > 1
        BY <4>1
      <4>4. f[k - 1] = Info(NamesOf(fmt)[j]) /\ f[k] = Data(Written(NamesOf(fmt)[j]))
        BY <4>1, <4>2, <4>3
      <4>5. InfoAt(f, k - 1)
        <5>1. NamesOf(fmt)[j] \in Names
          BY NamesAre
        <5> QED BY <4>4, <5>1 DEF InfoAt
      <4>6. f[k].k = "data" /\ f[k].v = Written(NamesOf(fmt)[j])
        BY <4>4, BlockIs
      <4>7. \A n \in Names : f[k - 1] = Info(n) => f[k].v = Written(n)
        <5> SUFFICES ASSUME NEW n \in Names, f[k - 1] = Info(n) PROVE f[k].v = Written(n)
          OBVIOUS
        <5>1. n = NamesOf(fmt)[j]
          BY <4>4, BlockIs
        <5> QED BY <4>6, <5>1
      <4> QED BY <4>3, <4>5, <4>6, <4>7 DEF ValueAt
    <3> QED BY <2>3, <2>4, <3>1, <3>2
  <2>8. CASE k = c
    <3>1. k # 1 /\ k \notin c + 1 .. e /\ k \in c .. e
      BY <1>1, <1>2, <2>8
    <3>2. f[k] = Info(Chart[fmt])
      BY <2>8 DEF Base
    <3> QED BY <2>3, <2>4, <2>8, <3>1, <3>2
  <2>9. CASE k > c
    <3>1. k # 1 /\ k # c /\ k \in c + 1 .. e /\ k \in c .. e
      BY <1>1, <1>2, <2>9
    <3>2. f[k].k = "data" /\ UnitsAt(f, k) \in Seq(Unit)
      BY <1>3, <3>1 DEF ChartBlocks
    <3> QED BY <2>3, <2>4, <3>1, <3>2
  <2>10. k = 1 \/ (\E j \in 1 .. N : k = 2 * j) \/ (\E j \in 1 .. N : k = 2 * j + 1) \/ k = c \/ k > c
    BY <2>1
  <2> QED BY <2>10, <2>5, <2>6, <2>7, <2>8, <2>9
<1> HIDE DEF c, e
<1>5. Shape(f, c, e)
  <2>1. e = Len(f)
    BY DEF e
  <2>2. \A k \in 1 .. Len(f) - 1 : k \in 1 .. e /\ k \in 1 .. e - 1
    BY <1>2, <2>1
  <2> QED BY <1>2, <1>3, <1>4, <2>1, <2>2 DEF Shape
<1>6. UnitsIn(f, c, e, u)
  <2>1. \A j \in 0 .. e - c : Begins(Got(f, c, j), u)
    BY <1>2, <1>3, FirstUnits
  <2> QED BY <1>3, <2>1 DEF UnitsIn
<1>7. Sound(f, c, e, u)
  BY <1>2, <1>3, <1>4, <1>5, <1>6 DEF Sound, e
<1> QED BY <1>7 DEF c, e

-----------------------------------------------------------------------------
(* A pair of a description and a value is put in or taken out *)

\* What a block of a file is, by its place.
BlockOk(f, c, e, k) ==
    /\ k = 1 => f[k] = Header
    /\ k = c => f[k] = Info(Chart[fmt])
    /\ k \in c + 1 .. e => f[k].k = "data" /\ UnitsAt(f, k) \in Seq(Unit)
    /\ k # 1 /\ k \notin c .. e => InfoAt(f, k) \/ ValueAt(f, k)
    /\ InfoAt(f, k) => k < Len(f) /\ f[k + 1].k = "data"
BlocksOk(f, c, e) ==
    /\ f \in Seq(Entry) /\ c \in Nat /\ e \in Nat /\ 2 <= c /\ c <= e /\ e <= Len(f)
    /\ \A k \in 1 .. Len(f) : BlockOk(f, c, e, k)

\* A sound file, block by block.
LEMMA SoundBlocks ==
    ASSUME NEW f, NEW c, NEW e, NEW u
    PROVE  Sound(f, c, e, u) <=> /\ BlocksOk(f, c, e) /\ UnitsIn(f, c, e, u) /\ Got(f, c, e - c) = u
<1>1. ASSUME Sound(f, c, e, u) PROVE BlocksOk(f, c, e) /\ UnitsIn(f, c, e, u) /\ Got(f, c, e - c) = u
  <2>1. /\ Shape(f, c, e) /\ e <= Len(f) /\ UnitsIn(f, c, e, u) /\ Got(f, c, e - c) = u
        /\ \A k \in 1 .. Len(f) : InfoAt(f, k) => k < Len(f)
    BY <1>1 DEF Sound
  <2>2. /\ f \in Seq(Entry) /\ c \in Nat /\ e \in Nat /\ 2 <= c /\ c <= e /\ Len(f) \in Nat
    BY <2>1, LenProperties DEF Shape
  <2>3. ASSUME NEW k \in 1 .. Len(f) PROVE BlockOk(f, c, e, k)
    <3>1. InfoAt(f, k) => k \in 1 .. Len(f) - 1
      BY <2>1, <2>2
    <3>2. InfoAt(f, k) => k < Len(f) /\ f[k + 1].k = "data"
      BY <2>1, <3>1 DEF Shape
    <3>3. /\ k = 1 => f[k] = Header
          /\ k = c => f[k] = Info(Chart[fmt])
          /\ k \in c + 1 .. e => f[k].k = "data" /\ UnitsAt(f, k) \in Seq(Unit)
          /\ k # 1 /\ k \notin c .. e => InfoAt(f, k) \/ ValueAt(f, k)
      BY <2>1 DEF Shape
    <3> QED BY <3>2, <3>3 DEF BlockOk
  <2> QED BY <2>1, <2>2, <2>3 DEF BlocksOk
<1>2. ASSUME BlocksOk(f, c, e), UnitsIn(f, c, e, u), Got(f, c, e - c) = u PROVE Sound(f, c, e, u)
  <2>1. /\ f \in Seq(Entry) /\ c \in Nat /\ e \in Nat /\ 2 <= c /\ c <= e /\ e <= Len(f)
        /\ \A k \in 1 .. Len(f) : BlockOk(f, c, e, k)
    BY <1>2 DEF BlocksOk
  <2>2. Len(f) \in Nat
    BY <2>1, LenProperties
  <2>3. \A k \in 1 .. Len(f) - 1 : k \in 1 .. Len(f)
    BY <2>2
  <2>4. \A k \in 1 .. Len(f) - 1 : InfoAt(f, k) => f[k + 1].k = "data"
    BY <2>1, <2>3 DEF BlockOk
  <2>5. \A k \in 1 .. Len(f) :
          /\ k = 1 => f[k] = Header
          /\ k = c => f[k] = Info(Chart[fmt])
          /\ k \in c + 1 .. e => f[k].k = "data" /\ UnitsAt(f, k) \in Seq(Unit)
          /\ k # 1 /\ k \notin c .. e => InfoAt(f, k) \/ ValueAt(f, k)
    BY <2>1 DEF BlockOk
  <2>6. Shape(f, c, e)
    BY <2>1, <2>4, <2>5 DEF Shape
  <2>7. \A k \in 1 .. Len(f) : InfoAt(f, k) => k < Len(f)
    BY <2>1 DEF BlockOk
  <2> QED BY <1>2, <2>1, <2>6, <2>7 DEF Sound
<1> QED BY <1>1, <1>2

\* A block that has come to another place is the same there.
LEMMA SameHere ==
    ASSUME NEW f, NEW j \in Nat, NEW g, NEW k \in Nat, g[k] = f[j]
    PROVE  /\ InfoAt(g, k) <=> InfoAt(f, j)
           /\ UnitsAt(g, k) = UnitsAt(f, j)
           /\ k > 1 /\ j > 1 /\ g[k - 1] = f[j - 1] => (ValueAt(g, k) <=> ValueAt(f, j))
<1>1. InfoAt(g, k) <=> InfoAt(f, j)
  BY DEF InfoAt
<1>2. UnitsAt(g, k) = UnitsAt(f, j)
  BY DEF UnitsAt
<1>3. ASSUME k > 1, j > 1, g[k - 1] = f[j - 1] PROVE ValueAt(g, k) <=> ValueAt(f, j)
  <2>1. InfoAt(g, k - 1) <=> InfoAt(f, j - 1)
    BY <1>3 DEF InfoAt
  <2> QED BY <1>3, <2>1 DEF ValueAt
<1> QED BY <1>1, <1>2, <1>3

\* The units are those of the same blocks in another place.
LEMMA UnitsStay ==
    ASSUME NEW f, NEW c \in Nat, NEW e \in Nat, c <= e, NEW u, UnitsIn(f, c, e, u), Got(f, c, e - c) = u,
           NEW g, NEW b \in Nat, NEW d \in Nat, d - b = e - c, SameUnits(g, b, f, c, e - c),
           e <= Len(f)
    PROVE  UnitsIn(g, b, d, u) /\ Got(g, b, d - b) = u
<1>1. ASSUME NEW j \in 0 .. e - c PROVE Got(g, b, j) = Got(f, c, j)
  <2>1. j \in Nat /\ \A i \in 1 .. j : i \in 1 .. e - c
    OBVIOUS
  <2>2. SameUnits(g, b, f, c, j)
    BY <2>1 DEF SameUnits
  <2> QED BY <2>1, <2>2, GotSame
<1>2. e - c \in 0 .. e - c
  OBVIOUS
<1>3. Got(g, b, d - b) = u
  BY <1>1, <1>2
<1>4. ASSUME NEW j \in 0 .. d - b PROVE Begins(Got(g, b, j), u)
  <2>1. j \in 0 .. e - c
    OBVIOUS
  <2>2. c + j <= Len(f)
    <3>1. c + j <= e
      BY <2>1
    <3> QED BY <2>1, <3>1
  <2>3. Begins(Got(f, c, j), u)
    BY <2>1, <2>2 DEF UnitsIn
  <2> QED BY <1>1, <2>1, <2>3
<1>5. IsUnits(u, Len(src.chart))
  BY DEF UnitsIn
<1> QED BY <1>3, <1>4, <1>5 DEF UnitsIn

\* g is f with a pair at p.
Inserted(f, g, p, i, d) ==
    /\ g \in Seq(Entry) /\ Len(g) = Len(f) + 2
    /\ \A k \in 1 .. p - 1 : g[k] = f[k]
    /\ g[p] = i /\ g[p + 1] = d
    /\ \A k \in p + 2 .. Len(f) + 2 : g[k] = f[k - 2]
PairOk(n, v) == n \in Names \cup {"unknown"} /\ v \in Value /\ (n \in Names => v = Written(n))

\* The pair itself.
LEMMA PairBlocks ==
    ASSUME NEW g, NEW p \in Nat, p >= 1, NEW n, NEW v, PairOk(n, v), g[p] = Info(n), g[p + 1] = Data(v)
    PROVE  /\ InfoAt(g, p) /\ ~InfoAt(g, p + 1) /\ ValueAt(g, p + 1) /\ g[p + 1].k = "data"
<1>1. InfoAt(g, p)
  BY DEF InfoAt, PairOk
<1>2. ~InfoAt(g, p + 1)
  BY BlockIs DEF InfoAt
<1>3. g[p + 1].k = "data" /\ g[p + 1].v = v
  BY BlockIs
<1>4. \A m \in Names : g[p] = Info(m) => g[p + 1].v = Written(m)
  <2> SUFFICES ASSUME NEW m \in Names, g[p] = Info(m) PROVE g[p + 1].v = Written(m)
    OBVIOUS
  <2>1. m = n
    BY BlockIs
  <2> QED BY <1>3, <2>1 DEF PairOk
<1>5. p + 1 > 1 /\ (p + 1) - 1 = p
  OBVIOUS
<1> DEFINE q == p + 1
<1>6. q > 1 /\ q - 1 = p /\ g[q].k = "data" /\ \A m \in Names : g[p] = Info(m) => g[q].v = Written(m)
  BY <1>3, <1>4, <1>5
<1> HIDE DEF q
<1>7. ValueAt(g, q)
  BY <1>1, <1>6 DEF ValueAt
<1> QED BY <1>1, <1>2, <1>3, <1>7 DEF q

\* A pair before the chart.
InsertsBefore(f, c, u, g, p, n, v) ==
    /\ Sound(f, c, Len(f), u) /\ p \in 2 .. c /\ ~InfoAt(f, p - 1)
    /\ PairOk(n, v) /\ Inserted(f, g, p, Info(n), Data(v))
\* A pair before the chart leaves the file sound, and its chart two blocks further.
LEMMA InsertBefore ==
    ASSUME NEW f, NEW c, NEW u, NEW g, NEW p, NEW n, NEW v, InsertsBefore(f, c, u, g, p, n, v)
    PROVE  Sound(g, c + 2, Len(f) + 2, u)
<1> DEFINE e == Len(f)
           b == c + 2
           d == e + 2
<1>1. /\ Sound(f, c, e, u) /\ p \in 2 .. c /\ ~InfoAt(f, p - 1)
      /\ PairOk(n, v) /\ Inserted(f, g, p, Info(n), Data(v))
  BY DEF InsertsBefore
<1>2. BlocksOk(f, c, e) /\ UnitsIn(f, c, e, u) /\ Got(f, c, e - c) = u
  BY <1>1, SoundBlocks
<1>3. /\ f \in Seq(Entry) /\ c \in Nat /\ e \in Nat /\ 2 <= c /\ c <= e
      /\ \A k \in 1 .. e : BlockOk(f, c, e, k)
  BY <1>2 DEF BlocksOk
<1>4. /\ g \in Seq(Entry) /\ Len(g) = d
      /\ \A k \in 1 .. p - 1 : g[k] = f[k]
      /\ g[p] = Info(n) /\ g[p + 1] = Data(v)
      /\ \A k \in p + 2 .. d : g[k] = f[k - 2]
  BY <1>1 DEF Inserted
<1>5. p \in Nat /\ p >= 2 /\ p <= c
  BY <1>1, <1>3
<1>6. InfoAt(g, p) /\ ~InfoAt(g, p + 1) /\ ValueAt(g, p + 1) /\ g[p + 1].k = "data"
  BY <1>1, <1>4, <1>5, PairBlocks
<1>7. b \in Nat /\ d \in Nat /\ b = c + 2 /\ d = e + 2 /\ 2 <= b /\ b <= d /\ d - b = e - c
  BY <1>3
<1>8. Len(f) = e
  OBVIOUS
<1> HIDE DEF e, b, d
<1>9. ASSUME NEW k \in 1 .. d PROVE BlockOk(g, b, d, k)
  <2>1. CASE k < p
    <3>1. /\ k \in Nat /\ k \in 1 .. e /\ k \in 1 .. p - 1 /\ k # b /\ k # c /\ k \notin b + 1 .. d /\ k \notin c .. e
          /\ (k # 1 => k > 1 /\ k - 1 \in 1 .. p - 1) /\ k < d
          /\ (k # p - 1 => k + 1 \in 1 .. p - 1)
      BY <1>3, <1>5, <1>7, <2>1
    <3>2. g[k] = f[k] /\ BlockOk(f, c, e, k) /\ (k # 1 => g[k - 1] = f[k - 1])
      BY <1>3, <1>4, <3>1
    <3>3. k = 1 => g[k] = Header
      BY <3>2 DEF BlockOk
    <3>4. (InfoAt(g, k) <=> InfoAt(f, k)) /\ (k # 1 => (ValueAt(g, k) <=> ValueAt(f, k)))
      BY <3>1, <3>2, SameHere
    <3>5. k # 1 => InfoAt(g, k) \/ ValueAt(g, k)
      BY <3>1, <3>2, <3>4 DEF BlockOk
    <3>6. InfoAt(g, k) => k # p - 1 /\ f[k + 1].k = "data"
      BY <1>1, <3>2, <3>4 DEF BlockOk
    <3>7. InfoAt(g, k) => g[k + 1].k = "data"
      BY <1>4, <3>1, <3>6
    <3> QED BY <1>4, <3>1, <3>3, <3>5, <3>7 DEF BlockOk
  <2>2. CASE k = p
    <3>1. k # 1 /\ k # b /\ k \notin b + 1 .. d /\ k < d
      BY <1>3, <1>5, <1>7, <2>2
    <3> QED BY <1>4, <1>6, <2>2, <3>1 DEF BlockOk
  <2>3. CASE k = p + 1
    <3>1. k # 1 /\ k # b /\ k \notin b + 1 .. d
      BY <1>3, <1>5, <1>7, <2>3
    <3> QED BY <1>6, <2>3, <3>1 DEF BlockOk
  <2>4. CASE k > p + 1
    <3> DEFINE j == k - 2
    <3>1. /\ k \in Nat /\ j \in Nat /\ j \in 1 .. e /\ k \in p + 2 .. d /\ k # 1 /\ j # 1 /\ k > 1 /\ j > 1
          /\ (k = b => j = c) /\ (k \in b + 1 .. d => j \in c + 1 .. e)
          /\ (k \notin b .. d => j \notin c .. e) /\ (j < e => k < d /\ k + 1 \in p + 2 .. d /\ (k + 1) - 2 = j + 1)
          /\ (j # p => k - 1 \in p + 2 .. d /\ (k - 1) - 2 = j - 1)
          /\ k - 2 = j
      BY <1>3, <1>5, <1>7, <2>4
    <3> HIDE DEF j
    <3>2. g[k] = f[j] /\ BlockOk(f, c, e, j) /\ (j # p => g[k - 1] = f[j - 1]) /\ (j < e => g[k + 1] = f[j + 1])
      BY <1>3, <1>4, <3>1
    <3>3. (InfoAt(g, k) <=> InfoAt(f, j)) /\ UnitsAt(g, k) = UnitsAt(f, j)
          /\ (j # p => (ValueAt(g, k) <=> ValueAt(f, j)))
      BY <3>1, <3>2, SameHere
    <3>4. j = p => ~ValueAt(f, j)
      BY <1>1 DEF ValueAt
    <3>5. k = b => g[k] = Info(Chart[fmt])
      BY <3>1, <3>2 DEF BlockOk
    <3>6. k \in b + 1 .. d => g[k].k = "data" /\ UnitsAt(g, k) \in Seq(Unit)
      BY <3>1, <3>2, <3>3 DEF BlockOk
    <3>7. k \notin b .. d => InfoAt(g, k) \/ ValueAt(g, k)
      BY <3>1, <3>2, <3>3, <3>4 DEF BlockOk
    <3>8. InfoAt(g, k) => j < e /\ f[j + 1].k = "data"
      BY <1>8, <3>2, <3>3 DEF BlockOk
    <3>9. InfoAt(g, k) => k < d /\ g[k + 1].k = "data"
      BY <3>1, <3>2, <3>8
    <3> QED BY <1>4, <3>1, <3>5, <3>6, <3>7, <3>9 DEF BlockOk
  <2>5. k < p \/ k = p \/ k = p + 1 \/ k > p + 1
    BY <1>5
  <2> QED BY <2>1, <2>2, <2>3, <2>4, <2>5
<1>10. BlocksOk(g, b, d)
  BY <1>4, <1>7, <1>9 DEF BlocksOk
<1>11. SameUnits(g, b, f, c, e - c)
  <2> SUFFICES ASSUME NEW i \in 1 .. e - c PROVE UnitsAt(g, b + i) = UnitsAt(f, c + i)
    BY DEF SameUnits
  <2>1. b + i \in p + 2 .. d /\ (b + i) - 2 = c + i
    BY <1>3, <1>5, <1>7
  <2>2. g[b + i] = f[c + i]
    BY <1>4, <2>1
  <2> QED BY <2>2 DEF UnitsAt
<1>12. UnitsIn(g, b, d, u) /\ Got(g, b, d - b) = u
  BY <1>2, <1>3, <1>7, <1>8, <1>11, UnitsStay
<1>13. Sound(g, b, d, u)
  BY <1>10, <1>12, SoundBlocks
<1> QED BY <1>13 DEF b, d, e

\* A pair behind the chart.
InsertsBehind(f, c, u, g, n, v) ==
    /\ Sound(f, c, Len(f), u) /\ PairOk(n, v) /\ Inserted(f, g, Len(f) + 1, Info(n), Data(v))
\* A pair behind the chart leaves the file sound, and its chart where it is.
LEMMA InsertBehind ==
    ASSUME NEW f, NEW c, NEW u, NEW g, NEW n, NEW v, InsertsBehind(f, c, u, g, n, v)
    PROVE  Sound(g, c, Len(f), u)
<1> DEFINE e == Len(f)
<1>1. /\ Sound(f, c, e, u) /\ PairOk(n, v) /\ Inserted(f, g, e + 1, Info(n), Data(v))
  BY DEF InsertsBehind
<1>2. BlocksOk(f, c, e) /\ UnitsIn(f, c, e, u) /\ Got(f, c, e - c) = u
  BY <1>1, SoundBlocks
<1>3. /\ f \in Seq(Entry) /\ c \in Nat /\ e \in Nat /\ 2 <= c /\ c <= e
      /\ \A k \in 1 .. e : BlockOk(f, c, e, k)
  BY <1>2 DEF BlocksOk
<1>4. /\ g \in Seq(Entry) /\ Len(g) = e + 2
      /\ \A k \in 1 .. e : g[k] = f[k]
      /\ g[e + 1] = Info(n) /\ g[e + 2] = Data(v)
  <2>1. e + 1 - 1 = e /\ (e + 1) + 1 = e + 2
    BY <1>3
  <2> QED BY <1>1, <2>1 DEF Inserted
<1>5. Len(f) = e
  OBVIOUS
<1> HIDE DEF e
<1>6. InfoAt(g, e + 1) /\ ~InfoAt(g, e + 2) /\ ValueAt(g, e + 2) /\ g[e + 2].k = "data"
  <2> DEFINE p == e + 1
  <2>1. p \in Nat /\ p >= 1 /\ p + 1 = e + 2
    BY <1>3
  <2>2. g[p] = Info(n) /\ g[p + 1] = Data(v)
    BY <1>4, <2>1
  <2> HIDE DEF p
  <2>3. InfoAt(g, p) /\ ~InfoAt(g, p + 1) /\ ValueAt(g, p + 1) /\ g[p + 1].k = "data"
    BY <1>1, <2>1, <2>2, PairBlocks
  <2> QED BY <2>1, <2>3 DEF p
<1>7. ASSUME NEW k \in 1 .. e + 2 PROVE BlockOk(g, c, e, k)
  <2>1. CASE k <= e
    <3>1. /\ k \in Nat /\ k \in 1 .. e /\ (k # 1 => k > 1 /\ k - 1 \in 1 .. e) /\ k < e + 2
          /\ (k < e => k + 1 \in 1 .. e)
      BY <1>3, <2>1
    <3>2. g[k] = f[k] /\ BlockOk(f, c, e, k) /\ (k # 1 => g[k - 1] = f[k - 1]) /\ (k < e => g[k + 1] = f[k + 1])
      BY <1>3, <1>4, <3>1
    <3>3. (InfoAt(g, k) <=> InfoAt(f, k)) /\ UnitsAt(g, k) = UnitsAt(f, k)
          /\ (k # 1 => (ValueAt(g, k) <=> ValueAt(f, k)))
      BY <3>1, <3>2, SameHere
    <3>4. /\ k = 1 => f[k] = Header
          /\ k = c => f[k] = Info(Chart[fmt])
          /\ k \in c + 1 .. e => f[k].k = "data" /\ UnitsAt(f, k) \in Seq(Unit)
          /\ k # 1 /\ k \notin c .. e => InfoAt(f, k) \/ ValueAt(f, k)
          /\ InfoAt(f, k) => k < e /\ f[k + 1].k = "data"
      BY <1>5, <3>2 DEF BlockOk
    <3>5. InfoAt(g, k) => k < Len(g) /\ g[k + 1].k = "data"
      BY <1>4, <3>1, <3>2, <3>3, <3>4
    <3>6. /\ k = 1 => g[k] = Header
          /\ k = c => g[k] = Info(Chart[fmt])
          /\ k \in c + 1 .. e => g[k].k = "data" /\ UnitsAt(g, k) \in Seq(Unit)
      BY <3>2, <3>3, <3>4
    <3>7. k # 1 /\ k \notin c .. e => InfoAt(g, k) \/ ValueAt(g, k)
      BY <3>3, <3>4
    <3> QED BY <3>5, <3>6, <3>7 DEF BlockOk
  <2>2. CASE k = e + 1
    <3>1. k # 1 /\ k # c /\ k \notin c + 1 .. e /\ k < e + 2 /\ k + 1 = e + 2
      BY <1>3, <2>2
    <3> QED BY <1>4, <1>6, <2>2, <3>1 DEF BlockOk
  <2>3. CASE k = e + 2
    <3>1. k # 1 /\ k # c /\ k \notin c + 1 .. e
      BY <1>3, <2>3
    <3> QED BY <1>6, <2>3, <3>1 DEF BlockOk
  <2>4. k <= e \/ k = e + 1 \/ k = e + 2
    BY <1>3
  <2> QED BY <2>1, <2>2, <2>3, <2>4
<1>8. BlocksOk(g, c, e)
  <2>1. e <= Len(g)
    BY <1>3, <1>4
  <2> QED BY <1>3, <1>4, <1>7, <2>1 DEF BlocksOk
<1>9. SameUnits(g, c, f, c, e - c)
  <2> SUFFICES ASSUME NEW i \in 1 .. e - c PROVE UnitsAt(g, c + i) = UnitsAt(f, c + i)
    BY DEF SameUnits
  <2>1. c + i \in 1 .. e
    BY <1>3
  <2>2. g[c + i] = f[c + i]
    BY <1>4, <2>1
  <2> QED BY <2>2 DEF UnitsAt
<1>10. UnitsIn(g, c, e, u) /\ Got(g, c, e - c) = u
  <2>1. e - c = e - c /\ e <= Len(f)
    BY <1>3, <1>5
  <2> QED BY <1>2, <1>3, <1>9, <2>1, UnitsStay
<1>11. Sound(g, c, e, u)
  BY <1>8, <1>10, SoundBlocks
<1> QED BY <1>11 DEF e

\* g is f without the pair at p.
Removed(f, g, p) ==
    /\ g \in Seq(Entry) /\ Len(g) = Len(f) - 2
    /\ \A k \in 1 .. p - 1 : g[k] = f[k]
    /\ \A k \in p .. Len(f) - 2 : g[k] = f[k + 2]
Removes(f, c, u, g, p) ==
    /\ Sound(f, c, Len(f), u) /\ p \in 2 .. c - 2 /\ InfoAt(f, p) /\ Removed(f, g, p)
\* A pair taken out before the chart leaves the file sound, and its chart two blocks nearer.
LEMMA RemoveBefore ==
    ASSUME NEW f, NEW c, NEW u, NEW g, NEW p, Removes(f, c, u, g, p)
    PROVE  Sound(g, c - 2, Len(f) - 2, u)
<1> DEFINE e == Len(f)
           b == c - 2
           d == e - 2
<1>1. Sound(f, c, e, u) /\ p \in 2 .. c - 2 /\ InfoAt(f, p) /\ Removed(f, g, p)
  BY DEF Removes
<1>2. BlocksOk(f, c, e) /\ UnitsIn(f, c, e, u) /\ Got(f, c, e - c) = u
  BY <1>1, SoundBlocks
<1>3. /\ f \in Seq(Entry) /\ c \in Nat /\ e \in Nat /\ 2 <= c /\ c <= e
      /\ \A k \in 1 .. e : BlockOk(f, c, e, k)
  BY <1>2 DEF BlocksOk
<1>4. /\ g \in Seq(Entry) /\ Len(g) = d
      /\ \A k \in 1 .. p - 1 : g[k] = f[k]
      /\ \A k \in p .. d : g[k] = f[k + 2]
  BY <1>1 DEF Removed
<1>5. p \in Nat /\ p >= 2 /\ p <= c - 2 /\ c >= 4
  BY <1>1, <1>3
<1>6. b \in Nat /\ d \in Nat /\ b = c - 2 /\ d = e - 2 /\ 2 <= b /\ b <= d /\ d - b = e - c
  BY <1>3, <1>5
<1>7. Len(f) = e
  OBVIOUS
<1> HIDE DEF e, b, d
<1>8. f[p + 1].k = "data" /\ ~InfoAt(f, p + 1) /\ ~InfoAt(f, p - 1)
  <2>1. p \in 1 .. e /\ p - 1 \in 1 .. e /\ (p - 1) + 1 = p
    BY <1>3, <1>5
  <2>2. BlockOk(f, c, e, p) /\ BlockOk(f, c, e, p - 1)
    BY <1>3, <2>1
  <2>3. f[p + 1].k = "data"
    BY <1>1, <2>2 DEF BlockOk
  <2>4. f[p].k = "info"
    BY <1>1, BlockIs DEF InfoAt
  <2>5. InfoAt(f, p - 1) => f[p].k = "data"
    BY <2>1, <2>2 DEF BlockOk
  <2>6. ~InfoAt(f, p + 1)
    BY <2>3, BlockIs DEF InfoAt
  <2> QED BY <2>3, <2>4, <2>5, <2>6
<1>9. ASSUME NEW k \in 1 .. d PROVE BlockOk(g, b, d, k)
  <2>1. CASE k < p
    <3>1. /\ k \in Nat /\ k \in 1 .. e /\ k \in 1 .. p - 1 /\ k # b /\ k # c /\ k \notin b + 1 .. d /\ k \notin c .. e
          /\ (k # 1 => k > 1 /\ k - 1 \in 1 .. p - 1) /\ k < d
          /\ (k # p - 1 => k + 1 \in 1 .. p - 1)
      BY <1>3, <1>5, <1>6, <2>1
    <3>2. g[k] = f[k] /\ BlockOk(f, c, e, k) /\ (k # 1 => g[k - 1] = f[k - 1])
      BY <1>3, <1>4, <3>1
    <3>3. k = 1 => g[k] = Header
      BY <3>2 DEF BlockOk
    <3>4. (InfoAt(g, k) <=> InfoAt(f, k)) /\ (k # 1 => (ValueAt(g, k) <=> ValueAt(f, k)))
      BY <3>1, <3>2, SameHere
    <3>5. k # 1 => InfoAt(g, k) \/ ValueAt(g, k)
      BY <3>1, <3>2, <3>4 DEF BlockOk
    <3>6. InfoAt(g, k) => k # p - 1 /\ f[k + 1].k = "data"
      BY <1>8, <3>2, <3>4 DEF BlockOk
    <3>7. InfoAt(g, k) => g[k + 1].k = "data"
      BY <1>4, <3>1, <3>6
    <3> QED BY <1>4, <3>1, <3>3, <3>5, <3>7 DEF BlockOk
  <2>2. CASE k >= p
    <3> DEFINE j == k + 2
    <3>1. /\ k \in Nat /\ j \in Nat /\ j \in 1 .. e /\ k \in p .. d /\ k # 1 /\ j # 1 /\ k > 1 /\ j > 1
          /\ (k = b => j = c) /\ (k \in b + 1 .. d => j \in c + 1 .. e)
          /\ (k \notin b .. d => j \notin c .. e) /\ (j < e => k < d /\ k + 1 \in p .. d /\ (k + 1) + 2 = j + 1)
          /\ (k # p => k - 1 \in p .. d /\ (k - 1) + 2 = j - 1)
          /\ k + 2 = j /\ (k = p => j - 1 = p + 1)
      BY <1>3, <1>5, <1>6, <2>2
    <3> HIDE DEF j
    <3>2. g[k] = f[j] /\ BlockOk(f, c, e, j) /\ (k # p => g[k - 1] = f[j - 1]) /\ (j < e => g[k + 1] = f[j + 1])
      BY <1>3, <1>4, <3>1
    <3>3. (InfoAt(g, k) <=> InfoAt(f, j)) /\ UnitsAt(g, k) = UnitsAt(f, j)
          /\ (k # p => (ValueAt(g, k) <=> ValueAt(f, j)))
      BY <3>1, <3>2, SameHere
    <3>4. k = p => ~ValueAt(f, j)
      BY <1>8, <3>1 DEF ValueAt
    <3>5. k = b => g[k] = Info(Chart[fmt])
      BY <3>1, <3>2 DEF BlockOk
    <3>6. k \in b + 1 .. d => g[k].k = "data" /\ UnitsAt(g, k) \in Seq(Unit)
      BY <3>1, <3>2, <3>3 DEF BlockOk
    <3>7. k \notin b .. d => InfoAt(g, k) \/ ValueAt(g, k)
      BY <3>1, <3>2, <3>3, <3>4 DEF BlockOk
    <3>8. InfoAt(g, k) => j < e /\ f[j + 1].k = "data"
      BY <1>7, <3>2, <3>3 DEF BlockOk
    <3>9. InfoAt(g, k) => k < d /\ g[k + 1].k = "data"
      BY <3>1, <3>2, <3>8
    <3> QED BY <1>4, <3>1, <3>5, <3>6, <3>7, <3>9 DEF BlockOk
  <2>5. k < p \/ k >= p
    BY <1>5
  <2> QED BY <2>1, <2>2, <2>5
<1>10. BlocksOk(g, b, d)
  BY <1>4, <1>6, <1>9 DEF BlocksOk
<1>11. SameUnits(g, b, f, c, e - c)
  <2> SUFFICES ASSUME NEW i \in 1 .. e - c PROVE UnitsAt(g, b + i) = UnitsAt(f, c + i)
    BY DEF SameUnits
  <2>1. b + i \in p .. d /\ (b + i) + 2 = c + i
    BY <1>3, <1>5, <1>6
  <2>2. g[b + i] = f[c + i]
    BY <1>4, <2>1
  <2> QED BY <2>2 DEF UnitsAt
<1>12. UnitsIn(g, b, d, u) /\ Got(g, b, d - b) = u
  BY <1>2, <1>3, <1>6, <1>7, <1>11, UnitsStay
<1>13. Sound(g, b, d, u)
  BY <1>10, <1>12, SoundBlocks
<1> QED BY <1>13 DEF b, d, e

\* Where descriptions are once a pair has been put in, or taken out.
LEMMA InsertOcc ==
    ASSUME NEW f, Len(f) \in Nat, NEW g, NEW p \in Nat, p >= 1, p <= Len(f) + 1, NEW m, NEW v,
           Inserted(f, g, p, Info(m), Data(v))
    PROVE  \A k \in Nat : \A n :
              Occ(g, k, n) <=> \/ k < p /\ Occ(f, k, n)
                               \/ k = p /\ n = m
                               \/ k >= p + 2 /\ Occ(f, k - 2, n)
<1> DEFINE e == Len(f)
<1>1. /\ Len(g) = e + 2
      /\ \A k \in 1 .. p - 1 : g[k] = f[k]
      /\ g[p] = Info(m) /\ g[p + 1] = Data(v)
      /\ \A k \in p + 2 .. e + 2 : g[k] = f[k - 2]
  BY DEF Inserted
<1>2. e \in Nat /\ p <= e + 1 /\ e = Len(f)
  OBVIOUS
<1> HIDE DEF e
<1> TAKE k \in Nat
<1> TAKE n
<1>3. CASE k < p
  <2>1. k >= 1 => k \in 1 .. p - 1 /\ k \in 1 .. e /\ k \in 1 .. e + 2
    BY <1>2, <1>3
  <2>2. ~(k >= 1) => k \notin 1 .. e /\ k \notin 1 .. e + 2
    OBVIOUS
  <2>3. k # p /\ ~(k >= p + 2)
    BY <1>3
  <2> QED BY <1>1, <1>2, <1>3, <2>1, <2>2, <2>3 DEF Occ
<1>4. CASE k = p
  <2>1. k \in 1 .. e + 2 /\ ~(k < p) /\ ~(k >= p + 2)
    BY <1>2, <1>4
  <2>2. Occ(g, k, n) <=> Info(m) = Info(n)
    BY <1>1, <1>4, <2>1 DEF Occ
  <2>3. Info(m) = Info(n) <=> n = m
    BY BlockIs
  <2> QED BY <1>4, <2>1, <2>2, <2>3
<1>5. CASE k = p + 1
  <2>1. ~(k < p) /\ k # p /\ ~(k >= p + 2)
    BY <1>5
  <2>2. g[k] # Info(n)
    BY <1>1, <1>5, BlockIs
  <2> QED BY <2>1, <2>2 DEF Occ
<1>6. CASE k >= p + 2
  <2>1. (k \in 1 .. e + 2 <=> k - 2 \in 1 .. e) /\ (k \in 1 .. e + 2 => k \in p + 2 .. e + 2) /\ ~(k < p) /\ k # p
    BY <1>2, <1>6
  <2>2. Occ(g, k, n) <=> Occ(f, k - 2, n)
    BY <1>1, <1>2, <2>1 DEF Occ
  <2> QED BY <1>6, <2>1, <2>2
<1>7. k < p \/ k = p \/ k = p + 1 \/ k >= p + 2
  OBVIOUS
<1> QED BY <1>3, <1>4, <1>5, <1>6, <1>7

\* Where the descriptions are when a pair is taken out.
LEMMA RemoveOcc ==
    ASSUME NEW f, Len(f) \in Nat, NEW g, NEW p \in Nat, p >= 1, p <= Len(f) - 1, Removed(f, g, p)
    PROVE  \A k \in Nat : \A n :
              Occ(g, k, n) <=> \/ k < p /\ Occ(f, k, n)
                               \/ k >= p /\ Occ(f, k + 2, n)
<1> DEFINE e == Len(f)
<1>1. /\ Len(g) = e - 2
      /\ \A k \in 1 .. p - 1 : g[k] = f[k]
      /\ \A k \in p .. e - 2 : g[k] = f[k + 2]
  BY DEF Removed
<1>2. e \in Nat /\ p <= e - 1 /\ e = Len(f)
  OBVIOUS
<1> HIDE DEF e
<1> TAKE k \in Nat
<1> TAKE n
<1>3. CASE k < p
  <2>1. k >= 1 => k \in 1 .. p - 1 /\ k \in 1 .. e /\ k \in 1 .. e - 2
    BY <1>2, <1>3
  <2>2. ~(k >= 1) => k \notin 1 .. e /\ k \notin 1 .. e - 2
    OBVIOUS
  <2>3. ~(k >= p)
    BY <1>3
  <2> QED BY <1>1, <1>2, <1>3, <2>1, <2>2, <2>3 DEF Occ
<1>4. CASE k >= p
  <2>1. (k \in 1 .. e - 2 <=> k + 2 \in 1 .. e) /\ (k \in 1 .. e - 2 => k \in p .. e - 2) /\ ~(k < p)
    BY <1>2, <1>4
  <2>2. Occ(g, k, n) <=> Occ(f, k + 2, n)
    BY <1>1, <1>2, <2>1 DEF Occ
  <2> QED BY <1>4, <2>1, <2>2
<1> QED BY <1>3, <1>4

\* Where the variables are once the file has been edited.
OrderedOcc(g, d, c, sh) ==
    InOrder(d) => \A i \in 1 .. N :
        /\ 2 * i + sh + 1 < c
        /\ \/ Occ(g, 2 * i + sh, NamesOf(fmt)[i])
           \/ d = "refuse" /\ Occ(g, 2 * i + sh, "refused")
OnlyOcc(g, d, sh) ==
    d \notin {"drop", "move", "copy"} =>
        \A i \in 1 .. N : \A k \in Nat : Occ(g, k, NamesOf(fmt)[i]) => k = 2 * i + sh
OnceOcc(g, d) ==
    d # "copy" => \A i \in 1 .. N : \A j, k \in Nat :
        Occ(g, j, NamesOf(fmt)[i]) /\ Occ(g, k, NamesOf(fmt)[i]) => j = k
RefusedOcc(g, d) == d # "refuse" => \A k \in Nat : ~Occ(g, k, "refused")
AllOcc(g, d) ==
    d \notin {"tear", "drop", "refuse"} => \A i \in 1 .. N : \E k \in Nat : Occ(g, k, NamesOf(fmt)[i])
PlacesOk(g, d, c, sh) ==
    OrderedOcc(g, d, c, sh) /\ OnlyOcc(g, d, sh) /\ OnceOcc(g, d) /\ RefusedOcc(g, d) /\ AllOcc(g, d)

\* A sound file whose descriptions are at the right places is one the invariant speaks of.
LEMMA PlacesFile ==
    ASSUME fmt \in Formats, NEW g, NEW d, NEW c, NEW e, NEW sh \in {0, 2}, NEW u,
           Sound(g, c, e, u), PlacesOk(g, d, c, sh)
    PROVE  FileIs(g, d, c, e, sh, u)
<1>1. /\ Shape(g, c, e) /\ e <= Len(g) /\ UnitsIn(g, c, e, u) /\ Got(g, c, e - c) = u
      /\ \A k \in 1 .. Len(g) : InfoAt(g, k) => k < Len(g)
  BY DEF Sound
<1>2. OrderedOcc(g, d, c, sh) /\ OnlyOcc(g, d, sh) /\ OnceOcc(g, d) /\ RefusedOcc(g, d) /\ AllOcc(g, d)
  BY DEF PlacesOk
<1>3. Len(g) \in Nat /\ \A k \in 1 .. Len(g) : k \in Nat
  BY <1>1, LenProperties DEF Shape
<1>4. \A n \in Names : \E i \in 1 .. N : n = NamesOf(fmt)[i]
  BY NamesAre
<1>5. Ordered(g, d, c, sh)
  BY <1>2 DEF Ordered, OrderedOcc, Occ
<1>6. Only(g, d, sh)
  BY <1>2, <1>3 DEF Only, OnlyOcc, Occ
<1>7. Once(g, d)
  <2> SUFFICES ASSUME d # "copy", NEW n \in Names, NEW j \in 1 .. Len(g), NEW k \in 1 .. Len(g),
                      g[j] = Info(n), g[k] = Info(n)
               PROVE  j = k
    BY DEF Once
  <2>1. PICK i \in 1 .. N : n = NamesOf(fmt)[i]
    BY <1>4
  <2>2. j \in Nat /\ k \in Nat /\ Occ(g, j, NamesOf(fmt)[i]) /\ Occ(g, k, NamesOf(fmt)[i])
    BY <1>3, <2>1 DEF Occ
  <2> QED BY <1>2, <2>2 DEF OnceOcc
<1>8. OnlyRefused(g, d)
  BY <1>2, <1>3 DEF OnlyRefused, RefusedOcc, Occ
<1>9. All(g, d)
  <2> SUFFICES ASSUME d \notin {"tear", "drop", "refuse"}, NEW n \in Names
               PROVE  \E k \in 1 .. Len(g) : g[k] = Info(n)
    BY DEF All
  <2>1. PICK i \in 1 .. N : n = NamesOf(fmt)[i]
    BY <1>4
  <2>2. PICK k \in Nat : Occ(g, k, NamesOf(fmt)[i])
    BY <1>2 DEF AllOcc
  <2> QED BY <2>1, <2>2 DEF Occ
<1>10. Complete(g, d, c, e, u)
  BY <1>1 DEF Complete
<1> QED BY <1>1, <1>5, <1>6, <1>7, <1>8, <1>9, <1>10 DEF FileIs

-----------------------------------------------------------------------------
(* What the file may have become *)

\* The chart's description is found.
LEMMA ChartPlace ==
    ASSUME NEW f, NEW c, \A k : Occ(f, k, Chart[fmt]) <=> k = c
    PROVE  ChartAt(f) = c
<1>1. c \in 1 .. Len(f) /\ f[c] = Info(Chart[fmt])
  BY DEF Occ
<1>2. \A k \in 1 .. Len(f) : f[k] = Info(Chart[fmt]) => k = c
  BY DEF Occ
<1> QED BY <1>1, <1>2 DEF ChartAt

\* A block that describes nothing.
LEMMA NotInfo ==
    ASSUME NEW f, NEW k \in 1 .. Len(f), \A n \in Names \cup {"unknown", "refused"} : ~Occ(f, k, n)
    PROVE  ~InfoAt(f, k)
BY DEF InfoAt, Occ

\* A pair before or behind the chart, or behind the header.
BaseTakes(f, u, g, p, n, v) ==
    /\ Base(f, u) /\ p \in Places(f) /\ PairOk(n, v) /\ Inserted(f, g, p, Info(n), Data(v))
ShiftBy(p) == IF p = 2 THEN 2 ELSE 0
\* A pair put into the file as it was written: the chart and the places of all variables.
LEMMA InsertBase ==
    ASSUME fmt \in Formats, NEW f, NEW u, NEW g, NEW p, NEW n, NEW v, BaseTakes(f, u, g, p, n, v)
    PROVE  \E c, e :
            /\ Sound(g, c, e, u)
            /\ \A i \in 1 .. N :
                  /\ 2 * i + ShiftBy(p) + 1 < c
                  /\ \A k \in Nat : Occ(g, k, NamesOf(fmt)[i]) <=>
                                      k = 2 * i + ShiftBy(p) \/ (k = p /\ n = NamesOf(fmt)[i])
            /\ \A k \in Nat : ~Occ(g, k, "refused")
<1> DEFINE C == 2 * N + 2
           L == Len(f)
<1>1. Base(f, u) /\ p \in Places(f) /\ PairOk(n, v) /\ Inserted(f, g, p, Info(n), Data(v))
  BY DEF BaseTakes
<1>2. /\ \A i \in 1 .. N : \A k : Occ(f, k, NamesOf(fmt)[i]) <=> k = 2 * i
      /\ \A k : Occ(f, k, Chart[fmt]) <=> k = C
      /\ \A k : ~Occ(f, k, "unknown") /\ ~Occ(f, k, "refused")
      /\ L \in Nat /\ L >= C
  BY <1>1, BaseOcc
<1>3. N \in Nat /\ N >= 8 /\ "refused" \notin Names
  BY NamesAre
<1>4. p \in {2, C, L + 1}
  <2>1. ChartAt(f) = C
    BY <1>2, ChartPlace
  <2> QED BY <1>1, <2>1 DEF Places
<1>5. p \in Nat /\ p >= 1 /\ p <= L + 1 /\ C \in Nat
  BY <1>2, <1>3, <1>4
<1>6. \A k \in Nat : \A m :
         Occ(g, k, m) <=> \/ k < p /\ Occ(f, k, m)
                          \/ k = p /\ m = n
                          \/ k >= p + 2 /\ Occ(f, k - 2, m)
  BY <1>1, <1>2, <1>5, InsertOcc
<1>7. \A k \in Nat : ~Occ(g, k, "refused")
  <2>1. n # "refused"
    BY <1>1, <1>3 DEF PairOk
  <2> QED BY <1>2, <1>6, <2>1
<1>8. ASSUME NEW i \in 1 .. N, NEW k \in Nat
      PROVE  Occ(g, k, NamesOf(fmt)[i]) <=> k = 2 * i + ShiftBy(p) \/ (k = p /\ n = NamesOf(fmt)[i])
  <2>1. Occ(g, k, NamesOf(fmt)[i]) <=> \/ k < p /\ k = 2 * i
                                       \/ k = p /\ n = NamesOf(fmt)[i]
                                       \/ k >= p + 2 /\ k - 2 = 2 * i
    BY <1>2, <1>6
  <2>2. (k < p /\ k = 2 * i) \/ (k >= p + 2 /\ k - 2 = 2 * i) <=> k = 2 * i + ShiftBy(p)
    <3>1. CASE p = 2
      <4>1. ShiftBy(p) = 2
        BY <3>1 DEF ShiftBy
      <4> QED BY <1>3, <3>1, <4>1
    <3>2. CASE p = C
      <4>1. ShiftBy(p) = 0
        BY <1>3, <3>2 DEF ShiftBy
      <4> QED BY <1>3, <3>2, <4>1
    <3>3. CASE p = L + 1
      <4>1. ShiftBy(p) = 0
        BY <1>2, <1>3, <3>3 DEF ShiftBy
      <4> QED BY <1>2, <1>3, <3>3, <4>1
    <3> QED BY <1>4, <3>1, <3>2, <3>3
  <2> QED BY <2>1, <2>2
<1>9. Sound(f, C, L, u)
  BY <1>1, BaseSound
<1>10. CASE p # L + 1
  <2>1. p \in 2 .. C
    BY <1>3, <1>4, <1>10
  <2>2. ~InfoAt(f, p - 1)
    <3>1. p - 1 \in 1 .. Len(f)
      BY <1>2, <1>3, <1>4, <1>10
    <3>2. \A i \in 1 .. N : p - 1 # 2 * i
      <4> TAKE i \in 1 .. N
      <4>1. p - 1 = 1 \/ p - 1 = 2 * N + 1
        BY <1>3, <1>4, <1>10
      <4>2. N \in Int /\ i \in Int
        BY <1>3
      <4> QED BY <4>1, <4>2
    <3> QED BY <1>1, <3>1, <3>2, BaseInfo
  <2>3. InsertsBefore(f, C, u, g, p, n, v)
    BY <1>1, <1>9, <2>1, <2>2 DEF InsertsBefore
  <2>4. Sound(g, C + 2, L + 2, u)
    <3> HIDE DEF C
    <3> QED BY <2>3, InsertBefore
  <2>5. \A i \in 1 .. N : 2 * i + ShiftBy(p) + 1 < C + 2
    BY <1>3 DEF ShiftBy
  <2> QED BY <1>7, <1>8, <2>4, <2>5
<1>11. CASE p = L + 1
  <2>1. InsertsBehind(f, C, u, g, n, v)
    BY <1>1, <1>9, <1>11 DEF InsertsBehind
  <2>2. Sound(g, C, L, u)
    <3> HIDE DEF C
    <3> QED BY <2>1, InsertBehind
  <2>3. ShiftBy(p) = 0
    BY <1>2, <1>3, <1>11 DEF ShiftBy
  <2>4. \A i \in 1 .. N : 2 * i + ShiftBy(p) + 1 < C
    BY <1>3, <2>3
  <2> QED BY <1>7, <1>8, <2>2, <2>4
<1> QED BY <1>10, <1>11

\* There is a way to read g.
Readable(g, d) == \E c, e, sh, u : FileIs(g, d, c, e, sh, u)

\* Names are told apart by their numbers.
LEMMA SameName ==
    ASSUME fmt \in Formats
    PROVE  /\ \A i, j \in 1 .. N : NamesOf(fmt)[i] = NamesOf(fmt)[j] => i = j
           /\ N \in Nat /\ N >= 8 /\ "unknown" \notin Names /\ "refused" \notin Names
           /\ \A i \in 1 .. N : NamesOf(fmt)[i] \in Names /\ NamesOf(fmt)[i] \notin {"unknown", "refused"}
BY NamesAre

\* The file as it was written.
LEMMA EditNone ==
    ASSUME fmt \in Formats, NEW f, NEW u, Base(f, u)
    PROVE  Readable(f, "none")
<1>1. Sound(f, 2 * N + 2, Len(f), u)
  BY BaseSound
<1>2. /\ \A i \in 1 .. N : \A k : Occ(f, k, NamesOf(fmt)[i]) <=> k = 2 * i
      /\ \A k : ~Occ(f, k, "unknown") /\ ~Occ(f, k, "refused")
  BY BaseOcc
<1>3. N \in Nat
  BY SameName
<1>4. OrderedOcc(f, "none", 2 * N + 2, 0)
  <2>1. \A i \in 1 .. N : 2 * i + 0 + 1 < 2 * N + 2 /\ 2 * i + 0 = 2 * i
    BY <1>3
  <2> QED BY <1>2, <2>1 DEF OrderedOcc
<1>5. OnlyOcc(f, "none", 0)
  <2>1. \A i \in 1 .. N : 2 * i + 0 = 2 * i
    BY <1>3
  <2> QED BY <1>2, <2>1 DEF OnlyOcc
<1>6. OnceOcc(f, "none") /\ RefusedOcc(f, "none")
  BY <1>2 DEF OnceOcc, RefusedOcc
<1>7. AllOcc(f, "none")
  <2>1. \A i \in 1 .. N : 2 * i \in Nat
    BY <1>3
  <2> QED BY <1>2, <2>1 DEF AllOcc
<1>8. PlacesOk(f, "none", 2 * N + 2, 0)
  BY <1>4, <1>5, <1>6, <1>7 DEF PlacesOk
<1> DEFINE c == 2 * N + 2
           e == Len(f)
<1>9. Sound(f, c, e, u) /\ PlacesOk(f, "none", c, 0)
  BY <1>1, <1>8
<1> HIDE DEF c, e
<1>10. 0 \in {0, 2}
  OBVIOUS
<1> QED BY <1>9, <1>10, PlacesFile DEF Readable

\* A variable that no converter knows.
LEMMA EditUnknown ==
    ASSUME fmt \in Formats, NEW f, NEW u, Base(f, u), NEW p \in Places(f), NEW g,
           Inserted(f, g, p, Info("unknown"), Data(0))
    PROVE  Readable(g, "unknown")
<1> DEFINE sh == ShiftBy(p)
<1>1. PairOk("unknown", 0)
  BY SameName DEF PairOk, Value
<1>2. BaseTakes(f, u, g, p, "unknown", 0)
  BY <1>1 DEF BaseTakes
<1>3. PICK c, e :
            /\ Sound(g, c, e, u)
            /\ \A i \in 1 .. N :
                  /\ 2 * i + sh + 1 < c
                  /\ \A k \in Nat : Occ(g, k, NamesOf(fmt)[i]) <=>
                                      k = 2 * i + sh \/ (k = p /\ "unknown" = NamesOf(fmt)[i])
            /\ \A k \in Nat : ~Occ(g, k, "refused")
  BY <1>2, InsertBase
<1>4. \A i \in 1 .. N : \A k \in Nat : Occ(g, k, NamesOf(fmt)[i]) <=> k = 2 * i + sh
  BY <1>3, SameName
<1>5. sh \in {0, 2} /\ \A i \in 1 .. N : 2 * i + sh \in Nat
  <2>1. sh = 0 \/ sh = 2
    BY DEF ShiftBy
  <2> HIDE DEF sh
  <2> QED BY <2>1, SameName
<1> HIDE DEF sh
<1>6. OrderedOcc(g, "unknown", c, sh) /\ OnlyOcc(g, "unknown", sh) /\ OnceOcc(g, "unknown")
      /\ RefusedOcc(g, "unknown") /\ AllOcc(g, "unknown")
  BY <1>3, <1>4, <1>5 DEF OrderedOcc, OnlyOcc, OnceOcc, RefusedOcc, AllOcc
<1>7. PlacesOk(g, "unknown", c, sh)
  BY <1>6 DEF PlacesOk
<1> QED BY <1>3, <1>5, <1>7, PlacesFile DEF Readable

\* A variable that comes twice.
LEMMA EditCopy ==
    ASSUME fmt \in Formats, NEW f, NEW u, Base(f, u), NEW p \in Places(f), NEW j \in 1 .. N, NEW g,
           Inserted(f, g, p, f[2 * j], f[2 * j + 1])
    PROVE  Readable(g, "copy")
<1> DEFINE sh == ShiftBy(p)
           n == NamesOf(fmt)[j]
<1>1. f[2 * j] = Info(n) /\ f[2 * j + 1] = Data(Written(n))
  BY DEF Base
<1>2. n \in Names
  BY SameName
<1> HIDE DEF n
<1>3. PairOk(n, Written(n))
  BY <1>2 DEF PairOk, Value
<1>4. BaseTakes(f, u, g, p, n, Written(n))
  BY <1>1, <1>3 DEF BaseTakes
<1>5. PICK c, e :
            /\ Sound(g, c, e, u)
            /\ \A i \in 1 .. N :
                  /\ 2 * i + sh + 1 < c
                  /\ \A k \in Nat : Occ(g, k, NamesOf(fmt)[i]) <=>
                                      k = 2 * i + sh \/ (k = p /\ n = NamesOf(fmt)[i])
            /\ \A k \in Nat : ~Occ(g, k, "refused")
  BY <1>4, InsertBase
<1>6. sh \in {0, 2} /\ \A i \in 1 .. N : 2 * i + sh \in Nat
  <2>1. sh = 0 \/ sh = 2
    BY DEF ShiftBy
  <2> HIDE DEF sh
  <2> QED BY <2>1, SameName
<1> HIDE DEF sh
<1>7. OrderedOcc(g, "copy", c, sh) /\ OnlyOcc(g, "copy", sh) /\ OnceOcc(g, "copy")
      /\ RefusedOcc(g, "copy") /\ AllOcc(g, "copy")
  BY <1>5, <1>6 DEF OrderedOcc, OnlyOcc, OnceOcc, RefusedOcc, AllOcc
<1>8. PlacesOk(g, "copy", c, sh)
  BY <1>7 DEF PlacesOk
<1> QED BY <1>5, <1>6, <1>8, PlacesFile DEF Readable

\* The file without one of its variables.
LEMMA BaseDrops ==
    ASSUME fmt \in Formats, NEW f, NEW u, Base(f, u), NEW j \in 1 .. N, NEW g, Removed(f, g, 2 * j)
    PROVE  /\ Sound(g, 2 * N, Len(f) - 2, u) /\ Len(g) = Len(f) - 2 /\ Len(g) \in Nat /\ Len(g) >= 2 * N
           /\ \A i \in 1 .. N : \A k \in Nat :
                Occ(g, k, NamesOf(fmt)[i]) <=> i # j /\ k = IF i < j THEN 2 * i ELSE 2 * i - 2
           /\ \A k : Occ(g, k, Chart[fmt]) <=> k = 2 * N
           /\ \A k \in Nat : ~Occ(g, k, "unknown") /\ ~Occ(g, k, "refused")
<1> DEFINE C == 2 * N + 2
           L == Len(f)
           p == 2 * j
<1>1. /\ \A i \in 1 .. N : \A k : Occ(f, k, NamesOf(fmt)[i]) <=> k = 2 * i
      /\ \A k : Occ(f, k, Chart[fmt]) <=> k = C
      /\ \A k : ~Occ(f, k, "unknown") /\ ~Occ(f, k, "refused")
      /\ L \in Nat /\ L >= C
  BY BaseOcc
<1>2. N \in Nat /\ N >= 8
  BY SameName
<1>3. p \in Nat /\ p >= 1 /\ p <= L - 1 /\ p \in 2 .. C - 2 /\ p \in 1 .. L
  BY <1>1, <1>2
<1>4. Removed(f, g, p)
  OBVIOUS
<1>5. \A k \in Nat : \A n :
         Occ(g, k, n) <=> \/ k < p /\ Occ(f, k, n)
                          \/ k >= p /\ Occ(f, k + 2, n)
  <2> HIDE DEF p
  <2> QED BY <1>1, <1>3, <1>4, RemoveOcc
<1>6. InfoAt(f, p)
  <2>1. \E i \in 1 .. N : p = 2 * i
    OBVIOUS
  <2> HIDE DEF p
  <2> QED BY <1>3, <2>1, BaseInfo
<1>7. Sound(g, C - 2, L - 2, u)
  <2>1. Sound(f, C, L, u)
    BY BaseSound
  <2>2. Removes(f, C, u, g, p)
    BY <1>3, <1>4, <1>6, <2>1 DEF Removes
  <2> HIDE DEF C, p
  <2> QED BY <2>2, RemoveBefore
<1>8. C - 2 = 2 * N
  BY <1>2
<1>9. Len(g) = L - 2 /\ L - 2 \in Nat /\ L - 2 >= 2 * N
  <2>1. Len(g) = L - 2
    BY DEF Removed
  <2> QED BY <1>1, <1>2, <2>1
<1>10. ASSUME NEW i \in 1 .. N, NEW k \in Nat
       PROVE  Occ(g, k, NamesOf(fmt)[i]) <=> i # j /\ k = IF i < j THEN 2 * i ELSE 2 * i - 2
  <2>1. Occ(g, k, NamesOf(fmt)[i]) <=> (k < p /\ k = 2 * i) \/ (k >= p /\ k + 2 = 2 * i)
    BY <1>1, <1>5
  <2>2. (k < p /\ k = 2 * i) \/ (k >= p /\ k + 2 = 2 * i) <=> i # j /\ k = IF i < j THEN 2 * i ELSE 2 * i - 2
    BY <1>2
  <2> QED BY <2>1, <2>2
<1>11. ASSUME NEW k PROVE Occ(g, k, Chart[fmt]) <=> k = 2 * N
  <2>1. CASE k \in Nat
    <3>1. Occ(g, k, Chart[fmt]) <=> (k < p /\ k = C) \/ (k >= p /\ k + 2 = C)
      BY <1>1, <1>5, <2>1
    <3>2. (k < p /\ k = C) \/ (k >= p /\ k + 2 = C) <=> k = 2 * N
      BY <1>2, <1>3, <2>1
    <3> QED BY <3>1, <3>2
  <2>2. CASE k \notin Nat
    <3>1. k \notin 1 .. Len(g) /\ k # 2 * N
      BY <1>2, <1>9, <2>2
    <3> QED BY <3>1 DEF Occ
  <2> QED BY <2>1, <2>2
<1>12. \A k \in Nat : ~Occ(g, k, "unknown") /\ ~Occ(g, k, "refused")
  BY <1>1, <1>5
<1> QED BY <1>7, <1>8, <1>9, <1>10, <1>11, <1>12

\* A file without one of its variables can be read.
LEMMA EditDrop ==
    ASSUME fmt \in Formats, NEW f, NEW u, Base(f, u), NEW j \in 1 .. N, NEW g, Removed(f, g, 2 * j)
    PROVE  Readable(g, "drop")
<1>1. /\ Sound(g, 2 * N, Len(f) - 2, u)
      /\ \A i \in 1 .. N : \A k \in Nat :
            Occ(g, k, NamesOf(fmt)[i]) <=> i # j /\ k = IF i < j THEN 2 * i ELSE 2 * i - 2
      /\ \A k \in Nat : ~Occ(g, k, "unknown") /\ ~Occ(g, k, "refused")
  BY BaseDrops
<1> DEFINE c == 2 * N
           e == Len(f) - 2
<1>2. PlacesOk(g, "drop", c, 0)
  <2>1. OrderedOcc(g, "drop", c, 0) /\ OnlyOcc(g, "drop", 0) /\ AllOcc(g, "drop")
    BY DEF OrderedOcc, OnlyOcc, AllOcc, InOrder
  <2>2. OnceOcc(g, "drop") /\ RefusedOcc(g, "drop")
    BY <1>1 DEF OnceOcc, RefusedOcc
  <2> QED BY <2>1, <2>2 DEF PlacesOk
<1>3. Sound(g, c, e, u)
  BY <1>1
<1> HIDE DEF c, e
<1>4. 0 \in {0, 2}
  OBVIOUS
<1> QED BY <1>2, <1>3, <1>4, PlacesFile DEF Readable

\* A variable in another place: before or behind the chart, or behind the header.
LEMMA EditMove ==
    ASSUME fmt \in Formats, NEW f, NEW u, Base(f, u), NEW j \in 1 .. N, NEW h, Removed(f, h, 2 * j),
           NEW p \in Places(h), NEW g, Inserted(h, g, p, f[2 * j], f[2 * j + 1])
    PROVE  Readable(g, "move")
<1> DEFINE C == 2 * N
           L == Len(h)
           n == NamesOf(fmt)[j]
           v == Written(n)
           Q(i) == IF i < j THEN 2 * i ELSE 2 * i - 2
<1>1. f[2 * j] = Info(n) /\ f[2 * j + 1] = Data(v)
  BY DEF Base
<1>2. n \in Names
  BY SameName
<1>3. /\ \A i, k \in 1 .. N : NamesOf(fmt)[i] = NamesOf(fmt)[k] => i = k
      /\ N \in Nat /\ N >= 8 /\ "unknown" \notin Names /\ "refused" \notin Names
  BY SameName
<1>4. \A i \in 1 .. N : n = NamesOf(fmt)[i] <=> i = j
  BY <1>3
<1> HIDE DEF n
<1>5. PairOk(n, v) /\ Inserted(h, g, p, Info(n), Data(v))
  BY <1>1, <1>2 DEF PairOk, Value
<1> HIDE DEF v
<1>6. /\ Sound(h, C, Len(f) - 2, u) /\ L = Len(f) - 2 /\ L \in Nat /\ L >= C
      /\ \A i \in 1 .. N : \A k \in Nat : Occ(h, k, NamesOf(fmt)[i]) <=> i # j /\ k = Q(i)
      /\ \A k : Occ(h, k, Chart[fmt]) <=> k = C
      /\ \A k \in Nat : ~Occ(h, k, "unknown") /\ ~Occ(h, k, "refused")
  BY BaseDrops
<1>7. Sound(h, C, L, u)
  BY <1>6
<1>8. p \in {2, C, L + 1}
  <2>1. ChartAt(h) = C
    <3>1. \A k : Occ(h, k, Chart[fmt]) <=> k = C
      BY <1>6
    <3> HIDE DEF C
    <3> QED BY <3>1, ChartPlace
  <2> QED BY <2>1 DEF Places
<1>9. p \in Nat /\ p >= 1 /\ p <= L + 1 /\ C \in Nat /\ C >= 16
  BY <1>3, <1>6, <1>8
<1>10. \A i \in 1 .. N : Q(i) \in Nat
  BY <1>3
<1> HIDE DEF Q
<1>11. \A k \in Nat : \A m :
          Occ(g, k, m) <=> \/ k < p /\ Occ(h, k, m)
                           \/ k = p /\ m = n
                           \/ k >= p + 2 /\ Occ(h, k - 2, m)
  BY <1>5, <1>6, <1>9, InsertOcc
<1>12. \A k \in Nat : ~Occ(g, k, "refused")
  <2>1. n # "refused"
    BY <1>2, <1>3
  <2>2. \A k \in Nat : k >= p + 2 => k - 2 \in Nat
    BY <1>9
  <2> QED BY <1>6, <1>11, <2>1, <2>2
<1>13. ASSUME NEW i \in 1 .. N, NEW k \in Nat
       PROVE  Occ(g, k, NamesOf(fmt)[i]) <=> IF i = j THEN k = p
                                             ELSE (k < p /\ k = Q(i)) \/ (k >= p + 2 /\ k - 2 = Q(i))
  <2>1. k >= p + 2 => k - 2 \in Nat
    BY <1>9
  <2>2. Occ(h, k, NamesOf(fmt)[i]) <=> i # j /\ k = Q(i)
    BY <1>6
  <2>3. k >= p + 2 => (Occ(h, k - 2, NamesOf(fmt)[i]) <=> i # j /\ k - 2 = Q(i))
    BY <1>6, <2>1
  <2>4. Occ(g, k, NamesOf(fmt)[i]) <=> \/ k < p /\ Occ(h, k, NamesOf(fmt)[i])
                                       \/ k = p /\ NamesOf(fmt)[i] = n
                                       \/ k >= p + 2 /\ Occ(h, k - 2, NamesOf(fmt)[i])
    BY <1>11
  <2>5. NamesOf(fmt)[i] = n <=> i = j
    BY <1>4
  <2>6. k = p => ~(k < p) /\ ~(k >= p + 2)
    BY <1>9
  <2> QED BY <2>2, <2>3, <2>4, <2>5, <2>6
<1>14. OnceOcc(g, "move")
  <2> SUFFICES ASSUME NEW i \in 1 .. N, NEW a \in Nat, NEW k \in Nat,
                      Occ(g, a, NamesOf(fmt)[i]), Occ(g, k, NamesOf(fmt)[i])
               PROVE  a = k
    BY DEF OnceOcc
  <2>1. /\ IF i = j THEN a = p ELSE (a < p /\ a = Q(i)) \/ (a >= p + 2 /\ a - 2 = Q(i))
        /\ IF i = j THEN k = p ELSE (k < p /\ k = Q(i)) \/ (k >= p + 2 /\ k - 2 = Q(i))
    BY <1>13
  <2> QED BY <1>9, <1>10, <2>1
<1>15. AllOcc(g, "move")
  <2> SUFFICES ASSUME NEW i \in 1 .. N PROVE \E k \in Nat : Occ(g, k, NamesOf(fmt)[i])
    BY DEF AllOcc
  <2>1. CASE i = j
    BY <1>9, <1>13, <2>1
  <2>2. CASE i # j /\ Q(i) < p
    BY <1>10, <1>13, <2>2
  <2>3. CASE i # j /\ ~(Q(i) < p)
    <3>1. Q(i) + 2 \in Nat /\ Q(i) + 2 >= p + 2 /\ (Q(i) + 2) - 2 = Q(i)
      BY <1>9, <1>10, <2>3
    <3>2. Occ(g, Q(i) + 2, NamesOf(fmt)[i])
      BY <1>13, <2>3, <3>1
    <3> QED BY <3>1, <3>2
  <2> QED BY <2>1, <2>2, <2>3
<1>16. \A c : PlacesOk(g, "move", c, 0)
  <2> TAKE c
  <2>1. OrderedOcc(g, "move", c, 0) /\ OnlyOcc(g, "move", 0)
    BY DEF OrderedOcc, OnlyOcc, InOrder
  <2>2. RefusedOcc(g, "move")
    BY <1>12 DEF RefusedOcc
  <2> QED BY <1>14, <1>15, <2>1, <2>2 DEF PlacesOk
<1>17. \E c, e : Sound(g, c, e, u)
  <2>1. CASE p # L + 1
    <3>1. p \in 2 .. C
      BY <1>8, <1>9, <2>1
    <3>2. ~InfoAt(h, p - 1)
      <4>1. p - 1 \in 1 .. Len(h) /\ p - 1 \in Nat
        BY <1>6, <1>8, <1>9, <2>1
      <4>2. ASSUME NEW m \in Names \cup {"unknown", "refused"} PROVE ~Occ(h, p - 1, m)
        <5>1. CASE m \in Names
          <6>1. PICK i \in 1 .. N : m = NamesOf(fmt)[i]
            BY <5>1, NamesAre
          <6>2. p - 1 # Q(i)
            <7>1. p - 1 = 1 \/ p - 1 = 2 * N - 1
              BY <1>8, <1>3, <2>1
            <7>2. Q(i) = 2 * i \/ Q(i) = 2 * i - 2
              BY DEF Q
            <7>3. N \in Int /\ i \in Int
              BY <1>3
            <7> QED BY <7>1, <7>2, <7>3
          <6> QED BY <1>6, <4>1, <6>1, <6>2
        <5>2. CASE m \notin Names
          BY <1>6, <4>1, <5>2
        <5> QED BY <5>1, <5>2
      <4> QED BY <4>1, <4>2, NotInfo
    <3>3. InsertsBefore(h, C, u, g, p, n, v)
      BY <1>5, <1>7, <3>1, <3>2 DEF InsertsBefore
    <3> HIDE DEF C
    <3> QED BY <3>3, InsertBefore
  <2>2. CASE p = L + 1
    <3>1. InsertsBehind(h, C, u, g, n, v)
      BY <1>5, <1>7, <2>2 DEF InsertsBehind
    <3> HIDE DEF C
    <3> QED BY <3>1, InsertBehind
  <2> QED BY <2>1, <2>2
<1>18. 0 \in {0, 2}
  OBVIOUS
<1> QED BY <1>16, <1>17, <1>18, PlacesFile DEF Readable

\* A description that the parser refuses.
Refused(f, g, p) ==
    /\ g \in Seq(Entry) /\ Len(g) = Len(f) /\ g[p] = Info("refused")
    /\ \A k \in 1 .. Len(f) : k # p => g[k] = f[k]
\* A file with a description that the parser refuses can be read, up to there.
LEMMA EditRefuse ==
    ASSUME fmt \in Formats, NEW f, NEW u, Base(f, u), NEW j \in 1 .. N, NEW g, Refused(f, g, 2 * j)
    PROVE  Readable(g, "refuse")
<1> DEFINE c == 2 * N + 2
           e == Len(f)
           p == 2 * j
<1>1. /\ \A i \in 1 .. N : \A k : Occ(f, k, NamesOf(fmt)[i]) <=> k = 2 * i
      /\ \A k : ~Occ(f, k, "unknown") /\ ~Occ(f, k, "refused")
      /\ e \in Nat /\ e >= c
  BY BaseOcc
<1>2. /\ \A i, k \in 1 .. N : NamesOf(fmt)[i] = NamesOf(fmt)[k] => i = k
      /\ N \in Nat /\ N >= 8 /\ "unknown" \notin Names /\ "refused" \notin Names
      /\ \A i \in 1 .. N : NamesOf(fmt)[i] # "refused"
  BY SameName
<1>3. Sound(f, c, e, u)
  BY BaseSound
<1>4. BlocksOk(f, c, e) /\ UnitsIn(f, c, e, u) /\ Got(f, c, e - c) = u
  <2> HIDE DEF c, e
  <2> QED BY <1>3, SoundBlocks
<1>5. /\ f \in Seq(Entry) /\ c \in Nat /\ e \in Nat /\ 2 <= c /\ c <= e
      /\ \A k \in 1 .. e : BlockOk(f, c, e, k)
  BY <1>4 DEF BlocksOk
<1>6. /\ g \in Seq(Entry) /\ Len(g) = e /\ g[p] = Info("refused")
      /\ \A k \in 1 .. e : k # p => g[k] = f[k]
  BY DEF Refused
<1>7. p \in Nat /\ p >= 2 /\ p < c /\ p + 1 < c /\ p \in 1 .. e /\ p + 1 \in 1 .. e
  BY <1>1, <1>2
<1>8. f[p + 1].k = "data" /\ Len(f) = e
  <2>1. InfoAt(f, p)
    <3>1. \E i \in 1 .. N : p = 2 * i
      OBVIOUS
    <3> HIDE DEF p
    <3> QED BY <1>7, <3>1, BaseInfo
  <2>2. BlockOk(f, c, e, p)
    BY <1>5, <1>7
  <2> HIDE DEF p
  <2> QED BY <2>1, <2>2 DEF BlockOk
<1>9. ASSUME NEW k \in Nat, NEW n
      PROVE  Occ(g, k, n) <=> IF k = p THEN n = "refused" ELSE Occ(f, k, n)
  <2>1. CASE k = p
    <3>1. Occ(g, k, n) <=> Info("refused") = Info(n)
      BY <1>6, <1>7, <2>1 DEF Occ
    <3>2. Info("refused") = Info(n) <=> n = "refused"
      BY BlockIs
    <3> QED BY <2>1, <3>1, <3>2
  <2>2. CASE k # p
    <3> HIDE DEF p
    <3> QED BY <1>6, <1>8, <2>2 DEF Occ
  <2> QED BY <2>1, <2>2
<1>10. ASSUME NEW i \in 1 .. N, NEW k \in Nat
       PROVE  Occ(g, k, NamesOf(fmt)[i]) <=> i # j /\ k = 2 * i
  <2>1. Occ(g, k, NamesOf(fmt)[i]) <=> k # p /\ k = 2 * i
    BY <1>1, <1>2, <1>9
  <2>2. k # p /\ k = 2 * i <=> i # j /\ k = 2 * i
    OBVIOUS
  <2> QED BY <2>1, <2>2
<1>11. Occ(g, p, "refused")
  BY <1>7, <1>9
<1>12. PlacesOk(g, "refuse", c, 0)
  <2>1. OrderedOcc(g, "refuse", c, 0)
    <3> SUFFICES ASSUME NEW i \in 1 .. N
                 PROVE  /\ 2 * i + 0 + 1 < c
                        /\ Occ(g, 2 * i + 0, NamesOf(fmt)[i]) \/ Occ(g, 2 * i + 0, "refused")
      BY DEF OrderedOcc
    <3>1. 2 * i + 0 + 1 < c /\ 2 * i + 0 = 2 * i /\ 2 * i \in Nat
      BY <1>2
    <3>2. i = j => Occ(g, 2 * i, "refused")
      BY <1>11
    <3>3. i # j => Occ(g, 2 * i, NamesOf(fmt)[i])
      BY <1>10, <3>1
    <3> QED BY <3>1, <3>2, <3>3
  <2>2. OnlyOcc(g, "refuse", 0)
    <3>1. \A i \in 1 .. N : 2 * i + 0 = 2 * i
      BY <1>2
    <3> QED BY <1>10, <3>1 DEF OnlyOcc
  <2>3. OnceOcc(g, "refuse") /\ RefusedOcc(g, "refuse") /\ AllOcc(g, "refuse")
    BY <1>10 DEF OnceOcc, RefusedOcc, AllOcc
  <2> QED BY <2>1, <2>2, <2>3 DEF PlacesOk
<1> HIDE DEF c, e, p
<1>13. InfoAt(g, p) /\ ~InfoAt(g, p + 1) /\ ValueAt(g, p + 1) /\ g[p + 1].k = "data"
  <2>1. p + 1 # p
    BY <1>7
  <2>2. g[p + 1] = f[p + 1]
    BY <1>6, <1>7, <2>1
  <2>3. InfoAt(g, p)
    BY <1>6 DEF InfoAt
  <2>4. ~InfoAt(g, p + 1)
    BY <1>8, <2>2, BlockIs DEF InfoAt
  <2> DEFINE q == p + 1
  <2>5. q > 1 /\ q - 1 = p /\ g[q].k = "data"
    BY <1>7, <1>8, <2>2
  <2> HIDE DEF q
  <2>6. \A n \in Names : g[p] # Info(n)
    BY <1>2, <1>6, BlockIs
  <2>7. ValueAt(g, q)
    BY <2>3, <2>5, <2>6 DEF ValueAt
  <2> QED BY <2>3, <2>4, <2>5, <2>7 DEF q
<1>14. ASSUME NEW k \in 1 .. e PROVE BlockOk(g, c, e, k)
  <2>1. CASE k = p
    <3>1. k # 1 /\ k # c /\ k \notin c + 1 .. e /\ k < Len(g)
      BY <1>5, <1>6, <1>7, <2>1
    <3> QED BY <1>13, <2>1, <3>1 DEF BlockOk
  <2>2. CASE k = p + 1
    <3>1. k # 1 /\ k # c /\ k \notin c + 1 .. e
      BY <1>5, <1>7, <2>2
    <3> QED BY <1>13, <2>2, <3>1 DEF BlockOk
  <2>3. CASE k # p /\ k # p + 1
    <3>1. /\ k \in Nat /\ k \in 1 .. e /\ (k # 1 => k > 1 /\ k - 1 \in 1 .. e /\ k - 1 # p)
          /\ (k < e => k + 1 \in 1 .. e)
      BY <1>5, <1>7, <2>3
    <3>2. g[k] = f[k] /\ BlockOk(f, c, e, k) /\ (k # 1 => g[k - 1] = f[k - 1])
          /\ (k < e /\ k + 1 # p => g[k + 1] = f[k + 1])
      BY <1>5, <1>6, <2>3, <3>1
    <3>3. (InfoAt(g, k) <=> InfoAt(f, k)) /\ UnitsAt(g, k) = UnitsAt(f, k)
          /\ (k # 1 => (ValueAt(g, k) <=> ValueAt(f, k)))
      BY <3>1, <3>2, SameHere
    <3>4. /\ k = 1 => f[k] = Header
          /\ k = c => f[k] = Info(Chart[fmt])
          /\ k \in c + 1 .. e => f[k].k = "data" /\ UnitsAt(f, k) \in Seq(Unit)
          /\ k # 1 /\ k \notin c .. e => InfoAt(f, k) \/ ValueAt(f, k)
          /\ InfoAt(f, k) => k < e /\ f[k + 1].k = "data"
      BY <1>8, <3>2 DEF BlockOk
    <3>8. k + 1 = p => ~InfoAt(f, k)
      <4>1. f[p].k = "info"
        <5>1. f[p] = Info(NamesOf(fmt)[j])
          BY DEF Base, p
        <5> QED BY <5>1, BlockIs
      <4>2. k + 1 = p /\ InfoAt(f, k) => f[p].k = "data"
        BY <3>4
      <4> QED BY <4>1, <4>2
    <3>5. InfoAt(g, k) => k < Len(g) /\ g[k + 1].k = "data"
      BY <1>6, <3>2, <3>3, <3>4, <3>8
    <3>6. /\ k = 1 => g[k] = Header
          /\ k = c => g[k] = Info(Chart[fmt])
          /\ k \in c + 1 .. e => g[k].k = "data" /\ UnitsAt(g, k) \in Seq(Unit)
      BY <3>2, <3>3, <3>4
    <3>7. k # 1 /\ k \notin c .. e => InfoAt(g, k) \/ ValueAt(g, k)
      BY <3>3, <3>4
    <3> QED BY <3>5, <3>6, <3>7 DEF BlockOk
  <2> QED BY <2>1, <2>2, <2>3
<1>15. BlocksOk(g, c, e)
  <2>1. e <= Len(g)
    BY <1>5, <1>6
  <2> QED BY <1>5, <1>6, <1>14, <2>1 DEF BlocksOk
<1>16. SameUnits(g, c, f, c, e - c)
  <2> SUFFICES ASSUME NEW i \in 1 .. e - c PROVE UnitsAt(g, c + i) = UnitsAt(f, c + i)
    BY DEF SameUnits
  <2>1. c + i \in 1 .. e /\ c + i # p
    BY <1>5, <1>7
  <2>2. g[c + i] = f[c + i]
    BY <1>6, <2>1
  <2> QED BY <2>2 DEF UnitsAt
<1>17. UnitsIn(g, c, e, u) /\ Got(g, c, e - c) = u
  <2>1. e - c = e - c /\ e <= Len(f)
    BY <1>5, <1>8
  <2> QED BY <1>4, <1>5, <1>16, <2>1, UnitsStay
<1>18. Sound(g, c, e, u)
  BY <1>15, <1>17, SoundBlocks
<1>19. 0 \in {0, 2}
  OBVIOUS
<1> QED BY <1>12, <1>18, <1>19, PlacesFile DEF Readable

\* The end is torn off.
Torn(f, g, n) ==
    /\ g \in Seq(Entry) /\ Len(g) = n /\ n \in Nat /\ n <= Len(f)
    /\ \A k \in 1 .. n : g[k] = f[k]
\* A file whose end is torn off can be read.
LEMMA EditTear ==
    ASSUME fmt \in Formats, NEW f, NEW u, Base(f, u), NEW n, NEW g, Torn(f, g, n)
    PROVE  Readable(g, "tear")
<1> DEFINE c == 2 * N + 2
           e == Len(f)
<1>1. /\ \A i \in 1 .. N : \A k : Occ(f, k, NamesOf(fmt)[i]) <=> k = 2 * i
      /\ \A k : ~Occ(f, k, "unknown") /\ ~Occ(f, k, "refused")
      /\ e \in Nat /\ e >= c
  BY BaseOcc
<1>2. N \in Nat /\ N >= 8 /\ \A m \in Names : \E i \in 1 .. N : m = NamesOf(fmt)[i]
  BY NamesAre
<1>3. Sound(f, c, e, u)
  BY BaseSound
<1>4. BlocksOk(f, c, e) /\ UnitsIn(f, c, e, u) /\ Got(f, c, e - c) = u
  <2> HIDE DEF c, e
  <2> QED BY <1>3, SoundBlocks
<1>5. /\ f \in Seq(Entry) /\ c \in Nat /\ e \in Nat /\ 2 <= c /\ c <= e
      /\ \A k \in 1 .. e : BlockOk(f, c, e, k)
  BY <1>4 DEF BlocksOk
<1>6. /\ g \in Seq(Entry) /\ Len(g) = n /\ n \in Nat /\ n <= e
      /\ \A k \in 1 .. n : g[k] = f[k]
  BY DEF Torn
<1>7. Len(f) = e /\ c = 2 * N + 2 /\ \A i \in 1 .. N : 2 * i + 0 + 1 < c /\ 2 * i + 0 = 2 * i /\ 2 * i \in Nat /\ 2 * i >= 1
  BY <1>2
<1> HIDE DEF c, e
<1>8. \A k, m : Occ(g, k, m) => Occ(f, k, m)
  <2> SUFFICES ASSUME NEW k, NEW m, k \in 1 .. n, g[k] = Info(m) PROVE k \in 1 .. e /\ f[k] = Info(m)
    BY <1>6, <1>7 DEF Occ
  <2>1. k \in 1 .. e
    BY <1>5, <1>6
  <2> QED BY <1>6, <2>1
<1>9. ASSUME NEW k \in 1 .. n
      PROVE  /\ k = 1 => g[k] = Header
             /\ k = c => g[k] = Info(Chart[fmt])
             /\ k \in c + 1 .. e => g[k].k = "data" /\ UnitsAt(g, k) \in Seq(Unit)
             /\ k # 1 /\ k \notin c .. e => InfoAt(g, k) \/ ValueAt(g, k)
             /\ k \in 1 .. n - 1 /\ InfoAt(g, k) => g[k + 1].k = "data"
  <2>1. /\ k \in Nat /\ k \in 1 .. e /\ (k # 1 => k > 1 /\ k - 1 \in 1 .. n)
        /\ (k \in 1 .. n - 1 => k + 1 \in 1 .. n)
    BY <1>5, <1>6
  <2>2. g[k] = f[k] /\ BlockOk(f, c, e, k) /\ (k # 1 => g[k - 1] = f[k - 1])
        /\ (k \in 1 .. n - 1 => g[k + 1] = f[k + 1])
    BY <1>5, <1>6, <2>1
  <2>3. (InfoAt(g, k) <=> InfoAt(f, k)) /\ UnitsAt(g, k) = UnitsAt(f, k)
        /\ (k # 1 => (ValueAt(g, k) <=> ValueAt(f, k)))
    BY <2>1, <2>2, SameHere
  <2>4. /\ k = 1 => f[k] = Header
        /\ k = c => f[k] = Info(Chart[fmt])
        /\ k \in c + 1 .. e => f[k].k = "data" /\ UnitsAt(f, k) \in Seq(Unit)
        /\ k # 1 /\ k \notin c .. e => InfoAt(f, k) \/ ValueAt(f, k)
        /\ InfoAt(f, k) => f[k + 1].k = "data"
    BY <2>2 DEF BlockOk
  <2>5. k \in 1 .. n - 1 /\ InfoAt(g, k) => g[k + 1].k = "data"
    BY <2>2, <2>3, <2>4
  <2>6. /\ k = 1 => g[k] = Header
        /\ k = c => g[k] = Info(Chart[fmt])
        /\ k \in c + 1 .. e => g[k].k = "data" /\ UnitsAt(g, k) \in Seq(Unit)
    BY <2>2, <2>3, <2>4
  <2>7. k # 1 /\ k \notin c .. e => InfoAt(g, k) \/ ValueAt(g, k)
    BY <2>3, <2>4
  <2> QED BY <2>5, <2>6, <2>7
<1>10. Shape(g, c, e)
  <2>1. \A k \in 1 .. n - 1 : k \in 1 .. n
    BY <1>6
  <2>2. \A k \in 1 .. n - 1 : InfoAt(g, k) => g[k + 1].k = "data"
    BY <1>9, <2>1
  <2>3. \A k \in 1 .. Len(g) :
          /\ k = 1 => g[k] = Header
          /\ k = c => g[k] = Info(Chart[fmt])
          /\ k \in c + 1 .. e => g[k].k = "data" /\ UnitsAt(g, k) \in Seq(Unit)
          /\ k # 1 /\ k \notin c .. e => InfoAt(g, k) \/ ValueAt(g, k)
    BY <1>6, <1>9
  <2> QED BY <1>5, <1>6, <2>2, <2>3 DEF Shape
<1>11. Ordered(g, "tear", c, 0)
  <2>1. \A i \in 1 .. N : f[2 * i] = Info(NamesOf(fmt)[i])
    BY DEF Base
  <2>2. ASSUME NEW i \in 1 .. N, 2 * i + 0 <= Len(g) PROVE g[2 * i + 0] = Info(NamesOf(fmt)[i])
    <3>1. 2 * i + 0 = 2 * i /\ 2 * i \in 1 .. n
      BY <1>6, <1>7, <2>2
    <3> QED BY <1>6, <2>1, <3>1
  <2> QED BY <1>7, <2>2 DEF Ordered
<1>12. Only(g, "tear", 0)
  <2> SUFFICES ASSUME NEW i \in 1 .. N, NEW k \in 1 .. Len(g), g[k] = Info(NamesOf(fmt)[i])
               PROVE  k = 2 * i + 0
    BY DEF Only
  <2>1. Occ(g, k, NamesOf(fmt)[i])
    BY DEF Occ
  <2>2. k = 2 * i
    BY <1>1, <1>8, <2>1
  <2> QED BY <1>7, <2>2
<1>13. Once(g, "tear")
  <2> SUFFICES ASSUME NEW m \in Names, NEW j \in 1 .. Len(g), NEW k \in 1 .. Len(g),
                      g[j] = Info(m), g[k] = Info(m)
               PROVE  j = k
    BY DEF Once
  <2>1. PICK i \in 1 .. N : m = NamesOf(fmt)[i]
    BY <1>2
  <2>2. Occ(g, j, NamesOf(fmt)[i]) /\ Occ(g, k, NamesOf(fmt)[i])
    BY <2>1 DEF Occ
  <2>3. j = 2 * i /\ k = 2 * i
    BY <1>1, <1>8, <2>2
  <2> QED BY <2>3
<1>14. OnlyRefused(g, "tear")
  BY <1>1, <1>8 DEF OnlyRefused, Occ
<1>15. UnitsIn(g, c, e, u)
  <2> SUFFICES ASSUME NEW j \in 0 .. e - c, c + j <= Len(g) PROVE Begins(Got(g, c, j), u)
    BY <1>4 DEF UnitsIn
  <2>1. j \in Nat /\ c + j <= n /\ c + j <= e
    BY <1>5, <1>6
  <2>2. SameUnits(g, c, f, c, j)
    <3> SUFFICES ASSUME NEW i \in 1 .. j PROVE UnitsAt(g, c + i) = UnitsAt(f, c + i)
      BY DEF SameUnits
    <3>1. c + i \in 1 .. n
      BY <1>5, <1>6, <2>1
    <3>2. g[c + i] = f[c + i]
      BY <1>6, <3>1
    <3> QED BY <3>2 DEF UnitsAt
  <2>3. Got(g, c, j) = Got(f, c, j)
    BY <1>5, <2>1, <2>2, GotSame
  <2>4. Begins(Got(f, c, j), u)
    BY <1>4, <1>7, <2>1 DEF UnitsIn
  <2> QED BY <2>3, <2>4
<1>16. Complete(g, "tear", c, e, u) /\ All(g, "tear")
  BY DEF Complete, All
<1>17. FileIs(g, "tear", c, e, 0, u)
  BY <1>10, <1>11, <1>12, <1>13, <1>14, <1>15, <1>16 DEF FileIs
<1> QED BY <1>17 DEF Readable

\* What begins with the units of the chart has them.
LEMMA UnitsBegin ==
    ASSUME fmt \in Formats, NEW u, NEW w \in Seq(Unit), NEW n \in Nat, IsUnits(u, n), Begins(u, w)
    PROVE  IsUnits(w, n)
<1>1. /\ u \in Seq(Unit) /\ Len(u) >= PerPoint * n /\ \A k \in 1 .. n : UnitsOf(u, k)
      /\ Len(u) \in Nat /\ Len(w) \in Nat
  BY LenProperties DEF IsUnits
<1>2. Len(u) <= Len(w) /\ \A i \in 1 .. Len(u) : u[i] = w[i]
  BY DEF Begins
<1>3. fmt \in {"dat", "dyn", "echo"}
  BY NamesAre
<1>4. PerPoint * n \in Nat
  BY DEF PerPoint, RecItems
<1>5. Len(w) >= PerPoint * n
  BY <1>1, <1>2, <1>4
<1>6. ASSUME NEW k \in 1 .. n PROVE UnitsOf(w, k)
  <2>1. UnitsOf(u, k)
    BY <1>1
  <2>2. CASE fmt = "dat"
    <3>1. ASSUME NEW i \in 1 .. 4 PROVE w[4 * (k - 1) + i] = src.chart[k][i]
      <4>1. Len(u) >= 4 * n
        BY <1>1, <2>2 DEF PerPoint, RecItems
      <4>2. 4 * (k - 1) + i \in 1 .. Len(u)
        BY <1>1, <4>1
      <4>3. u[4 * (k - 1) + i] = src.chart[k][i]
        BY <2>1, <2>2 DEF UnitsOf, RecItems
      <4> QED BY <1>2, <4>2, <4>3
    <3> QED BY <2>2, <3>1 DEF UnitsOf, RecItems
  <2>3. CASE fmt # "dat"
    <3>1. Len(u) >= n
      BY <1>1, <2>3 DEF PerPoint
    <3>2. k \in 1 .. Len(u) /\ (k # 1 => k - 1 \in 1 .. Len(u))
      BY <1>1, <3>1
    <3>3. u[k] = w[k] /\ (k # 1 => u[k - 1] = w[k - 1])
      BY <1>2, <3>2
    <3>4. CASE fmt = "dyn"
      BY <2>1, <3>3, <3>4 DEF UnitsOf
    <3>5. CASE fmt = "echo"
      BY <2>1, <3>3, <3>5 DEF UnitsOf
    <3> QED BY <1>3, <2>3, <3>4, <3>5
  <2> QED BY <2>2, <2>3
<1> QED BY <1>1, <1>5, <1>6 DEF IsUnits

\* There are more points than the chart had.
LEMMA EditMore ==
    ASSUME fmt \in Formats, src \in Sources[fmt], NEW f, NEW u, Base(f, u), NEW x \in Seq(Unit)
    PROVE  Readable(PutNew(f, x), "more")
<1> DEFINE c == 2 * N + 2
           L == Len(f)
           j == L - c
           g == PutNew(f, x)
           e == L + 1
           w == u \o x
<1>1. /\ \A i \in 1 .. N : \A k : Occ(f, k, NamesOf(fmt)[i]) <=> k = 2 * i
      /\ \A k : ~Occ(f, k, "unknown") /\ ~Occ(f, k, "refused")
      /\ L \in Nat /\ L >= c
  BY BaseOcc
<1>2. N \in Nat /\ N >= 8
  BY SameName
<1>3. Sound(f, c, L, u)
  BY BaseSound
<1>4. BlocksOk(f, c, L)
  <2> HIDE DEF c, L
  <2> QED BY <1>3, SoundBlocks
<1>5. /\ f \in Seq(Entry) /\ c \in Nat /\ L \in Nat /\ 2 <= c /\ c <= L
      /\ \A k \in 1 .. L : BlockOk(f, c, L, k)
  BY <1>4 DEF BlocksOk
<1>6. /\ ChartBlocks(f, c, L) /\ u = Got(f, c, j) /\ IsUnits(u, Len(src.chart))
  BY DEF Base
<1>7. j \in Nat /\ c + j = Len(f) /\ c + j = L /\ c + (j + 1) = e /\ e - c = j + 1 /\ e \in Nat /\ c <= e /\ e = L + 1
  BY <1>5
<1>8. Len(f) = L /\ c = 2 * N + 2 /\ \A i \in 1 .. N : 2 * i + 0 + 1 < c /\ 2 * i + 0 = 2 * i /\ 2 * i \in Nat
  BY <1>2
<1> HIDE DEF c, L, j, e
<1>9. /\ g \in Seq(Entry) /\ Len(g) = e /\ SameBlocks(g, f, L) /\ ChartBlocks(g, c, e)
      /\ Got(g, c, j + 1) = Got(f, c, j) \o x
  <2>1. ChartBlocks(f, c, c + j) /\ c + j = Len(f)
    BY <1>6, <1>7
  <2>2. /\ PutNew(f, x) \in Seq(Entry) /\ Len(PutNew(f, x)) = c + (j + 1)
        /\ SameBlocks(PutNew(f, x), f, c + j)
        /\ ChartBlocks(PutNew(f, x), c, c + (j + 1))
        /\ Got(PutNew(f, x), c, j + 1) = Got(f, c, j) \o x
    BY <1>5, <1>7, <2>1, NewUnits
  <2> QED BY <1>7, <2>2
<1>10. \A k \in 1 .. L : g[k] = f[k]
  BY <1>9 DEF SameBlocks
<1>11. g[e].k = "data"
  <2>1. e \in c + 1 .. e
    BY <1>5, <1>7
  <2> QED BY <1>9, <2>1 DEF ChartBlocks
<1> HIDE DEF g
<1>12. Got(g, c, e - c) = w
  BY <1>6, <1>7, <1>9
<1>13. IsUnits(w, Len(src.chart))
  <2> DEFINE n == Len(src.chart)
  <2>1. n \in Nat /\ IsUnits(u, n) /\ u \in Seq(Unit)
    BY <1>6, SourceIs DEF IsUnits
  <2>2. /\ w \in Seq(Unit) /\ Len(u) \in Nat /\ Len(x) \in Nat /\ Len(w) = Len(u) + Len(x)
        /\ \A i \in 1 .. Len(u) + Len(x) : w[i] = IF i <= Len(u) THEN u[i] ELSE x[i - Len(u)]
    BY <2>1, UnitsBehind
  <2> HIDE DEF w, n
  <2>3. Begins(u, w)
    <3>1. \A i \in 1 .. Len(u) : i \in 1 .. Len(u) + Len(x) /\ i <= Len(u)
      BY <2>2
    <3> QED BY <2>2, <3>1 DEF Begins
  <2>4. IsUnits(w, n)
    BY <2>1, <2>2, <2>3, UnitsBegin
  <2> QED BY <2>4 DEF n
<1> HIDE DEF w
<1>14. UnitsIn(g, c, e, w)
  <2> SUFFICES ASSUME NEW i \in 0 .. e - c, c + i <= Len(g) PROVE Begins(Got(g, c, i), w)
    BY <1>13 DEF UnitsIn
  <2>1. Begins(Got(g, c, i), Got(g, c, e - c))
    BY <1>5, <1>7, <1>9, FirstUnits
  <2> QED BY <1>12, <2>1
<1>15. ~InfoAt(g, e)
  BY <1>11, BlockIs DEF InfoAt
<1>16. ASSUME NEW k \in 1 .. L PROVE BlockOk(g, c, e, k)
  <2>1. /\ k \in Nat /\ (k # 1 => k > 1 /\ k - 1 \in 1 .. L) /\ (k < L => k + 1 \in 1 .. L)
        /\ (k \in c + 1 .. e => k \in c + 1 .. L) /\ (k \notin c .. e => k \notin c .. L) /\ k < e
    BY <1>5, <1>7
  <2>2. g[k] = f[k] /\ BlockOk(f, c, L, k) /\ (k # 1 => g[k - 1] = f[k - 1]) /\ (k < L => g[k + 1] = f[k + 1])
    BY <1>5, <1>10, <2>1
  <2>3. (InfoAt(g, k) <=> InfoAt(f, k)) /\ UnitsAt(g, k) = UnitsAt(f, k)
        /\ (k # 1 => (ValueAt(g, k) <=> ValueAt(f, k)))
    BY <2>1, <2>2, SameHere
  <2>4. /\ k = 1 => f[k] = Header
        /\ k = c => f[k] = Info(Chart[fmt])
        /\ k \in c + 1 .. L => f[k].k = "data" /\ UnitsAt(f, k) \in Seq(Unit)
        /\ k # 1 /\ k \notin c .. L => InfoAt(f, k) \/ ValueAt(f, k)
        /\ InfoAt(f, k) => k < L /\ f[k + 1].k = "data"
    BY <1>8, <2>2 DEF BlockOk
  <2>5. InfoAt(g, k) => k < Len(g) /\ g[k + 1].k = "data"
    BY <1>9, <2>1, <2>2, <2>3, <2>4
  <2>6. /\ k = 1 => g[k] = Header
        /\ k = c => g[k] = Info(Chart[fmt])
        /\ k \in c + 1 .. e => g[k].k = "data" /\ UnitsAt(g, k) \in Seq(Unit)
    BY <2>1, <2>2, <2>3, <2>4
  <2>7. k # 1 /\ k \notin c .. e => InfoAt(g, k) \/ ValueAt(g, k)
    BY <2>1, <2>3, <2>4
  <2> QED BY <2>5, <2>6, <2>7 DEF BlockOk
<1>17. BlockOk(g, c, e, e)
  <2>1. e # 1 /\ e # c /\ e \in c + 1 .. e /\ e \in c .. e
    BY <1>5, <1>7
  <2>2. g[e].k = "data" /\ UnitsAt(g, e) \in Seq(Unit)
    BY <1>9, <2>1 DEF ChartBlocks
  <2> QED BY <1>15, <2>1, <2>2 DEF BlockOk
<1>18. BlocksOk(g, c, e)
  <2>1. \A k \in 1 .. e : k \in 1 .. L \/ k = e
    BY <1>5, <1>7
  <2>2. \A k \in 1 .. e : BlockOk(g, c, e, k)
    BY <1>16, <1>17, <2>1
  <2> QED BY <1>5, <1>7, <1>9, <2>2 DEF BlocksOk
<1>19. Sound(g, c, e, w)
  BY <1>12, <1>14, <1>18, SoundBlocks
<1>20. ASSUME NEW k \in Nat, NEW m PROVE Occ(g, k, m) <=> Occ(f, k, m)
  <2>1. k \in 1 .. e <=> k \in 1 .. L \/ k = e
    BY <1>5, <1>7
  <2>2. g[e] # Info(m)
    BY <1>11, BlockIs
  <2> QED BY <1>8, <1>9, <1>10, <2>1, <2>2 DEF Occ
<1>21. \A i \in 1 .. N : \A k \in Nat : Occ(g, k, NamesOf(fmt)[i]) <=> k = 2 * i
  BY <1>1, <1>20
<1>22. OrderedOcc(g, "more", c, 0)
  BY <1>8, <1>21 DEF OrderedOcc
<1>23. OnlyOcc(g, "more", 0)
  BY <1>8, <1>21 DEF OnlyOcc
<1>24. OnceOcc(g, "more")
  BY <1>21 DEF OnceOcc
<1>25. RefusedOcc(g, "more") /\ AllOcc(g, "more")
  BY <1>1, <1>8, <1>20, <1>21 DEF RefusedOcc, AllOcc
<1>26. PlacesOk(g, "more", c, 0)
  BY <1>22, <1>23, <1>24, <1>25 DEF PlacesOk
<1>27. 0 \in {0, 2}
  OBVIOUS
<1>28. FileIs(g, "more", c, e, 0, w)
  BY <1>19, <1>26, <1>27, PlacesFile
<1>29. Readable(g, "more")
  BY <1>28 DEF Readable
<1> QED BY <1>29 DEF g

\* The descriptions of variables, which may be edited.
LEMMA PairsAre ==
    ASSUME fmt \in Formats, NEW f, NEW u, Base(f, u), NEW k \in Pairs(f)
    PROVE  \E j \in 1 .. N : k = 2 * j
<1>1. /\ \A n : Occ(f, n, Chart[fmt]) <=> n = 2 * N + 2
      /\ \A n \in 1 .. Len(f) : f[n].k = "info" <=> (n = 2 * N + 2 \/ \E i \in 1 .. N : n = 2 * i)
      /\ Len(f) \in Nat /\ Len(f) >= 2 * N + 2
  BY BaseOcc
<1>2. N \in Nat
  BY SameName
<1> DEFINE c == 2 * N + 2
<1>3. ChartAt(f) = c
  <2>1. \A n : Occ(f, n, Chart[fmt]) <=> n = c
    BY <1>1
  <2> HIDE DEF c
  <2> QED BY <2>1, ChartPlace
<1>4. c \in Nat /\ c <= Len(f) /\ Len(f) \in Nat
  BY <1>1, <1>2
<1>5. f[k].k = "info" /\ k \in 1 .. Len(f) /\ k # c
  <2> HIDE DEF c
  <2>1. k \in 2 .. c - 1 /\ f[k].k = "info"
    BY <1>3 DEF Pairs
  <2> QED BY <1>4, <2>1
<1> QED BY <1>1, <1>5

\* Where a pair may be put.
LEMMA PlacesAre ==
    ASSUME NEW f, Len(f) \in Nat, NEW c, c >= 2, c <= Len(f), c \in Nat,
           \A k : Occ(f, k, Chart[fmt]) <=> k = c, NEW p \in Places(f)
    PROVE  p \in 1 .. Len(f) + 1
<1>1. ChartAt(f) = c
  BY ChartPlace
<1>2. p \in {2, c, Len(f) + 1}
  BY <1>1 DEF Places
<1> QED BY <1>2

\* A pair of blocks is put in.
LEMMA PairPut ==
    ASSUME NEW h, h \in Seq(Entry), NEW p \in 1 .. Len(h) + 1, NEW i \in Entry, NEW d \in Entry
    PROVE  Inserted(h, InsertPair(h, p, i, d), p, i, d)
<1> DEFINE T == Entry
<1>1. h \in Seq(T) /\ i \in T /\ d \in T
  OBVIOUS
<1> HIDE DEF T
<1>2. HasPair(T, h, InsertPair(h, p, i, d), p, i, d)
  BY <1>1, PairIn
<1> QED BY <1>2 DEF Inserted, HasPair, T

\* A pair of blocks is taken out.
LEMMA PairTaken ==
    ASSUME NEW f, f \in Seq(Entry), NEW p \in 1 .. Len(f) - 1
    PROVE  Removed(f, RemovePair(f, p), p)
BY PairOut DEF Removed

\* The chart's description in what is left.
LEMMA DropPlaces ==
    ASSUME fmt \in Formats, NEW f, NEW u, Base(f, u), NEW j \in 1 .. N, NEW g, Removed(f, g, 2 * j)
    PROVE  Len(g) \in Nat /\ Len(g) >= 2 * N /\ \A n : Occ(g, n, Chart[fmt]) <=> n = 2 * N
<1>1. /\ Sound(g, 2 * N, Len(f) - 2, u) /\ Len(g) = Len(f) - 2 /\ Len(g) \in Nat /\ Len(g) >= 2 * N
      /\ \A i \in 1 .. N : \A k \in Nat :
           Occ(g, k, NamesOf(fmt)[i]) <=> i # j /\ k = IF i < j THEN 2 * i ELSE 2 * i - 2
      /\ \A k : Occ(g, k, Chart[fmt]) <=> k = 2 * N
      /\ \A k \in Nat : ~Occ(g, k, "unknown") /\ ~Occ(g, k, "refused")
  BY BaseDrops, Zenon
<1> QED BY <1>1

\* What the file is read as, whatever has become of it.
LEMMA EditedReadable ==
    ASSUME fmt \in Formats, src \in Sources[fmt], NEW u, Base(file, u),
           NEW d \in AllEdits, NEW g \in EditedFiles(d)
    PROVE  Readable(g, d)
<1>1. N \in Nat /\ N >= 8 /\ fmt \in {"dat", "dyn", "echo"}
  BY NamesAre
<1>2. /\ file \in Seq(Entry) /\ Len(file) \in Nat /\ Len(file) >= 2 * N + 2
      /\ \A k : Occ(file, k, Chart[fmt]) <=> k = 2 * N + 2
  BY BaseOcc DEF Base
<1>3. ASSUME NEW p \in Places(file) PROVE p \in 1 .. Len(file) + 1
  <2> DEFINE c == 2 * N + 2
  <2>1. c \in Nat /\ c >= 2 /\ c <= Len(file) /\ \A k : Occ(file, k, Chart[fmt]) <=> k = c
    BY <1>1, <1>2
  <2> HIDE DEF c
  <2> QED BY <1>2, <2>1, PlacesAre
<1>4. ASSUME NEW j \in 1 .. N PROVE 2 * j \in 1 .. Len(file) - 1 /\ 2 * j + 1 \in 1 .. Len(file)
  BY <1>1, <1>2
<1>5. ASSUME NEW k \in 1 .. Len(file) PROVE file[k] \in Entry
  BY <1>2, ElementOfSeq
<1>6. CASE d = "none"
  <2>1. g = file
    BY <1>6 DEF EditedFiles
  <2> QED BY <1>6, <2>1, EditNone
<1>7. CASE d = "tear"
  <2>1. PICK n \in 0 .. Len(file) - 1 : g = SubSeq(file, 1, n)
    BY <1>7 DEF EditedFiles
  <2>2. n \in 0 .. Len(file) /\ n \in Nat
    BY <1>2, <2>1
  <2>3. g \in Seq(Entry) /\ Len(g) = n /\ \A k \in 1 .. n : g[k] = file[k]
    <3> DEFINE T == Entry
    <3>1. file \in Seq(T) /\ 1 \in Nat \ {0} /\ 1 <= n + 1 /\ n - 1 + 1 = n /\ \A k \in 1 .. n : 1 + k - 1 = k
      BY <1>2, <2>2
    <3> HIDE DEF T
    <3>2. /\ SubSeq(file, 1, n) \in Seq(T) /\ Len(SubSeq(file, 1, n)) = n - 1 + 1
          /\ \A k \in 1 .. n - 1 + 1 : SubSeq(file, 1, n)[k] = file[1 + k - 1]
      BY <2>2, <3>1, PieceIs
    <3>3. SubSeq(file, 1, n) \in Seq(T) /\ Len(SubSeq(file, 1, n)) = n /\ \A k \in 1 .. n : SubSeq(file, 1, n)[k] = file[k]
      BY <3>1, <3>2
    <3> QED BY <2>1, <3>3 DEF T
  <2>4. Torn(file, g, n)
    BY <1>2, <2>2, <2>3 DEF Torn
  <2> QED BY <1>7, <2>4, EditTear
<1>8. CASE d = "refuse"
  <2>1. PICK k \in Pairs(file) : g = [file EXCEPT ![k] = Info("refused")]
    BY <1>8 DEF EditedFiles
  <2>2. PICK j \in 1 .. N : k = 2 * j
    BY <2>1, PairsAre
  <2>3. k \in 1 .. Len(file)
    BY <1>2, <1>4, <2>2
  <2>4. Info("refused") \in Entry
    BY DEF Entry, Info
  <2> DEFINE T == Entry
             x == Info("refused")
  <2>5. file \in Seq(T) /\ x \in T /\ g = [file EXCEPT ![k] = x]
    BY <1>2, <2>1, <2>4
  <2> HIDE DEF T, x
  <2>6. g \in Seq(T) /\ Len(g) = Len(file) /\ g[k] = x /\ \A i \in 1 .. Len(file) : i # k => g[i] = file[i]
    <3>1. Len(file) \in Nat /\ file \in [1 .. Len(file) -> T]
      BY <2>5, LenProperties
    <3>2. g \in [1 .. Len(file) -> T]
      BY <2>3, <2>5, <3>1
    <3>3. g \in Seq(T)
      BY <3>1, <3>2, SeqDef
    <3>4. DOMAIN g = 1 .. Len(file)
      BY <3>2
    <3>5. Len(g) = Len(file)
      BY <3>1, <3>3, <3>4, LenProperties
    <3> QED BY <2>3, <2>5, <3>1, <3>3, <3>5
  <2>7. Refused(file, g, k)
    BY <2>6 DEF Refused, T, x
  <2>8. Refused(file, g, 2 * j)
    BY <2>2, <2>7
  <2> QED BY <1>8, <2>8, EditRefuse
<1>9. CASE d = "drop"
  <2>1. PICK k \in Pairs(file) : g = RemovePair(file, k)
    BY <1>9 DEF EditedFiles
  <2>2. PICK j \in 1 .. N : k = 2 * j
    BY <2>1, PairsAre
  <2>3. Removed(file, g, 2 * j)
    BY <1>2, <1>4, <2>1, <2>2, PairTaken
  <2> QED BY <1>9, <2>3, EditDrop
<1>10. CASE d = "copy"
  <2>1. PICK k \in Pairs(file) : \E p \in Places(file) : g = InsertPair(file, p, file[k], file[k + 1])
    BY <1>10 DEF EditedFiles
  <2>2. PICK p \in Places(file) : g = InsertPair(file, p, file[k], file[k + 1])
    BY <2>1
  <2>3. PICK j \in 1 .. N : k = 2 * j
    BY <2>1, PairsAre
  <2>4. p \in 1 .. Len(file) + 1 /\ file[2 * j] \in Entry /\ file[2 * j + 1] \in Entry
    <3>1. 2 * j \in 1 .. Len(file) /\ 2 * j + 1 \in 1 .. Len(file)
      BY <1>2, <1>4
    <3> QED BY <1>3, <1>5, <3>1
  <2>5. g = InsertPair(file, p, file[2 * j], file[2 * j + 1])
    BY <2>2, <2>3
  <2>6. Inserted(file, g, p, file[2 * j], file[2 * j + 1])
    BY <1>2, <2>4, <2>5, PairPut
  <2> QED BY <1>10, <2>6, EditCopy
<1>11. CASE d = "move"
  <2>1. PICK k \in Pairs(file) :
           \E p \in Places(RemovePair(file, k)) : g = InsertPair(RemovePair(file, k), p, file[k], file[k + 1])
    BY <1>11 DEF EditedFiles
  <2>2. PICK j \in 1 .. N : k = 2 * j
    BY <2>1, PairsAre
  <2> DEFINE h == RemovePair(file, 2 * j)
  <2>4. Removed(file, h, 2 * j)
    BY <1>2, <1>4, PairTaken
  <2>5. Len(h) \in Nat /\ Len(h) >= 2 * N /\ \A n : Occ(h, n, Chart[fmt]) <=> n = 2 * N
    BY <2>4, DropPlaces
  <2>3. PICK p \in Places(h) : g = InsertPair(h, p, file[2 * j], file[2 * j + 1])
    BY <2>1, <2>2
  <2> HIDE DEF h
  <2>6. p \in 1 .. Len(h) + 1
    <3> DEFINE c == 2 * N
    <3>1. c \in Nat /\ c >= 2 /\ c <= Len(h) /\ \A n : Occ(h, n, Chart[fmt]) <=> n = c
      BY <1>1, <2>5
    <3> HIDE DEF c
    <3> QED BY <2>5, <3>1, PlacesAre
  <2>7. file[2 * j] \in Entry /\ file[2 * j + 1] \in Entry
    <3>1. 2 * j \in 1 .. Len(file) /\ 2 * j + 1 \in 1 .. Len(file)
      BY <1>2, <1>4
    <3> QED BY <1>5, <3>1
  <2>8. h \in Seq(Entry)
    BY <2>4 DEF Removed
  <2>9. Inserted(h, g, p, file[2 * j], file[2 * j + 1])
    BY <1>2, <2>3, <2>6, <2>7, <2>8, PairPut
  <2> QED BY <1>11, <2>4, <2>9, EditMove
<1>12. CASE d = "unknown"
  <2>1. PICK p \in Places(file) : g = InsertPair(file, p, Info("unknown"), Data(0))
    BY <1>12 DEF EditedFiles
  <2>2. Info("unknown") \in Entry /\ Data(0) \in Entry
    BY DEF Entry, Info, Data, Value
  <2>3. p \in 1 .. Len(file) + 1
    BY <1>3
  <2>4. Inserted(file, g, p, Info("unknown"), Data(0))
    BY <1>2, <2>1, <2>2, <2>3, PairPut
  <2> QED BY <1>12, <2>4, EditUnknown
<1>13. CASE d = "more"
  <2> DEFINE x == ExtraPoint \o ExtraPoint
  <2>1. g = Append(file, Data(x))
    BY <1>13 DEF EditedFiles
  <2>2. x \in Seq(Unit)
    <3>1. ExtraPoint \in Seq(Unit)
      <4>1. CASE fmt = "dat"
        BY <4>1 DEF ExtraPoint, Unit
      <4>2. CASE fmt = "dyn"
        BY <4>2 DEF ExtraPoint, Unit
      <4>3. CASE fmt = "echo"
        BY <4>3 DEF ExtraPoint, Unit
      <4> QED BY <1>1, <4>1, <4>2, <4>3
    <3> QED BY <3>1, UnitsBehind
  <2> HIDE DEF x
  <2>3. g = PutNew(file, x)
    BY <2>1 DEF PutNew
  <2> QED BY <1>13, <2>2, <2>3, EditMore
<1> QED BY <1>6, <1>7, <1>8, <1>9, <1>10, <1>11, <1>12, <1>13 DEF AllEdits

\* The written file is the one that the edits are made to.
LEMMA WrittenBase ==
    ASSUME Inv, phase = "write", next > N + Len(src.chart)
    PROVE  \E u : Base(file, u)
<1>1. /\ fmt \in Formats /\ src \in Sources[fmt] /\ next \in 1 .. N + Len(src.chart) + 1
      /\ VarsWritten /\ ChartWritten
  BY DEF Inv, Writing
<1>2. N \in Nat /\ Len(src.chart) \in Nat
  BY <1>1, NamesAre, SourceIs
<1> DEFINE l == Len(src.chart)
<1>8. l \in Nat /\ next \in 1 .. N + l + 1 /\ next > N + l
  BY <1>1, <1>2
<1> HIDE DEF l
<1>3. next > N /\ next = N + 1 + l /\ \A j \in 1 .. N : j < next
  BY <1>2, <1>8
<1>4. PICK m \in Nat : next = N + 1 + m /\ ChartIs(file, m, px)
  BY <1>1, <1>3 DEF ChartWritten
<1>5. m = Len(src.chart)
  <2>1. m = l
    BY <1>2, <1>3, <1>4, <1>8
  <2> QED BY <2>1 DEF l
<1>6. /\ file[2 * N + 2] = Info(Chart[fmt])
      /\ ChartBlocks(file, 2 * N + 2, Len(file))
      /\ IsUnits(Got(file, 2 * N + 2, Len(file) - (2 * N + 2)), Len(src.chart))
  BY <1>4, <1>5 DEF ChartIs
<1>7. /\ file \in Seq(Entry) /\ Len(file) >= 2 * N + 2 /\ file[1] = Header
      /\ \A j \in 1 .. N :
          file[2 * j] = Info(NamesOf(fmt)[j]) /\ file[2 * j + 1] = Data(Written(NamesOf(fmt)[j]))
  BY <1>1, <1>3 DEF VarsWritten
<1> QED BY <1>6, <1>7 DEF Base

\* The file is opened.
LEMMA OpenInv == Inv /\ Open => Inv'
<1> SUFFICES ASSUME Inv, Open PROVE Inv'
  OBVIOUS
<1>1. /\ fmt \in Formats /\ src \in Sources[fmt] /\ phase = "write" /\ next \in Nat \ {0}
      /\ px \in Int /\ NotRead
  BY DEF Inv, Open, Writing
<1>2. /\ next > N + Len(src.chart)
      /\ phase' = "read" /\ edit' \in AllEdits /\ file' \in EditedFiles(edit')
      /\ fmt' = fmt /\ src' = src /\ next' = next /\ px' = px
      /\ cursor' = cursor /\ t' = t /\ mem' = mem /\ dat' = dat /\ data' = data
      /\ part' = part /\ last' = last /\ head' = head /\ code' = code
  BY EditsAssumption DEF Open, srcVars, writeVars, readVars, N
<1>3. PICK v : Base(file, v)
  BY <1>1, <1>2, WrittenBase
<1> DEFINE d == edit'
           g == file'
<1>4. d \in AllEdits /\ g \in EditedFiles(d)
  BY <1>2
<1>5. Readable(g, d)
  <2> HIDE DEF d, g
  <2> QED BY <1>1, <1>3, <1>4, EditedReadable
<1>6. PICK c, e, sh, u : FileIs(file', edit', c, e, sh, u)
  BY <1>5 DEF Readable
<1>7. FileIs(file, edit, c, e, sh, u)'
  BY <1>2, <1>6, FileStays
<1>8. /\ file' \in Seq(Entry) /\ c \in Nat /\ e \in Nat /\ 2 <= c /\ c <= e /\ sh \in {0, 2} /\ Len(file') \in Nat
  BY <1>6, LenProperties DEF FileIs, Shape
<1>9. /\ cursor' = 0 /\ t' = "NULL" /\ mem' = 0 /\ dat' = [n \in Names |-> First(n)]
      /\ data' = <<>> /\ part' = <<>> /\ last' = 0 /\ head' = [written |-> FALSE] /\ code' = 0
  BY <1>1, <1>2 DEF NotRead
<1>10. /\ Names' = Names /\ N' = N /\ Unit' = Unit /\ \A n : First(n)' = First(n)
  BY <1>2, WrittenStays
<1>11. \A n : ~Seen(n)'
  <2>1. 2 .. cursor' = {}
    BY <1>9
  <2> QED BY <2>1 DEF Seen
<1>12. TypeIs(c, e)' /\ NoneRefused'
  BY <1>8, <1>9 DEF TypeIs, NoneRefused
<1>13. MemIs' /\ mem' \in 0 .. MemCap
  <2>1. mem' \in 0 .. MemCap /\ mem' = 0
    BY <1>9, SizesAssumption
  <2> QED BY <1>9, <1>11, <2>1 DEF MemIs, MemOf
<1>14. DatIs'
  <2>1. dat' = [n \in Names |-> dat'[n]]
    BY <1>9
  <2>2. \A n \in Names : dat'[n] = First(n)
    BY <1>9
  <2> QED BY <1>10, <1>11, <2>1, <2>2 DEF DatIs
<1>15. SpecialIs(sh)'
  <2>1. \A i \in 1 .. N : ~(cursor' >= 2 * i + sh + 1)
    BY <1>1, <1>8, <1>9, NamesAre
  <2> QED BY <1>10, <2>1 DEF SpecialIs
<1>16. StepNotZero'
  BY <1>11 DEF StepNotZero
<1>17. DataIs(ReadUnits(c, e))'
  <2>1. ReadUnits(c, e)' = <<>>
    BY <1>8, <1>9 DEF ReadUnits
  <2>2. Len(<<>>) = 0 /\ <<>> \in Seq(Unit) /\ <<>> \in Seq([1 .. RecItems -> Int])
        /\ <<>> \in Seq(IF fmt = "dyn" THEN Int \X Int ELSE Int)
    OBVIOUS
  <2>3. RecordsIs(<<>>)'
    BY <1>9, <1>10, <2>2 DEF RecordsIs, RecItems
  <2>4. PointsIs(<<>>)'
    <3>1. 0 <= ArrayLen + 1
      BY SizesAssumption
    <3> QED BY <1>2, <1>9, <2>2, <3>1 DEF PointsIs
  <2> QED BY <2>1, <2>3, <2>4 DEF DataIs
<1>18. HeadIs(c, e)'
  <2>1. ~(cursor' > c) /\ head'.written = FALSE
    BY <1>8, <1>9
  <2> QED BY <2>1 DEF HeadIs
<1>19. ReaderIs(c, e, sh)'
  <2>1. cursor' \in 0 .. Len(file')
    BY <1>8, <1>9
  <2>2. CrashesOnlyFor' /\ CodeTells'
    BY <1>2 DEF CrashesOnlyFor, CodeTells
  <2> QED BY <1>9, <1>12, <1>13, <1>14, <1>15, <1>16, <1>17, <1>18, <2>1, <2>2 DEF ReaderIs
<1>20. HasRead'
  BY <1>7, <1>19 DEF HasRead
<1>21. Writing'
  BY <1>2 DEF Writing
<1> QED BY <1>1, <1>2, <1>20, <1>21 DEF Inv

-----------------------------------------------------------------------------
(* Reading *)

\* The converter, its source and the file stay what they are.
Still == fmt' = fmt /\ src' = src /\ file' = file /\ edit' = edit

\* What is said of them alone stays true.
LEMMA StillStays ==
    ASSUME Still
    PROVE  /\ Names' = Names /\ N' = N /\ Unit' = Unit
           /\ \A n : First(n)' = First(n) /\ Kept(n)' = Kept(n) /\ Keeps(n)' = Keeps(n)
           /\ \A n : Late(n)' <=> Late(n)
           /\ \A k : InfoAt(file, k)' <=> InfoAt(file, k)
           /\ \A c, j : Got(file, c, j)' = Got(file, c, j)
           /\ \A p : Back(p)' = Back(p)
           /\ \A c, e, sh, u : FileIs(file, edit, c, e, sh, u)' <=> FileIs(file, edit, c, e, sh, u)
<1>1. fmt' = fmt /\ src' = src /\ file' = file /\ edit' = edit
  BY DEF Still
<1>2. /\ Names' = Names /\ N' = N /\ Unit' = Unit
      /\ \A n : First(n)' = First(n)
  BY <1>1, WrittenStays
<1>3. \A n : Kept(n)' = Kept(n)
  BY <1>1 DEF Kept
<1>4. \A n : Keeps(n)' = Keeps(n)
  BY <1>1, <1>3 DEF Keeps
<1>5. \A n : Late(n)' <=> Late(n)
  BY <1>1 DEF Late, ChartAt
<1>6. \A k : InfoAt(file, k)' <=> InfoAt(file, k)
  BY <1>1, <1>2 DEF InfoAt
<1>7. \A c, j : Got(file, c, j)' = Got(file, c, j)
  BY <1>1 DEF Got
<1>8. \A p : Back(p)' = Back(p)
  BY <1>1 DEF Back
<1>9. \A c, e, sh, u : FileIs(file, edit, c, e, sh, u)' <=> FileIs(file, edit, c, e, sh, u)
  <2> TAKE c, e, sh, u
  <2>1. FileIs(file, edit, c, e, sh, u)' = FileIs(file', edit', c, e, sh, u)
    BY <1>1, FileStays
  <2> QED BY <1>1, <2>1
<1> QED BY <1>2, <1>3, <1>4, <1>5, <1>6, <1>7, <1>8, <1>9

\* What has been read once one block more has.
LEMMA SeenNext ==
    ASSUME Still, cursor \in Nat, cursor' = cursor + 1
    PROVE  \A n : Seen(n)' <=> \/ Seen(n)
                               \/ cursor >= 1 /\ file[cursor] = Info(n) /\ file[cursor + 1].k = "data"
<1> TAKE n
<1>1. file' = file
  BY DEF Still
<1>2. Seen(n)' <=> \E k \in 2 .. cursor + 1 : file[k - 1] = Info(n) /\ file[k].k = "data"
  BY <1>1 DEF Seen
<1>3. Seen(n) <=> \E k \in 2 .. cursor : file[k - 1] = Info(n) /\ file[k].k = "data"
  BY DEF Seen
<1>4. \A k : k \in 2 .. cursor + 1 <=> k \in 2 .. cursor \/ (k = cursor + 1 /\ cursor >= 1)
  OBVIOUS
<1>5. (cursor + 1) - 1 = cursor
  OBVIOUS
<1> QED BY <1>2, <1>3, <1>4, <1>5

\* What the reader has seen stays while it does not go on.
LEMMA SeenSame ==
    ASSUME Still, cursor' = cursor
    PROVE  \A n : Seen(n)' <=> Seen(n)
BY DEF Still, Seen

\* What a block may be, by its kind.
LEMMA BlockKinds ==
    ASSUME NEW f, NEW c, NEW e, Shape(f, c, e), NEW i \in 1 .. Len(f)
    PROVE  /\ f[i].k = "header" => i = 1
           /\ f[i].k = "info" => i # 1 /\ i \notin c + 1 .. e /\ (i = c \/ (i \notin c .. e /\ InfoAt(f, i)))
           /\ f[i].k = "data" =>
                \/ i \in c + 1 .. e /\ UnitsAt(f, i) \in Seq(Unit)
                \/ i # 1 /\ i # c /\ i \notin c .. e /\ ValueAt(f, i)
           /\ f[i].k \in {"header", "info", "data"}
<1>1. /\ c \in Nat /\ e \in Nat /\ 2 <= c /\ c <= e
      /\ i = 1 => f[i] = Header
      /\ i = c => f[i] = Info(Chart[fmt])
      /\ i \in c + 1 .. e => f[i].k = "data" /\ UnitsAt(f, i) \in Seq(Unit)
      /\ i # 1 /\ i \notin c .. e => InfoAt(f, i) \/ ValueAt(f, i)
  BY DEF Shape
<1>2. i \in c .. e <=> i = c \/ i \in c + 1 .. e
  BY <1>1
<1>3. /\ f[i] = Header => f[i].k = "header"
      /\ f[i] = Info(Chart[fmt]) => f[i].k = "info"
      /\ InfoAt(f, i) => f[i].k = "info"
      /\ ValueAt(f, i) => f[i].k = "data"
  BY BlockIs DEF InfoAt, ValueAt
<1>4. i = 1 \/ i = c \/ i \in c + 1 .. e \/ (i # 1 /\ i \notin c .. e)
  BY <1>2
<1>5. i = 1 => i # c /\ i \notin c + 1 .. e
  BY <1>1
<1> QED BY <1>1, <1>2, <1>3, <1>4, <1>5

\* A variable whose place is behind has been read.
LEMMA PlacedSeen ==
    ASSUME fmt \in Formats, NEW c, NEW e, NEW sh \in {0, 2}, Shape(file, c, e), Ordered(file, edit, c, sh),
           InOrder(edit), NoneRefused, cursor \in 0 .. Len(file),
           NEW i \in 1 .. N, cursor >= 2 * i + sh + 1
    PROVE  Seen(NamesOf(fmt)[i]) /\ file[2 * i + sh] = Info(NamesOf(fmt)[i]) /\ 2 * i + sh + 1 < c
<1> DEFINE k == 2 * i + sh
<1>1. Len(file) \in Nat
  BY LenProperties DEF Shape
<1>2. /\ k \in Nat /\ k \in 1 .. cursor - 1 /\ k \in 1 .. Len(file) - 1 /\ k <= Len(file)
      /\ k + 1 \in 2 .. cursor /\ (k + 1) - 1 = k
  BY <1>1, NamesAre
<1>3. k + 1 < c /\ (file[k] = Info(NamesOf(fmt)[i]) \/ file[k] = Info("refused"))
  BY <1>2 DEF Ordered
<1>4. file[k] = Info(NamesOf(fmt)[i])
  <2> HIDE DEF k
  <2> QED BY <1>2, <1>3 DEF NoneRefused
<1>5. InfoAt(file, k)
  <2> HIDE DEF k
  <2> QED BY <1>4, NamesAre DEF InfoAt
<1>6. file[k + 1].k = "data"
  <2> HIDE DEF k
  <2> QED BY <1>2, <1>5 DEF Shape
<1>7. Seen(NamesOf(fmt)[i])
  <2> DEFINE q == k + 1
  <2>1. q \in 2 .. cursor /\ file[q].k = "data" /\ file[q - 1] = Info(NamesOf(fmt)[i])
    BY <1>2, <1>4, <1>6
  <2> HIDE DEF q
  <2> QED BY <2>1 DEF Seen
<1> QED BY <1>3, <1>4, <1>7

\* The chart's description is where it is said to be.
LEMMA ChartFound ==
    ASSUME fmt \in Formats, NEW f, NEW c, NEW e, Shape(f, c, e), c <= Len(f)
    PROVE  \A k : Occ(f, k, Chart[fmt]) <=> k = c
<1>1. /\ c \in Nat /\ e \in Nat /\ 2 <= c /\ c <= e /\ Len(f) \in Nat
      /\ \A k \in 1 .. Len(f) :
          /\ k = 1 => f[k] = Header
          /\ k = c => f[k] = Info(Chart[fmt])
          /\ k \in c + 1 .. e => f[k].k = "data"
          /\ k # 1 /\ k \notin c .. e => InfoAt(f, k) \/ ValueAt(f, k)
  BY LenProperties DEF Shape
<1>2. c \in 1 .. Len(f)
  BY <1>1
<1>3. Occ(f, c, Chart[fmt])
  BY <1>1, <1>2 DEF Occ
<1>4. ASSUME NEW k, Occ(f, k, Chart[fmt]) PROVE k = c
  <2>1. k \in 1 .. Len(f) /\ f[k] = Info(Chart[fmt])
    BY <1>4 DEF Occ
  <2>2. f[k] # Header /\ f[k].k # "data" /\ ~InfoAt(f, k)
    <3>1. Chart[fmt] \notin Names \cup {"unknown", "refused"}
      BY NamesAre
    <3> QED BY <2>1, <3>1, BlockIs DEF InfoAt
  <2>3. ~ValueAt(f, k)
    BY <2>2 DEF ValueAt
  <2>4. k \in Nat /\ (k \in c .. e <=> k = c \/ k \in c + 1 .. e)
    BY <1>1, <2>1
  <2> QED BY <1>1, <2>1, <2>2, <2>3, <2>4
<1> QED BY <1>3, <1>4

\* What is said of the reader, but for the header it has written and how it ended.
Static(c, e, sh) ==
    /\ cursor \in 0 .. Len(file) /\ TypeIs(c, e) /\ NoneRefused /\ MemIs /\ mem \in 0 .. MemCap
    /\ DatIs /\ SpecialIs(sh) /\ StepNotZero /\ DataIs(ReadUnits(c, e))
ReadOk(c, e, sh, u) ==
    /\ fmt \in Formats /\ src \in Sources[fmt] /\ phase = "read"
    /\ FileIs(file, edit, c, e, sh, u) /\ Static(c, e, sh) /\ HeadIs(c, e) /\ code = 0
Rests ==
    /\ Still /\ cursor' = cursor /\ t' = t /\ mem' = mem /\ dat' = dat
    /\ data' = data /\ part' = part /\ last' = last

\* The invariant of the reader while it reads, in two parts.
LEMMA StaticIs ==
    ASSUME NEW c, NEW e, NEW sh, phase = "read"
    PROVE  ReaderIs(c, e, sh) <=> Static(c, e, sh) /\ HeadIs(c, e) /\ code = 0
BY DEF ReaderIs, Static, CrashesOnlyFor, CodeTells

\* What the parts of ReadOk are used for.
LEMMA ReadFacts ==
    ASSUME NEW c, NEW e, NEW sh, NEW u, ReadOk(c, e, sh, u)
    PROVE  /\ fmt \in Formats /\ src \in Sources[fmt] /\ phase = "read" /\ code = 0
           /\ Shape(file, c, e) /\ sh \in {0, 2} /\ Ordered(file, edit, c, sh)
           /\ c \in Nat /\ e \in Nat /\ 2 <= c /\ c <= e /\ Len(file) \in Nat
           /\ cursor \in Nat /\ cursor <= Len(file) /\ cursor \in 0 .. Len(file)
           /\ TypeIs(c, e) /\ NoneRefused /\ MemIs /\ mem \in 0 .. MemCap
           /\ DatIs /\ SpecialIs(sh) /\ StepNotZero /\ DataIs(ReadUnits(c, e)) /\ HeadIs(c, e)
           /\ Only(file, edit, sh) /\ Once(file, edit) /\ OnlyRefused(file, edit)
           /\ UnitsIn(file, c, e, u) /\ Complete(file, edit, c, e, u)
<1>1. /\ fmt \in Formats /\ src \in Sources[fmt] /\ phase = "read" /\ code = 0
      /\ FileIs(file, edit, c, e, sh, u) /\ Static(c, e, sh) /\ HeadIs(c, e)
  BY DEF ReadOk
<1>2. /\ Shape(file, c, e) /\ sh \in {0, 2} /\ Ordered(file, edit, c, sh)
      /\ Only(file, edit, sh) /\ Once(file, edit) /\ OnlyRefused(file, edit)
      /\ UnitsIn(file, c, e, u) /\ Complete(file, edit, c, e, u)
  BY <1>1 DEF FileIs
<1>3. c \in Nat /\ e \in Nat /\ 2 <= c /\ c <= e /\ Len(file) \in Nat
  BY <1>2, LenProperties DEF Shape
<1>4. /\ TypeIs(c, e) /\ NoneRefused /\ MemIs /\ mem \in 0 .. MemCap
      /\ DatIs /\ SpecialIs(sh) /\ StepNotZero /\ DataIs(ReadUnits(c, e)) /\ cursor \in 0 .. Len(file)
  BY <1>1 DEF Static
<1>5. cursor \in Nat /\ cursor <= Len(file)
  BY <1>3, <1>4
<1> QED BY <1>1, <1>2, <1>3, <1>4, <1>5

\* A block of data is one of the chart's, or the value of a variable.
ChartBlock(c, e) ==
    /\ cursor \in c .. e - 1 /\ cursor + 1 \in c + 1 .. e /\ t = Chart[fmt] /\ Block \in Seq(Unit)
    /\ \A n \in Names \cup {"unknown", "refused"} : file[cursor] # Info(n)
ValueBlock(c, e, n) ==
    /\ cursor >= 1 /\ cursor \notin c .. e /\ cursor + 1 \notin c .. e
    /\ n \in Names \cup {"unknown", "refused"} /\ file[cursor] = Info(n) /\ InfoAt(file, cursor)
    /\ t = TypeFrom(n) /\ t # Chart[fmt] /\ (n \in Names => Block = Written(n))

\* The next block of data is one of the chart or the value of the variable described before it.
LEMMA AtData ==
    ASSUME NEW c, NEW e, NEW sh, NEW u, ReadOk(c, e, sh, u), Reading("data")
    PROVE  /\ file[cursor + 1].k = "data" /\ cursor + 1 \in 1 .. Len(file) /\ ~InfoAt(file, cursor + 1)
           /\ ChartBlock(c, e) \/ \E n : ValueBlock(c, e, n)
<1>1. /\ fmt \in Formats /\ Shape(file, c, e) /\ TypeIs(c, e)
      /\ c \in Nat /\ e \in Nat /\ 2 <= c /\ c <= e /\ Len(file) \in Nat /\ cursor \in Nat
  BY ReadFacts
<1>2. cursor < Len(file) /\ file[cursor + 1].k = "data"
  BY DEF Reading
<1> DEFINE i == cursor + 1
<1>3. i \in 1 .. Len(file) /\ i \in Nat /\ i - 1 = cursor /\ i = cursor + 1
  BY <1>1, <1>2
<1>4. file[i].k = "data"
  BY <1>2
<1>5. Chart[fmt] \notin Names \cup {"unknown", "refused", "NULL"}
  BY <1>1, NamesAre
<1> HIDE DEF i
<1>6. \/ i \in c + 1 .. e /\ UnitsAt(file, i) \in Seq(Unit)
      \/ i # 1 /\ i # c /\ i \notin c .. e /\ ValueAt(file, i)
  BY <1>1, <1>3, <1>4, BlockKinds
<1>7. ~InfoAt(file, i)
  BY <1>4, BlockIs DEF InfoAt
<1>8. ASSUME i \in c + 1 .. e, UnitsAt(file, i) \in Seq(Unit) PROVE ChartBlock(c, e)
  <2>1. cursor \in c .. e - 1 /\ cursor \in c .. e /\ cursor + 1 \in c + 1 .. e /\ cursor \in 1 .. Len(file)
    BY <1>1, <1>3, <1>8
  <2>2. t = Chart[fmt]
    BY <1>1, <2>1 DEF TypeIs
  <2>3. Block \in Seq(Unit)
    BY <1>3, <1>8 DEF UnitsAt, Block
  <2>4. file[cursor] = Info(Chart[fmt]) \/ file[cursor].k = "data"
    <3>1. cursor = c \/ cursor \in c + 1 .. e
      BY <1>1, <2>1
    <3> QED BY <1>1, <2>1, <3>1 DEF Shape
  <2>5. \A n \in Names \cup {"unknown", "refused"} : file[cursor] # Info(n)
    BY <1>5, <2>4, BlockIs
  <2> QED BY <2>1, <2>2, <2>3, <2>5 DEF ChartBlock
<1>9. ASSUME i # 1, i # c, i \notin c .. e, ValueAt(file, i) PROVE \E n : ValueBlock(c, e, n)
  <2>1. i > 1 /\ InfoAt(file, cursor) /\ \A n \in Names : file[cursor] = Info(n) => file[i].v = Written(n)
    BY <1>3, <1>9 DEF ValueAt
  <2>2. PICK n \in Names \cup {"unknown", "refused"} : file[cursor] = Info(n)
    BY <2>1 DEF InfoAt
  <2>3. cursor >= 1 /\ (cursor \in c .. e => cursor = e /\ (cursor = c \/ cursor \in c + 1 .. e)) /\ cursor \in 1 .. Len(file)
    BY <1>1, <1>3, <1>9, <2>1
  <2>4. file[cursor].k = "info" /\ file[cursor] # Info(Chart[fmt]) /\ file[cursor].n = n
    BY <1>5, <2>2, BlockIs
  <2>5. cursor \notin c .. e
    <3>1. cursor # c
      BY <1>1, <2>3, <2>4 DEF Shape
    <3>2. cursor \notin c + 1 .. e
      BY <1>1, <2>3, <2>4 DEF Shape
    <3> QED BY <2>3, <3>1, <3>2
  <2>6. t = TypeFrom(n)
    BY <1>1, <2>1, <2>3, <2>4 DEF TypeIs
  <2>7. t # Chart[fmt]
    BY <1>5, <2>6 DEF TypeFrom
  <2>8. n \in Names => Block = Written(n)
    BY <1>3, <2>1, <2>2 DEF Block
  <2>9. cursor + 1 \notin c .. e
    BY <1>3, <1>9
  <2>10. ValueBlock(c, e, n)
    BY <2>1, <2>2, <2>3, <2>5, <2>6, <2>7, <2>8, <2>9 DEF ValueBlock
  <2> QED BY <2>10
<1> QED BY <1>2, <1>3, <1>6, <1>7, <1>8, <1>9

\* Where no units are read, what is kept of them is the same.
LEMMA DataSame ==
    ASSUME Still, data' = data, part' = part, last' = last, NEW c, NEW e,
           ReadUnits(c, e)' = ReadUnits(c, e), DataIs(ReadUnits(c, e))
    PROVE  DataIs(ReadUnits(c, e))'
<1> DEFINE r == ReadUnits(c, e)
<1>1. /\ fmt' = fmt /\ src' = src /\ edit' = edit /\ Unit' = Unit /\ \A p : Back(p)' = Back(p)
  BY StillStays DEF Still
<1>2. r' = r /\ DataIs(r)
  OBVIOUS
<1> HIDE DEF r
<1>3. CASE fmt = "dat"
  <2>1. RecordsIs(r) /\ fmt' = "dat"
    BY <1>1, <1>2, <1>3 DEF DataIs
  <2>2. DataIs(r)'
    BY <1>1, <1>2, <2>1 DEF DataIs, RecordsIs
  <2> QED BY <2>2 DEF r
<1>4. CASE fmt # "dat"
  <2>1. PointsIs(r) /\ fmt' # "dat"
    BY <1>1, <1>2, <1>4 DEF DataIs
  <2>2. DataIs(r)'
    BY <1>1, <1>2, <2>1 DEF DataIs, PointsIs, InOrder
  <2> QED BY <2>2 DEF r
<1> QED BY <1>3, <1>4

\* The variables that a file is read from are untouched.
LEMMA RestsStatic ==
    ASSUME Rests, NEW c, NEW e, NEW sh, Static(c, e, sh)
    PROVE  Static(c, e, sh)'
<1>1. /\ fmt' = fmt /\ src' = src /\ file' = file /\ edit' = edit /\ cursor' = cursor /\ t' = t /\ mem' = mem
      /\ dat' = dat /\ data' = data /\ part' = part /\ last' = last /\ Still
  BY DEF Rests, Still
<1>2. /\ Names' = Names /\ N' = N /\ Unit' = Unit
      /\ \A n : First(n)' = First(n) /\ Keeps(n)' = Keeps(n)
      /\ \A k : InfoAt(file, k)' <=> InfoAt(file, k)
      /\ \A b, j : Got(file, b, j)' = Got(file, b, j)
      /\ \A p : Back(p)' = Back(p)
  BY <1>1, StillStays
<1>3. \A n : Seen(n)' <=> Seen(n)
  BY <1>1, SeenSame
<1>4. TypeIs(c, e)' /\ NoneRefused'
  BY <1>1, <1>2 DEF Static, TypeIs, NoneRefused, InfoAt
<1>5. MemIs'
  BY <1>1, <1>2, <1>3 DEF Static, MemIs, MemOf, InfoAt
<1>6. DatIs'
  BY <1>1, <1>2, <1>3 DEF Static, DatIs
<1>7. SpecialIs(sh)'
  BY <1>1, <1>2 DEF Static, SpecialIs
<1>8. StepNotZero'
  BY <1>1, <1>3 DEF Static, StepNotZero
<1>9. DataIs(ReadUnits(c, e))'
  <2>1. ReadUnits(c, e)' = ReadUnits(c, e)
    BY <1>1 DEF ReadUnits, Got, UnitsAt
  <2>2. DataIs(ReadUnits(c, e))
    BY DEF Static
  <2> QED BY <1>1, <2>1, <2>2, DataSame
<1>10. cursor' \in 0 .. Len(file') /\ mem' \in 0 .. MemCap
  BY <1>1 DEF Static
<1> QED BY <1>4, <1>5, <1>6, <1>7, <1>8, <1>9, <1>10 DEF Static

\* The steps of a dynamogram that have been read are those of the source.
LEMMA StepIs ==
    ASSUME NEW c, NEW e, NEW sh, NEW u, ReadOk(c, e, sh, u), fmt = "dyn",
           NEW s \in {"LoadStep", "TimeStep", "TravelStep"}
    PROVE  /\ s \in Names \ Special /\ src.vars[s] \in Nat /\ dat[s] \in Nat
           /\ dat[s] = IF Seen(s) THEN src.vars[s] ELSE 0
<1>1. fmt \in Formats /\ src \in Sources[fmt] /\ DatIs
  BY ReadFacts
<1>2. s \in Names /\ s \notin Special
  BY <1>1, SpecialNames DEF Special, Positions
<1>3. src.vars[s] \in Nat
  BY <1>1, FieldsAre, Uint16Is
<1>4. Keeps(s) = {src.vars[s]}
  BY <1>1, <1>2, KeepsIs DEF Positions
<1>5. First(s) = 0
  BY DEF First
<1>6. dat[s] \in IF Seen(s) THEN Keeps(s) ELSE {First(s)}
  BY <1>1, <1>2 DEF DatIs
<1> QED BY <1>2, <1>3, <1>4, <1>5, <1>6

\* What a variable is counted in.
LEMMA StepOfIs ==
    /\ \A n \in Weights : StepOf(n) = "LoadStep"
    /\ \A n \in Positions : StepOf(n) = "TravelStep"
    /\ StepOf("Period") = "TimeStep"
<1>1. ASSUME NEW n \in Weights PROVE StepOf(n) = "LoadStep"
  <2>1. n \notin Positions /\ n # "Period"
    BY <1>1 DEF Weights, Positions
  <2> QED BY <1>1, <2>1 DEF StepOf
<1>2. ASSUME NEW n \in Positions PROVE StepOf(n) = "TravelStep"
  <2>1. n \notin Weights /\ n # "Period"
    BY <1>2 DEF Weights, Positions
  <2> QED BY <1>2, <2>1 DEF StepOf
<1>3. StepOf("Period") = "TimeStep"
  BY DEF StepOf, Weights, Positions
<1> QED BY <1>1, <1>2, <1>3

\* They come before what is counted in them.
LEMMA StepBefore ==
    ASSUME fmt \in Formats, fmt = "dyn", NEW i \in 1 .. N,
           NamesOf(fmt)[i] \in Weights \cup Positions \cup {"Period"}
    PROVE  \E j \in 1 .. N : j < i /\ NamesOf(fmt)[j] = StepOf(NamesOf(fmt)[i])
<1>1. N = 26 /\ NamesOf(fmt) = DynNames
  BY SpecialNames DEF NamesOf
<1>2. /\ DynNames[7] = "TravelStep" /\ DynNames[8] = "LoadStep" /\ DynNames[9] = "TimeStep"
      /\ DynNames[12] = "MaxWeight" /\ DynNames[13] = "MinWeight"
      /\ DynNames[14] = "TopWeight" /\ DynNames[15] = "BotWeight"
      /\ DynNames[16] = "Travel" /\ DynNames[17] = "BeginPos" /\ DynNames[18] = "Period"
      /\ \A k, j \in 1 .. 26 : DynNames[k] = DynNames[j] => k = j
  BY DynNamesAre
<1>3. 7 \in 1 .. N /\ 8 \in 1 .. N /\ 9 \in 1 .. N
  BY <1>1
<1>4. CASE NamesOf(fmt)[i] \in Weights
  <2>1. DynNames[i] \in {DynNames[12], DynNames[13], DynNames[14], DynNames[15]}
    BY <1>1, <1>2, <1>4 DEF Weights
  <2>2. i \in {12, 13, 14, 15}
    BY <1>1, <1>2, <2>1
  <2>3. StepOf(NamesOf(fmt)[i]) = "LoadStep" /\ 8 < i
    BY <1>4, <2>2, StepOfIs
  <2> QED BY <1>1, <1>2, <1>3, <2>3
<1>5. CASE NamesOf(fmt)[i] \in Positions
  <2>1. DynNames[i] \in {DynNames[16], DynNames[17]}
    BY <1>1, <1>2, <1>5 DEF Positions
  <2>2. i \in {16, 17}
    BY <1>1, <1>2, <2>1
  <2>3. StepOf(NamesOf(fmt)[i]) = "TravelStep" /\ 7 < i
    BY <1>5, <2>2, StepOfIs
  <2> QED BY <1>1, <1>2, <1>3, <2>3
<1>6. CASE NamesOf(fmt)[i] = "Period"
  <2>1. DynNames[i] = DynNames[18]
    BY <1>1, <1>2, <1>6
  <2>2. i = 18
    BY <1>1, <1>2, <2>1
  <2>3. StepOf(NamesOf(fmt)[i]) = "TimeStep" /\ 9 < i
    BY <1>6, <2>2, StepOfIs
  <2> QED BY <1>1, <1>2, <1>3, <2>3
<1> QED BY <1>4, <1>5, <1>6

\* What the converter crashes at.
LEMMA CrashKeeps ==
    ASSUME NEW c, NEW e, NEW sh, NEW u, ReadOk(c, e, sh, u), Crash
    PROVE  ReaderIs(c, e, sh)'
<1>1. /\ fmt \in Formats /\ src \in Sources[fmt] /\ phase = "read" /\ code = 0
      /\ Shape(file, c, e) /\ sh \in {0, 2} /\ Ordered(file, edit, c, sh) /\ HeadIs(c, e)
      /\ cursor \in 0 .. Len(file) /\ NoneRefused /\ cursor \in Nat /\ Len(file) \in Nat
      /\ Only(file, edit, sh) /\ OnlyRefused(file, edit)
  BY ReadFacts
<1>2. Reading("data") /\ Crashes
  BY DEF Crash
<1>3. /\ Rests /\ Still /\ phase' = "crash" /\ head' = head /\ code' = code /\ cursor' = cursor
  BY DEF Crash, Rests, Still, srcVars, writeVars, readVars
<1>4. Static(c, e, sh)'
  BY <1>3, RestsStatic DEF ReadOk
<1>5. HeadIs(c, e)'
  <2>1. /\ \A n : Kept(n)' = Kept(n) /\ (Late(n)' <=> Late(n))
        /\ fmt' = fmt /\ src' = src /\ edit' = edit
    BY <1>3, StillStays DEF Still
  <2> QED BY <1>1, <1>3, <2>1 DEF HeadIs, Restores
<1>6. ChartBlock(c, e) \/ \E n : ValueBlock(c, e, n)
  BY <1>2, AtData
<1>7. Chart[fmt] # "NULL" /\ Chart[fmt] # "Position" /\ Chart[fmt] \notin Names
  BY <1>1, NamesAre
<1>8. \/ edit = "refuse" /\ file[cursor] = Info("refused")
      \/ src.vars["Position"] = 0
      \/ fmt = "dyn" /\ \E s \in {"LoadStep", "TimeStep"} :
              src.vars[s] = 0 \/ (edit \in {"drop", "move", "copy"} /\ ~Seen(s))
  <2>1. CASE t = "NULL"
    <3>1. PICK n : ValueBlock(c, e, n)
      BY <1>6, <1>7, <2>1 DEF ChartBlock
    <3>2. n = "refused" /\ file[cursor] = Info(n) /\ cursor \in 1 .. Len(file)
      BY <1>1, <2>1, <3>1, NamesAre DEF ValueBlock, TypeFrom
    <3> QED BY <1>1, <3>2 DEF OnlyRefused
  <2>2. CASE t = "Position" /\ Block = 0
    <3>1. PICK n : ValueBlock(c, e, n)
      BY <1>6, <1>7, <2>2 DEF ChartBlock
    <3>2. n = "Position" /\ n \in Names
      BY <1>1, <2>2, <3>1, NamesAre DEF ValueBlock, TypeFrom
    <3>3. Written(n) = src.vars[n]
      BY <1>1, <3>2, NamesAre DEF Written, DynWritten, EchoWritten, Weights, Positions
    <3> QED BY <2>2, <3>1, <3>2, <3>3 DEF ValueBlock
  <2>3. CASE fmt = "dyn" /\ t \in Weights \cup {"Period"} /\ dat[StepOf(t)] = 0
    <3>1. Weights \cup {"Period"} \subseteq Names
      BY <1>1, <2>3, SpecialNames
    <3>2. PICK n : ValueBlock(c, e, n)
      BY <1>6, <1>7, <2>3, <3>1 DEF ChartBlock
    <3>3. n = t /\ n \in Names /\ file[cursor] = Info(n) /\ cursor >= 1
      BY <1>1, <2>3, <3>1, <3>2, NamesAre DEF ValueBlock, TypeFrom
    <3> DEFINE s == StepOf(t)
    <3>4. s \in {"LoadStep", "TimeStep"}
      BY <2>3, StepOfIs
    <3>5. dat[s] = 0
      BY <2>3
    <3>6. PICK i \in 1 .. N : n = NamesOf(fmt)[i]
      BY <1>1, <3>3, NamesAre
    <3>7. PICK j \in 1 .. N : j < i /\ NamesOf(fmt)[j] = s
      BY <1>1, <2>3, <3>3, <3>6, StepBefore
    <3> HIDE DEF s
    <3>8. 0 = IF Seen(s) THEN src.vars[s] ELSE 0
      BY <2>3, <3>4, <3>5, StepIs
    <3>9. ASSUME src.vars[s] # 0, edit \notin {"drop", "move", "copy"} PROVE FALSE
      <4>1. ~Seen(s)
        BY <3>8, <3>9
      <4>2. cursor = 2 * i + sh
        <5>1. cursor \in 1 .. Len(file)
          BY <1>1, <3>3
        <5> QED BY <1>1, <3>3, <3>6, <3>9, <5>1 DEF Only
      <4>3. cursor >= 2 * j + sh + 1
        BY <1>1, <3>7, <4>2, NamesAre
      <4>4. InOrder(edit)
        BY <3>9 DEF InOrder
      <4>5. Seen(NamesOf(fmt)[j])
        BY <1>1, <4>3, <4>4, PlacedSeen
      <4> QED BY <3>7, <4>1, <4>5
    <3> QED BY <2>3, <3>4, <3>8, <3>9
  <2> QED BY <1>2, <2>1, <2>2, <2>3 DEF Crashes
<1>9. \A n : Seen(n)' <=> Seen(n)
  BY <1>3, SeenSame
<1>10. CrashesOnlyFor'
  BY <1>3, <1>8, <1>9 DEF CrashesOnlyFor, Still
<1>11. CodeTells'
  BY <1>3 DEF CodeTells
<1> QED BY <1>1, <1>3, <1>4, <1>5, <1>10, <1>11 DEF ReaderIs, Static

\* Without a copy each value is the first of its variable.
LEMMA NotYet ==
    ASSUME NEW c, NEW e, NEW sh, NEW u, ReadOk(c, e, sh, u), edit # "copy",
           NEW n \in Names, ValueBlock(c, e, n)
    PROVE  ~Seen(n)
<1>1. Once(file, edit) /\ cursor \in Nat /\ cursor <= Len(file) /\ Len(file) \in Nat
  BY ReadFacts
<1>2. cursor >= 1 /\ file[cursor] = Info(n)
  BY DEF ValueBlock
<1>3. \A j, k \in 1 .. Len(file) : file[j] = Info(n) /\ file[k] = Info(n) => j = k
  BY <1>1 DEF Once
<1> SUFFICES ASSUME NEW k \in 2 .. cursor, file[k - 1] = Info(n) PROVE FALSE
  BY DEF Seen
<1>4. k - 1 \in 1 .. Len(file) /\ cursor \in 1 .. Len(file) /\ k - 1 # cursor
  BY <1>1, <1>2
<1> QED BY <1>2, <1>3, <1>4

\* What a variable takes from bDst.
LEMMA NeedIs ==
    /\ \A n : MemNeed(n) \in {0, 1, 3} /\ (n \notin {"Position", "DevInfo", "RegInfo"} => MemNeed(n) = 0)
    /\ MemNeed("Position") = 3 /\ MemNeed("DevInfo") = 1 /\ MemNeed("RegInfo") = 1
    /\ \A n : MemOf(n) = IF Seen(n) THEN MemNeed(n) ELSE 0
BY DEF MemNeed, MemOf

\* One of each does not exhaust it.
LEMMA HasRoom ==
    ASSUME NEW c, NEW e, NEW sh, NEW u, ReadOk(c, e, sh, u), Reading("data"), fmt # "dat" \/ edit # "copy"
    PROVE  ~NoRoom /\ (fmt # "dat" => mem + MemNeed(t) \in 0 .. 3)
           /\ \A n \in Names : ValueBlock(c, e, n) => ~Seen(n) \/ fmt # "dat"
<1>1. fmt \in Formats /\ MemIs /\ mem \in 0 .. MemCap /\ MemCap \in Nat /\ MemCap >= 5 /\ mem \in Nat
  BY ReadFacts, SizesAssumption
<1>2. ChartBlock(c, e) \/ \E n : ValueBlock(c, e, n)
  BY AtData
<1>3. ASSUME ChartBlock(c, e) PROVE ~NoRoom /\ (fmt # "dat" => mem + MemNeed(t) \in 0 .. 3)
  <2>1. t = Chart[fmt] /\ fmt \in {"dat", "dyn", "echo"}
    BY <1>1, <1>3, NamesAre DEF ChartBlock
  <2>2. t \notin {"Position", "DevInfo", "RegInfo"}
    BY <2>1 DEF Chart
  <2>3. MemNeed(t) = 0
    BY <2>2, NeedIs
  <2>4. fmt # "dat" => mem \in 0 .. 3
    BY <1>1 DEF MemIs
  <2> QED BY <1>1, <2>3, <2>4 DEF NoRoom
<1>4. ASSUME NEW n, ValueBlock(c, e, n), fmt # "dat"
      PROVE  ~NoRoom /\ mem + MemNeed(t) \in 0 .. 3
  <2>1. mem = 0
    BY <1>1, <1>4 DEF MemIs, ValueBlock
  <2>2. MemNeed(t) \in {0, 1, 3}
    BY NeedIs
  <2> QED BY <1>1, <2>1, <2>2 DEF NoRoom
<1>5. ASSUME NEW n, ValueBlock(c, e, n), fmt = "dat", edit # "copy"
      PROVE  ~NoRoom
  <2>1. mem = MemOf("Position") + MemOf("DevInfo") + MemOf("RegInfo")
    BY <1>1, <1>5 DEF MemIs
  <2>2. t = TypeFrom(n)
    BY <1>5 DEF ValueBlock
  <2>3. CASE t \notin {"Position", "DevInfo", "RegInfo"}
    BY <1>1, <2>3, NeedIs DEF NoRoom
  <2>4. CASE t \in {"Position", "DevInfo", "RegInfo"}
    <3>1. t = n /\ n \in Names
      BY <1>1, <2>2, <2>4, NamesAre DEF TypeFrom
    <3>2. ~Seen(t)
      BY <1>5, <3>1, NotYet
    <3>3. MemOf(t) = 0
      BY <3>2, NeedIs
    <3>4. MemOf("Position") \in {0, 3} /\ MemOf("DevInfo") \in {0, 1} /\ MemOf("RegInfo") \in {0, 1}
      BY NeedIs
    <3>5. MemNeed("Position") = 3 /\ MemNeed("DevInfo") = 1 /\ MemNeed("RegInfo") = 1
      BY NeedIs
    <3>6. mem + MemNeed(t) <= 5
      BY <2>1, <2>4, <3>3, <3>4, <3>5
    <3>7. MemNeed(t) \in {0, 1, 3}
      BY NeedIs
    <3> QED BY <1>1, <3>6, <3>7 DEF NoRoom
  <2> QED BY <2>3, <2>4
<1>6. ASSUME NEW n \in Names, ValueBlock(c, e, n), fmt = "dat" PROVE ~Seen(n)
  BY <1>6, NotYet
<1> QED BY <1>2, <1>3, <1>4, <1>5, <1>6

\* The converter returns.
LEMMA LeaveKeeps ==
    ASSUME NEW c, NEW e, NEW sh, NEW u, ReadOk(c, e, sh, u), Leave
    PROVE  ReaderIs(c, e, sh)'
<1>1. /\ fmt \in Formats /\ src \in Sources[fmt] /\ phase = "read" /\ code = 0
      /\ HeadIs(c, e) /\ cursor \in 0 .. Len(file) /\ cursor \in Nat /\ c \in Nat /\ e \in Nat
  BY ReadFacts
<1>2. Reading("data") /\ (OtherType \/ NoRoom)
  BY DEF Leave
<1>3. /\ Rests /\ Still /\ phase' = "done" /\ head' = head /\ cursor' = cursor
      /\ code' = (IF OtherType THEN 0 ELSE 1)
  BY DEF Leave, Rests, Still, srcVars, writeVars
<1>4. Static(c, e, sh)'
  BY <1>3, RestsStatic DEF ReadOk
<1>5. ASSUME OtherType PROVE cursor \notin c .. e /\ src.vars["FileTypeId"] # FileType[fmt]
  <2>1. t = "FileTypeId" /\ Block # FileType[fmt]
    BY <1>5 DEF OtherType
  <2>2. Chart[fmt] # "FileTypeId" /\ "FileTypeId" \in Names
    BY <1>1, NamesAre
  <2>3. PICK n : ValueBlock(c, e, n)
    BY <1>2, <2>1, <2>2, AtData DEF ChartBlock
  <2>4. n = "FileTypeId"
    BY <2>1, <2>3 DEF ValueBlock, TypeFrom
  <2>5. Written("FileTypeId") = src.vars["FileTypeId"]
    BY <1>1, NamesAre DEF Written, DynWritten, EchoWritten, Weights, Positions
  <2> QED BY <2>1, <2>2, <2>3, <2>4, <2>5 DEF ValueBlock
<1>6. HeadIs(c, e)'
  <2>1. /\ \A n : Kept(n)' = Kept(n) /\ (Late(n)' <=> Late(n))
        /\ fmt' = fmt /\ src' = src /\ edit' = edit
    BY <1>3, StillStays DEF Still
  <2>2. code' = 0 /\ head.written => cursor >= e
    <3> SUFFICES ASSUME code' = 0, head.written PROVE cursor >= e
      OBVIOUS
    <3>1. fmt = "dat" /\ cursor > c
      BY <1>1 DEF HeadIs
    <3>2. OtherType
      BY <1>3
    <3> QED BY <1>1, <1>5, <3>1, <3>2
  <2> QED BY <1>1, <1>3, <2>1, <2>2 DEF HeadIs, Restores
<1>7. code' = 1 => fmt = "dat" /\ edit = "copy"
  BY <1>2, <1>3, HasRoom
<1>8. CodeTells'
  BY <1>3, <1>5, <1>7 DEF CodeTells, Still
<1>9. CrashesOnlyFor'
  BY <1>3 DEF CrashesOnlyFor
<1> QED BY <1>1, <1>3, <1>4, <1>6, <1>8, <1>9 DEF ReaderIs, Static

\* A record of the chart is there only if one has been read.
LEMMA ChartSeen ==
    ASSUME NEW c, NEW e, NEW sh, NEW u, ReadOk(c, e, sh, u), Seen(Chart[fmt])
    PROVE  cursor > c /\ e > c
<1>1. /\ fmt \in Formats /\ Shape(file, c, e) /\ c \in Nat /\ e \in Nat /\ c <= e
      /\ Len(file) \in Nat /\ cursor \in Nat /\ cursor <= Len(file)
  BY ReadFacts
<1>2. PICK k \in 2 .. cursor : file[k - 1] = Info(Chart[fmt]) /\ file[k].k = "data"
  BY DEF Seen
<1>3. k \in 1 .. Len(file) /\ k - 1 \in 1 .. Len(file) /\ k > 1
  BY <1>1
<1>4. ~InfoAt(file, k - 1)
  <2>1. Chart[fmt] \notin Names \cup {"unknown", "refused"}
    BY <1>1, NamesAre
  <2> QED BY <1>2, <2>1, BlockIs DEF InfoAt
<1>5. k - 1 = c
  <2>1. file[k - 1].k = "info"
    BY <1>2, BlockIs
  <2> HIDE <1>2
  <2> QED BY <1>1, <1>3, <1>4, <2>1, BlockKinds
<1>6. k \in c + 1 .. e
  <2>1. ~ValueAt(file, k)
    BY <1>4 DEF ValueAt
  <2> QED BY <1>1, <1>2, <1>3, <2>1, BlockKinds
<1> QED BY <1>1, <1>5, <1>6

\* At the end of the file each variable has its value.
LEMMA EndRestores ==
    ASSUME NEW c, NEW e, NEW sh, NEW u, ReadOk(c, e, sh, u), cursor = Len(file),
           fmt # "dat", Restores, NEW n \in DOMAIN src.vars
    PROVE  ~Late(n) /\ dat[n] \in Kept(n)
<1>1. /\ fmt \in Formats /\ src \in Sources[fmt] /\ Shape(file, c, e) /\ sh \in {0, 2} /\ Ordered(file, edit, c, sh)
      /\ c \in Nat /\ e \in Nat /\ c <= e /\ Len(file) \in Nat /\ cursor \in 0 .. Len(file)
      /\ Complete(file, edit, c, e, u) /\ NoneRefused /\ DatIs /\ SpecialIs(sh)
  BY ReadFacts
<1>2. InOrder(edit) /\ edit # "tear"
  BY DEF Restores, InOrder
<1>3. e <= Len(file)
  BY <1>1, <1>2 DEF Complete
<1>4. n \in Names /\ n # "Discrete"
  BY <1>1, SourceIs
<1>5. PICK i \in 1 .. N : n = NamesOf(fmt)[i]
  BY <1>1, <1>4, NamesAre
<1>6. N \in Nat /\ i \in Nat /\ 2 * i + sh \in Nat /\ 2 * i + sh >= 1
  BY <1>1, NamesAre
<1>7. 2 * i + sh + 1 < c
  BY <1>1, <1>2 DEF Ordered
<1>8. cursor >= 2 * i + sh + 1
  BY <1>1, <1>3, <1>6, <1>7
<1>9. Seen(n) /\ file[2 * i + sh] = Info(n)
  BY <1>1, <1>2, <1>5, <1>8, PlacedSeen
<1>10. ~Late(n)
  <2>1. c <= Len(file)
    BY <1>1, <1>3
  <2>2. ChartAt(file) = c
    <3>1. \A k : Occ(file, k, Chart[fmt]) <=> k = c
      BY <1>1, <2>1, ChartFound
    <3> QED BY <3>1, ChartPlace
  <2>3. 2 * i + sh \in 1 .. c - 1
    BY <1>1, <1>6, <1>7
  <2> QED BY <1>9, <2>2, <2>3 DEF Late
<1>11. Keeps(n) = Kept(n)
  BY <1>1, <1>4, KeepsIs
<1>12. dat[n] \in Keeps(n)
  <2>1. CASE n \in Special
    BY <1>1, <1>2, <1>5, <1>8, <2>1 DEF SpecialIs
  <2>2. CASE n \notin Special
    BY <1>1, <1>4, <1>9, <2>2 DEF DatIs
  <2> QED BY <2>1, <2>2
<1> QED BY <1>10, <1>11, <1>12

\* The end of the file, or of what was torn off.
LEMMA FinishKeeps ==
    ASSUME NEW c, NEW e, NEW sh, NEW u, ReadOk(c, e, sh, u), Finish
    PROVE  ReaderIs(c, e, sh)'
<1>1. /\ fmt \in Formats /\ src \in Sources[fmt] /\ phase = "read" /\ code = 0
      /\ HeadIs(c, e) /\ cursor \in 0 .. Len(file) /\ cursor \in Nat /\ c \in Nat /\ e \in Nat
      /\ Complete(file, edit, c, e, u)
  BY ReadFacts
<1>2. /\ Rests /\ Still /\ phase' = "done" /\ cursor' = cursor /\ code' = code /\ cursor = Len(file)
      /\ head' = (IF fmt = "dat" THEN head ELSE [written |-> TRUE, vars |-> dat])
  BY DEF Finish, Rests, Still, srcVars, writeVars
<1>3. Static(c, e, sh)'
  BY <1>2, RestsStatic DEF ReadOk
<1>4. edit # "tear" => cursor >= e
  BY <1>1, <1>2 DEF Complete
<1>5. /\ \A n : Kept(n)' = Kept(n) /\ (Late(n)' <=> Late(n))
      /\ fmt' = fmt /\ src' = src /\ edit' = edit
  BY <1>2, StillStays DEF Still
<1>6. HeadIs(c, e)'
  <2>1. CASE fmt = "dat"
    BY <1>1, <1>2, <1>4, <1>5, <2>1 DEF HeadIs, Restores
  <2>2. CASE fmt # "dat"
    <3>1. Restores => \A n \in DOMAIN src.vars : ~Late(n) /\ dat[n] \in Kept(n)
      BY <1>2, <2>2, EndRestores
    <3>2. head'.written = TRUE /\ head'.vars = dat
      BY <1>2, <2>2
    <3>3. Restores' <=> Restores
      BY <1>5 DEF Restores
    <3>4. head'.written /\ Restores' =>
            \A n \in DOMAIN src'.vars : head'.vars[n] \in (IF Late(n)' THEN {0, FileType[fmt']} ELSE Kept(n)')
      BY <1>5, <3>1, <3>2, <3>3
    <3> QED BY <1>2, <1>4, <1>5, <2>2, <3>2, <3>4 DEF HeadIs
  <2> QED BY <2>1, <2>2
<1>7. CodeTells'
  <2>1. \A n : Seen(n)' <=> Seen(n)
    BY <1>2, SeenSame
  <2>2. ~head'.written => fmt = "dat" /\ ~Seen(Chart[fmt])
    <3>1. ASSUME fmt = "dat", ~head.written PROVE ~Seen(Chart[fmt])
      BY <1>1, <3>1, ChartSeen DEF HeadIs
    <3> QED BY <1>2, <3>1
  <2> QED BY <1>1, <1>2, <1>5, <2>1, <2>2 DEF CodeTells
<1>8. CrashesOnlyFor'
  BY <1>2 DEF CrashesOnlyFor
<1> QED BY <1>1, <1>2, <1>3, <1>6, <1>7, <1>8 DEF ReaderIs, Static

\* The output is refused.
LEMMA OutputKeeps ==
    ASSUME NEW c, NEW e, NEW sh, NEW u, ReadOk(c, e, sh, u), OutputFails
    PROVE  ReaderIs(c, e, sh)'
<1>1. HeadIs(c, e) /\ phase = "read"
  BY ReadFacts
<1>2. Rests /\ Still /\ phase' = "done" /\ cursor' = cursor /\ code' = -1 /\ head' = head
  BY DEF OutputFails, Rests, Still, srcVars, writeVars
<1>3. Static(c, e, sh)'
  BY <1>2, RestsStatic DEF ReadOk
<1>4. /\ \A n : Kept(n)' = Kept(n) /\ (Late(n)' <=> Late(n))
      /\ fmt' = fmt /\ src' = src /\ edit' = edit
  BY <1>2, StillStays DEF Still
<1>5. HeadIs(c, e)'
  BY <1>1, <1>2, <1>4 DEF HeadIs, Restores
<1>6. CodeTells' /\ CrashesOnlyFor'
  BY <1>2 DEF CodeTells, CrashesOnlyFor
<1> QED BY <1>2, <1>3, <1>5, <1>6 DEF ReaderIs, Static

\* The units read are the same unless one of the chart's blocks is.
LEMMA UnitsSame ==
    ASSUME NEW c \in Nat, NEW e \in Nat, c <= e, cursor \in Nat, Still, cursor' = cursor + 1,
           cursor + 1 \notin c + 1 .. e
    PROVE  /\ ReadUnits(c, e)' = ReadUnits(c, e)
           /\ (cursor > c /\ e > c) <=> (cursor + 1 > c /\ e > c)
<1>1. \A b, j : Got(file, b, j)' = Got(file, b, j)
  BY StillStays
<1>2. ReadUnits(c, e)' = IF cursor + 1 <= c THEN <<>> ELSE Got(file, c, (IF cursor + 1 < e THEN cursor + 1 ELSE e) - c)
  BY <1>1 DEF ReadUnits, Still
<1>3. CASE cursor + 1 <= c
  BY <1>2, <1>3 DEF ReadUnits
<1>4. CASE cursor + 1 > c /\ cursor = c
  <2>1. e = c /\ ~(cursor + 1 < e) /\ ~(cursor + 1 <= c) /\ e - c = 0 /\ cursor <= c
    BY <1>4
  <2>2. Got(file, c, 0) = <<>>
    BY GotNone
  <2> QED BY <1>2, <2>1, <2>2 DEF ReadUnits
<1>5. CASE cursor + 1 > c /\ cursor # c
  <2>1. cursor > c /\ cursor >= e /\ ~(cursor + 1 < e) /\ ~(cursor < e) /\ ~(cursor <= c) /\ ~(cursor + 1 <= c)
    BY <1>5
  <2> QED BY <1>2, <2>1 DEF ReadUnits
<1> QED BY <1>3, <1>4, <1>5

\* The header is skipped.
LEMMA SkipKeeps ==
    ASSUME NEW c, NEW e, NEW sh, NEW u, ReadOk(c, e, sh, u), SkipHeader
    PROVE  ReaderIs(c, e, sh)'
<1>1. /\ fmt \in Formats /\ src \in Sources[fmt] /\ phase = "read" /\ code = 0
      /\ Shape(file, c, e) /\ sh \in {0, 2}
      /\ c \in Nat /\ e \in Nat /\ 2 <= c /\ c <= e /\ Len(file) \in Nat
      /\ cursor \in Nat /\ cursor <= Len(file)
      /\ MemIs /\ mem \in 0 .. MemCap
      /\ DatIs /\ StepNotZero /\ DataIs(ReadUnits(c, e)) /\ HeadIs(c, e)
  BY ReadFacts
<1>2. /\ Still /\ phase' = phase /\ cursor' = cursor + 1 /\ t' = t /\ mem' = mem /\ dat' = dat
      /\ data' = data /\ part' = part /\ last' = last /\ head' = head /\ code' = code
      /\ cursor < Len(file) /\ file[cursor + 1].k = "header"
  BY DEF SkipHeader, Reading, Still, srcVars, writeVars
<1>3. cursor = 0
  <2>1. cursor + 1 \in 1 .. Len(file)
    BY <1>1, <1>2
  <2> DEFINE i == cursor + 1
  <2>2. i \in 1 .. Len(file) /\ file[i].k = "header"
    BY <1>2, <2>1
  <2> HIDE DEF i
  <2>3. i = 1
    BY <1>1, <2>2, BlockKinds
  <2> QED BY <1>1, <2>3 DEF i
<1>4. cursor' = 1 /\ cursor' \in 0 .. Len(file') /\ 1 \notin c .. e
  BY <1>1, <1>2, <1>3 DEF Still
<1>5. /\ \A n : First(n)' = First(n) /\ Keeps(n)' = Keeps(n) /\ Kept(n)' = Kept(n) /\ (Late(n)' <=> Late(n))
      /\ \A k : InfoAt(file, k)' <=> InfoAt(file, k)
      /\ Names' = Names /\ N' = N /\ fmt' = fmt /\ src' = src /\ file' = file /\ edit' = edit
  BY <1>2, StillStays DEF Still
<1>6. ~InfoAt(file, 1)
  <2>1. file[1].k = "header"
    BY <1>2, <1>3
  <2> QED BY <2>1, BlockIs DEF InfoAt
<1>7. \A n : Seen(n)' <=> Seen(n)
  BY <1>1, <1>2, <1>3, SeenNext
<1>8. TypeIs(c, e)'
  <2>1. ~(cursor' \in c .. e) /\ ~InfoAt(file, cursor)'
    BY <1>4, <1>5, <1>6
  <2> QED BY <2>1 DEF TypeIs
<1>9. NoneRefused'
  BY <1>4 DEF NoneRefused
<1>10. MemIs' /\ mem' \in 0 .. MemCap
  <2>1. ~InfoAt(file, cursor)'
    BY <1>4, <1>5, <1>6
  <2>2. \A n : MemOf(n)' = MemOf(n)
    BY <1>7 DEF MemOf
  <2> QED BY <1>1, <1>2, <1>5, <2>1, <2>2 DEF MemIs
<1>11. DatIs'
  BY <1>1, <1>2, <1>5, <1>7 DEF DatIs
<1>12. SpecialIs(sh)'
  <2>1. \A i \in 1 .. N : ~(cursor' >= 2 * i + sh + 1)
    BY <1>1, <1>4, NamesAre, SMTT(30)
  <2> QED BY <1>5, <2>1 DEF SpecialIs
<1>13. StepNotZero'
  BY <1>1, <1>5, <1>7 DEF StepNotZero
<1>14. cursor + 1 \notin c + 1 .. e
  BY <1>1, <1>3
<1>15. ReadUnits(c, e)' = ReadUnits(c, e) /\ ((cursor > c /\ e > c) <=> (cursor + 1 > c /\ e > c))
  BY <1>1, <1>2, <1>14, UnitsSame
<1>16. DataIs(ReadUnits(c, e))'
  BY <1>1, <1>2, <1>15, DataSame
<1>17. HeadIs(c, e)'
  BY <1>1, <1>2, <1>5, <1>15 DEF HeadIs, Restores
<1>18. CodeTells' /\ CrashesOnlyFor'
  BY <1>1, <1>2 DEF CodeTells, CrashesOnlyFor
<1> QED BY <1>1, <1>2, <1>4, <1>8, <1>9, <1>10, <1>11, <1>12, <1>13, <1>16, <1>17, <1>18 DEF ReaderIs

\* A description.
LEMMA InfoKeeps ==
    ASSUME NEW c, NEW e, NEW sh, NEW u, ReadOk(c, e, sh, u), ReadInfo
    PROVE  ReaderIs(c, e, sh)'
<1>1. /\ fmt \in Formats /\ src \in Sources[fmt] /\ phase = "read" /\ code = 0
      /\ Shape(file, c, e) /\ sh \in {0, 2} /\ Ordered(file, edit, c, sh)
      /\ c \in Nat /\ e \in Nat /\ 2 <= c /\ c <= e /\ Len(file) \in Nat
      /\ cursor \in Nat /\ cursor <= Len(file) /\ NoneRefused
      /\ MemIs /\ mem \in 0 .. MemCap
      /\ DatIs /\ SpecialIs(sh) /\ StepNotZero /\ DataIs(ReadUnits(c, e)) /\ HeadIs(c, e)
  BY ReadFacts
<1>2. /\ Still /\ phase' = phase /\ cursor' = cursor + 1 /\ dat' = dat
      /\ data' = data /\ part' = part /\ last' = last /\ head' = head /\ code' = code
      /\ t' = TypeFrom(file[cursor + 1].n) /\ mem' = (IF fmt = "dat" THEN mem ELSE 0)
      /\ cursor < Len(file) /\ file[cursor + 1].k = "info"
  BY DEF ReadInfo, Reading, Still, srcVars, writeVars, TypeFrom
<1> DEFINE i == cursor + 1
<1>3. i \in 1 .. Len(file) /\ file[i].k = "info" /\ i = cursor + 1 /\ cursor' = i
  BY <1>1, <1>2
<1> HIDE DEF i
<1>4. i # 1 /\ i \notin c + 1 .. e /\ (i = c \/ (i \notin c .. e /\ InfoAt(file, i)))
  BY <1>1, <1>3, BlockKinds
<1>5. /\ \A n : First(n)' = First(n) /\ Keeps(n)' = Keeps(n) /\ Kept(n)' = Kept(n) /\ (Late(n)' <=> Late(n))
      /\ \A k : InfoAt(file, k)' <=> InfoAt(file, k)
      /\ Names' = Names /\ N' = N /\ fmt' = fmt /\ src' = src /\ file' = file /\ edit' = edit
  BY <1>2, StillStays DEF Still
<1>6. ~InfoAt(file, cursor)
  <2>1. cursor \in 1 .. Len(file) - 1
    BY <1>1, <1>3, <1>4
  <2>2. InfoAt(file, cursor) => file[cursor + 1].k = "data"
    BY <1>1, <2>1 DEF Shape
  <2> QED BY <1>2, <2>2
<1>7. \A n : Seen(n)' <=> Seen(n)
  BY <1>1, <1>2, SeenNext
<1>8. TypeIs(c, e)'
  <2>1. t' = TypeFrom(file[i].n)
    BY <1>2, <1>3
  <2>2. i \in c .. e => t' = Chart[fmt]
    <3> SUFFICES ASSUME i \in c .. e PROVE t' = Chart[fmt]
      OBVIOUS
    <3>1. i = c
      BY <1>4
    <3>2. file[i] = Info(Chart[fmt])
      BY <1>1, <1>3, <3>1 DEF Shape
    <3>3. file[i].n = Chart[fmt] /\ Chart[fmt] # "refused"
      BY <1>1, <3>2, BlockIs, NamesAre
    <3> QED BY <2>1, <3>3 DEF TypeFrom
  <2> QED BY <1>3, <1>5, <2>1, <2>2 DEF TypeIs, TypeFrom
<1>9. NoneRefused'
  <2>1. file[cursor] # Info("refused")
    BY <1>6 DEF InfoAt
  <2>2. \A k \in 1 .. cursor' - 1 : k \in 1 .. cursor - 1 \/ k = cursor
    BY <1>1, <1>2
  <2> QED BY <1>1, <1>5, <2>1, <2>2 DEF NoneRefused
<1>10. MemIs' /\ mem' \in 0 .. MemCap
  <2>1. \A n : MemOf(n)' = MemOf(n)
    BY <1>7 DEF MemOf
  <2>2. CASE fmt = "dat"
    BY <1>1, <1>2, <1>5, <2>1, <2>2 DEF MemIs
  <2>3. CASE fmt # "dat"
    <3>1. mem' = 0 /\ 0 \in 0 .. 3 /\ 0 \in 0 .. MemCap
      BY <1>2, <2>3, SizesAssumption
    <3> QED BY <1>5, <2>3, <3>1 DEF MemIs
  <2> QED BY <2>2, <2>3
<1>11. DatIs'
  BY <1>1, <1>2, <1>5, <1>7 DEF DatIs
<1>12. SpecialIs(sh)'
  <2> SUFFICES ASSUME InOrder(edit), NEW m \in 1 .. N, NamesOf(fmt)[m] \in Special, i >= 2 * m + sh + 1
               PROVE  dat[NamesOf(fmt)[m]] \in Keeps(NamesOf(fmt)[m])
    BY <1>2, <1>3, <1>5 DEF SpecialIs, Special, Positions
  <2>1. cursor # 2 * m + sh
    <3> SUFFICES ASSUME cursor = 2 * m + sh PROVE FALSE
      OBVIOUS
    <3>1. file[2 * m + sh] \in {Info(NamesOf(fmt)[m]), Info("refused")}
      BY <1>1 DEF Ordered
    <3>2. NamesOf(fmt)[m] \in Names
      BY <1>1, NamesAre
    <3>3. file[cursor] = Info(NamesOf(fmt)[m]) \/ file[cursor] = Info("refused")
      BY <3>1
    <3> QED BY <1>6, <3>2, <3>3 DEF InfoAt
  <2>2. cursor >= 2 * m + sh + 1
    <3>1. m \in Nat /\ 2 * m + sh \in Nat
      BY <1>1, NamesAre
    <3> QED BY <1>1, <1>3, <2>1, <3>1
  <2> QED BY <1>1, <2>2 DEF SpecialIs
<1>13. StepNotZero'
  BY <1>1, <1>5, <1>7 DEF StepNotZero
<1>14. cursor + 1 \notin c + 1 .. e
  BY <1>3, <1>4
<1>15. ReadUnits(c, e)' = ReadUnits(c, e) /\ ((cursor > c /\ e > c) <=> (cursor + 1 > c /\ e > c))
  BY <1>1, <1>2, <1>14, UnitsSame
<1>16. DataIs(ReadUnits(c, e))'
  BY <1>1, <1>2, <1>15, DataSame
<1>17. HeadIs(c, e)'
  BY <1>1, <1>2, <1>5, <1>15 DEF HeadIs, Restores
<1>18. CodeTells' /\ CrashesOnlyFor'
  BY <1>1, <1>2 DEF CodeTells, CrashesOnlyFor
<1>19. cursor' \in 0 .. Len(file')
  BY <1>1, <1>3, <1>5
<1> QED BY <1>1, <1>2, <1>8, <1>9, <1>10, <1>11, <1>12, <1>13, <1>16, <1>17, <1>18, <1>19 DEF ReaderIs

\* Which variables have been read once the value of one has.
LEMMA SeenValue ==
    ASSUME Still, cursor \in Nat, cursor' = cursor + 1, file[cursor + 1].k = "data",
           NEW c, NEW e, NEW n, ValueBlock(c, e, n)
    PROVE  \A m : Seen(m)' <=> Seen(m) \/ m = n
<1>1. cursor >= 1 /\ file[cursor] = Info(n)
  BY DEF ValueBlock
<1>2. \A m : file[cursor] = Info(m) <=> m = n
  BY <1>1, BlockIs
<1> QED BY <1>1, <1>2, SeenNext

\* A step by which a variable was divided has been read.
LEMMA StepRead ==
    ASSUME NEW c, NEW e, NEW sh, NEW u, ReadOk(c, e, sh, u), fmt = "dyn", ~Crashes,
           NEW n \in Weights \cup {"Period"}, t = n
    PROVE  dat[StepOf(n)] = src.vars[StepOf(n)] /\ src.vars[StepOf(n)] # 0
<1>1. dat[StepOf(n)] # 0
  BY DEF Crashes
<1>2. StepOf(n) \in {"LoadStep", "TimeStep", "TravelStep"}
  BY StepOfIs
<1> DEFINE s == StepOf(n)
<1>3. s \in {"LoadStep", "TimeStep", "TravelStep"} /\ dat[s] # 0
  BY <1>1, <1>2
<1> HIDE DEF s
<1>4. dat[s] = IF Seen(s) THEN src.vars[s] ELSE 0
  BY <1>3, StepIs
<1>5. dat[s] = src.vars[s] /\ src.vars[s] # 0
  BY <1>3, <1>4
<1> QED BY <1>5 DEF s

\* The value of a variable that needs no other.
LEMMA ValueKept ==
    ASSUME NEW c, NEW e, NEW sh, NEW u, ReadOk(c, e, sh, u), ~Crashes, NEW n \in Names \ Special, t = n
    PROVE  Read(n, Written(n)) \in Keeps(n)
<1>1. fmt \in Formats /\ src \in Sources[fmt] /\ DatIs
  BY ReadFacts
<1>2. dat[n] \in {First(n)} \cup Keeps(n)
  BY <1>1 DEF DatIs
<1>3. ASSUME fmt = "dyn", n \in Weights \cup {"Period"}
      PROVE  dat[StepOf(n)] = src.vars[StepOf(n)] /\ src.vars[StepOf(n)] # 0
  BY <1>3, StepRead
<1> QED BY <1>1, <1>2, <1>3, ReadBack

\* The places of those that others are read with.
LEMMA SpecialPlaces ==
    ASSUME fmt \in Formats, NEW i \in 1 .. N, NamesOf(fmt)[i] \in Special
    PROVE  /\ fmt # "dat" /\ 7 < i /\ 7 \in 1 .. N
           /\ fmt = "dyn" => NamesOf(fmt)[7] = "TravelStep"
           /\ fmt = "echo" => NamesOf(fmt)[7] = "Discrete"
<1>1. NamesOf(fmt)[i] \in Names /\ fmt \in {"dat", "dyn", "echo"} /\ N \in Nat /\ N >= 8
  BY NamesAre
<1>2. fmt # "dat"
  BY <1>1, SpecialNames
<1>3. ASSUME fmt = "dyn" PROVE 7 < i /\ NamesOf(fmt)[7] = "TravelStep"
  <2>1. NamesOf(fmt)[i] \in Positions
    BY <1>1, <1>3, SpecialNames DEF Special
  <2>2. NamesOf(fmt) = DynNames /\ N = 26
    BY <1>3, SpecialNames DEF NamesOf
  <2>3. /\ DynNames[7] = "TravelStep" /\ DynNames[16] = "Travel" /\ DynNames[17] = "BeginPos"
        /\ \A k, j \in 1 .. 26 : DynNames[k] = DynNames[j] => k = j
    BY DynNamesAre
  <2>4. DynNames[i] \in {DynNames[16], DynNames[17]}
    BY <2>1, <2>2, <2>3 DEF Positions
  <2>5. i \in {16, 17}
    BY <2>2, <2>3, <2>4
  <2> QED BY <2>2, <2>3, <2>5
<1>4. ASSUME fmt = "echo" PROVE 7 < i /\ NamesOf(fmt)[7] = "Discrete"
  <2>1. NamesOf(fmt)[i] = "Level"
    BY <1>1, <1>4, SpecialNames
  <2>2. NamesOf(fmt) = EchoNames /\ N = 21
    BY <1>4, SpecialNames DEF NamesOf
  <2>3. /\ EchoNames[7] = "Discrete" /\ EchoNames[9] = "Level"
        /\ \A k, j \in 1 .. 21 : EchoNames[k] = EchoNames[j] => k = j
    BY EchoNamesAre
  <2>4. i = 9
    BY <2>1, <2>2, <2>3
  <2> QED BY <2>2, <2>3, <2>4
<1> QED BY <1>1, <1>2, <1>3, <1>4

\* The value of one that does, in its place.
LEMMA SpecialKept ==
    ASSUME NEW c, NEW e, NEW sh, NEW u, ReadOk(c, e, sh, u), InOrder(edit),
           NEW i \in 1 .. N, NamesOf(fmt)[i] \in Special, cursor >= 2 * i + sh
    PROVE  Read(NamesOf(fmt)[i], Written(NamesOf(fmt)[i])) \in Keeps(NamesOf(fmt)[i])
<1>1. /\ fmt \in Formats /\ src \in Sources[fmt] /\ DatIs /\ Shape(file, c, e) /\ sh \in {0, 2}
      /\ Ordered(file, edit, c, sh) /\ NoneRefused /\ cursor \in 0 .. Len(file) /\ cursor \in Nat
  BY ReadFacts
<1>2. /\ fmt # "dat" /\ 7 < i /\ 7 \in 1 .. N
      /\ fmt = "dyn" => NamesOf(fmt)[7] = "TravelStep"
      /\ fmt = "echo" => NamesOf(fmt)[7] = "Discrete"
  BY <1>1, SpecialPlaces
<1>3. cursor >= 2 * 7 + sh + 1
  BY <1>1, <1>2
<1>4. Seen(NamesOf(fmt)[7])
  BY <1>1, <1>2, <1>3, PlacedSeen
<1>5. fmt = "dyn" => dat["TravelStep"] = src.vars["TravelStep"]
  BY <1>2, <1>4, StepIs
<1>6. fmt = "echo" => dat["Discrete"] = DiscreteBit(src.vars["Level"])
  <2> SUFFICES ASSUME fmt = "echo" PROVE dat["Discrete"] = DiscreteBit(src.vars["Level"])
    OBVIOUS
  <2>1. "Discrete" \in Names \ Special
    BY <1>1, SpecialNames DEF Special, Positions
  <2>2. Keeps("Discrete") = {DiscreteBit(src.vars["Level"])}
    BY <1>1, <2>1, KeepsIs
  <2>3. dat["Discrete"] \in Keeps("Discrete")
    BY <1>1, <1>2, <1>4, <2>1 DEF DatIs
  <2> QED BY <2>2, <2>3
<1>7. NamesOf(fmt)[i] \in Names \cap Special
  BY <1>1, NamesAre
<1> QED BY <1>1, <1>5, <1>6, <1>7, SpecialBack

\* What bDst has given out once the value of n has been read.
LEMMA MemMore ==
    ASSUME Still, MemIs, fmt = "dat", edit # "copy", NEW n, ~Seen(n) \/ MemNeed(n) = 0,
           mem' = mem + MemNeed(n), \A m : Seen(m)' <=> Seen(m) \/ m = n
    PROVE  MemIs'
<1>1. mem = MemOf("Position") + MemOf("DevInfo") + MemOf("RegInfo")
  BY DEF MemIs
<1>2. /\ \A m : MemOf(m)' = IF Seen(m)' THEN MemNeed(m) ELSE 0
      /\ \A m : MemOf(m) = IF Seen(m) THEN MemNeed(m) ELSE 0
  BY DEF MemOf
<1>3. \A m : m # n \/ MemNeed(n) = 0 => MemOf(m)' = MemOf(m)
  BY <1>2
<1>4. MemNeed(n) # 0 => MemOf(n) = 0 /\ MemOf(n)' = MemNeed(n)
  BY <1>2
<1>5. /\ MemOf("Position") \in {0, 3} /\ MemOf("DevInfo") \in {0, 1} /\ MemOf("RegInfo") \in {0, 1}
      /\ MemNeed(n) \in {0, 1, 3} /\ (MemNeed(n) # 0 => n \in {"Position", "DevInfo", "RegInfo"})
  BY NeedIs
<1>6. mem' = MemOf("Position")' + MemOf("DevInfo")' + MemOf("RegInfo")'
  <2>1. CASE MemNeed(n) = 0
    <3>1. /\ MemOf("Position")' = MemOf("Position") /\ MemOf("DevInfo")' = MemOf("DevInfo")
          /\ MemOf("RegInfo")' = MemOf("RegInfo")
      BY <1>3, <2>1
    <3> QED BY <1>1, <1>5, <2>1, <3>1
  <2>2. CASE n = "Position" /\ MemNeed(n) # 0
    <3>1. MemOf("DevInfo")' = MemOf("DevInfo") /\ MemOf("RegInfo")' = MemOf("RegInfo")
      BY <1>3, <2>2
    <3> QED BY <1>1, <1>4, <1>5, <2>2, <3>1
  <2>3. CASE n = "DevInfo" /\ MemNeed(n) # 0
    <3>1. MemOf("Position")' = MemOf("Position") /\ MemOf("RegInfo")' = MemOf("RegInfo")
      BY <1>3, <2>3
    <3> QED BY <1>1, <1>4, <1>5, <2>3, <3>1
  <2>4. CASE n = "RegInfo" /\ MemNeed(n) # 0
    <3>1. MemOf("DevInfo")' = MemOf("DevInfo") /\ MemOf("Position")' = MemOf("Position")
      BY <1>3, <2>4
    <3> QED BY <1>1, <1>4, <1>5, <2>4, <3>1
  <2> QED BY <1>5, <2>1, <2>2, <2>3, <2>4
<1> QED BY <1>6 DEF MemIs, Still

\* The value of a variable.
LEMMA VarKeeps ==
    ASSUME NEW c, NEW e, NEW sh, NEW u, ReadOk(c, e, sh, u), ReadVar
    PROVE  ReaderIs(c, e, sh)'
<1>1. /\ fmt \in Formats /\ src \in Sources[fmt] /\ phase = "read" /\ code = 0
      /\ Shape(file, c, e) /\ sh \in {0, 2} /\ Ordered(file, edit, c, sh)
      /\ c \in Nat /\ e \in Nat /\ 2 <= c /\ c <= e /\ Len(file) \in Nat
      /\ cursor \in Nat /\ cursor <= Len(file) /\ NoneRefused
      /\ MemIs /\ mem \in 0 .. MemCap
      /\ DatIs /\ SpecialIs(sh) /\ StepNotZero /\ DataIs(ReadUnits(c, e)) /\ HeadIs(c, e)
  BY ReadFacts
<1>2. /\ Reading("data") /\ t # Chart[fmt] /\ ~Crashes /\ ~OtherType /\ ~NoRoom
      /\ Still /\ phase' = phase /\ cursor' = cursor + 1 /\ t' = t
      /\ data' = data /\ part' = part /\ last' = last /\ head' = head /\ code' = code
      /\ mem' = mem + MemNeed(t)
      /\ dat' = (IF t \in DOMAIN dat THEN [dat EXCEPT ![t] = Read(t, Block)] ELSE dat)
  BY DEF ReadVar, Still, srcVars, writeVars
<1>3. file[cursor + 1].k = "data" /\ cursor + 1 \in 1 .. Len(file) /\ ~InfoAt(file, cursor + 1)
  BY <1>2, AtData
<1>4. PICK n : ValueBlock(c, e, n)
  BY <1>2, AtData DEF ChartBlock
<1>5. /\ cursor >= 1 /\ cursor \notin c .. e /\ cursor + 1 \notin c .. e
      /\ n \in Names \cup {"unknown", "refused"} /\ file[cursor] = Info(n) /\ InfoAt(file, cursor)
      /\ t = TypeFrom(n) /\ (n \in Names => Block = Written(n))
  BY <1>4 DEF ValueBlock
<1>6. t = n /\ n # "refused" /\ (n \notin Names => n = "unknown")
  <2>1. t # "NULL"
    BY <1>2 DEF Crashes
  <2> QED BY <1>5, <2>1 DEF TypeFrom
<1>7. /\ \A m : First(m)' = First(m) /\ Keeps(m)' = Keeps(m) /\ Kept(m)' = Kept(m) /\ (Late(m)' <=> Late(m))
      /\ \A k : InfoAt(file, k)' <=> InfoAt(file, k)
      /\ Names' = Names /\ N' = N /\ fmt' = fmt /\ src' = src /\ file' = file /\ edit' = edit
  BY <1>2, StillStays DEF Still
<1>8. \A m : Seen(m)' <=> Seen(m) \/ m = n
  BY <1>1, <1>2, <1>3, <1>4, SeenValue
<1>9. TypeIs(c, e)'
  <2>1. ~(cursor' \in c .. e) /\ ~InfoAt(file, cursor)'
    BY <1>2, <1>3, <1>5, <1>7
  <2> QED BY <2>1 DEF TypeIs
<1>10. NoneRefused'
  <2>1. file[cursor] # Info("refused")
    BY <1>5, <1>6, BlockIs
  <2>2. \A k \in 1 .. cursor' - 1 : k \in 1 .. cursor - 1 \/ k = cursor
    BY <1>1, <1>2
  <2> QED BY <1>1, <1>7, <2>1, <2>2 DEF NoneRefused
<1>11. MemIs' /\ mem' \in 0 .. MemCap
  <2>1. MemNeed(t) \in {0, 1, 3} /\ MemCap \in Nat
    BY NeedIs, SizesAssumption
  <2>2. mem' \in 0 .. MemCap
    BY <1>1, <1>2, <2>1 DEF NoRoom
  <2>3. CASE fmt # "dat"
    <3>1. mem' \in 0 .. 3
      BY <1>2, <2>3, HasRoom
    <3>2. ~InfoAt(file, cursor)'
      BY <1>2, <1>3, <1>7
    <3> QED BY <1>7, <2>2, <2>3, <3>1, <3>2 DEF MemIs
  <2>4. CASE fmt = "dat" /\ edit = "copy"
    BY <1>7, <2>2, <2>4 DEF MemIs
  <2>5. CASE fmt = "dat" /\ edit # "copy"
    <3>1. ~Seen(n) \/ MemNeed(n) = 0
      <4>1. CASE n \in Names
        BY <1>4, <2>5, <4>1, NotYet
      <4>2. CASE n \notin Names
        BY <1>6, <4>2, NeedIs
      <4> QED BY <4>1, <4>2
    <3>2. mem' = mem + MemNeed(n)
      BY <1>2, <1>6
    <3> QED BY <1>1, <1>2, <1>8, <2>2, <2>5, <3>1, <3>2, MemMore
  <2> QED BY <2>3, <2>4, <2>5
<1>12. /\ dat' = [m \in Names |-> dat'[m]]
       /\ \A m \in Names : dat'[m] = IF m = n THEN Read(n, Written(n)) ELSE dat[m]
  <2>1. DOMAIN dat = Names
    BY <1>1 DEF DatIs
  <2>2. CASE n \in Names
    <3>1. dat' = [dat EXCEPT ![n] = Read(n, Written(n))]
      BY <1>2, <1>5, <1>6, <2>1, <2>2
    <3>2. dat = [m \in Names |-> dat[m]]
      BY <1>1 DEF DatIs
    <3> QED BY <2>2, <3>1, <3>2
  <2>3. CASE n \notin Names
    <3>1. dat' = dat
      BY <1>2, <1>6, <2>1, <2>3
    <3>2. dat = [m \in Names |-> dat[m]]
      BY <1>1 DEF DatIs
    <3> QED BY <2>3, <3>1, <3>2
  <2> QED BY <2>2, <2>3
<1>13. DatIs'
  <2> SUFFICES ASSUME NEW m \in Names \ Special
               PROVE  dat'[m] \in IF Seen(m)' THEN Keeps(m) ELSE {First(m)}
    BY <1>7, <1>12 DEF DatIs, Special, Positions
  <2>1. CASE m = n
    <3>1. Read(n, Written(n)) \in Keeps(n)
      BY <1>2, <1>6, <2>1, ValueKept
    <3> QED BY <1>8, <1>12, <2>1, <3>1
  <2>2. CASE m # n
    <3>1. dat[m] \in IF Seen(m) THEN Keeps(m) ELSE {First(m)}
      BY <1>1 DEF DatIs
    <3> QED BY <1>8, <1>12, <2>2, <3>1
  <2> QED BY <2>1, <2>2
<1>14. SpecialIs(sh)'
  <2> SUFFICES ASSUME InOrder(edit), NEW i \in 1 .. N, NamesOf(fmt)[i] \in Special, cursor + 1 >= 2 * i + sh + 1
               PROVE  dat'[NamesOf(fmt)[i]] \in Keeps(NamesOf(fmt)[i])
    BY <1>2, <1>7 DEF SpecialIs, Special, Positions
  <2>1. i \in Nat /\ 2 * i + sh \in Nat /\ NamesOf(fmt)[i] \in Names /\ cursor >= 2 * i + sh
    BY <1>1, NamesAre
  <2>2. CASE NamesOf(fmt)[i] = n
    <3>1. Read(NamesOf(fmt)[i], Written(NamesOf(fmt)[i])) \in Keeps(NamesOf(fmt)[i])
      BY <2>1, SpecialKept
    <3> QED BY <1>12, <2>1, <2>2, <3>1
  <2>3. CASE NamesOf(fmt)[i] # n
    <3>1. cursor # 2 * i + sh
      <4> SUFFICES ASSUME cursor = 2 * i + sh PROVE FALSE
        OBVIOUS
      <4>1. file[2 * i + sh] \in {Info(NamesOf(fmt)[i]), Info("refused")}
        BY <1>1, <2>1 DEF Ordered
      <4>2. file[cursor] = Info(NamesOf(fmt)[i]) \/ file[cursor] = Info("refused")
        BY <4>1
      <4>3. n = NamesOf(fmt)[i] \/ n = "refused"
        BY <1>5, <4>2, BlockIs
      <4> QED BY <1>6, <2>3, <4>3
    <3>2. cursor >= 2 * i + sh + 1
      BY <1>1, <2>1, <3>1
    <3>3. dat[NamesOf(fmt)[i]] \in Keeps(NamesOf(fmt)[i])
      BY <1>1, <3>2 DEF SpecialIs
    <3> QED BY <1>12, <2>1, <2>3, <3>3
  <2> QED BY <2>2, <2>3
<1>15. StepNotZero'
  <2> SUFFICES ASSUME fmt = "dyn", Seen("MaxWeight")' PROVE src.vars["LoadStep"] # 0
    BY <1>7 DEF StepNotZero
  <2>1. CASE Seen("MaxWeight")
    BY <1>1, <2>1 DEF StepNotZero
  <2>2. CASE n = "MaxWeight"
    <3>1. "MaxWeight" \in Weights \cup {"Period"} /\ t = "MaxWeight" /\ StepOf("MaxWeight") = "LoadStep"
      BY <1>6, <2>2, StepOfIs DEF Weights
    <3> QED BY <1>2, <3>1, StepRead
  <2> QED BY <1>8, <2>1, <2>2
<1>16. cursor + 1 \notin c + 1 .. e
  BY <1>1, <1>5
<1>17. ReadUnits(c, e)' = ReadUnits(c, e) /\ ((cursor > c /\ e > c) <=> (cursor + 1 > c /\ e > c))
  BY <1>1, <1>2, <1>16, UnitsSame
<1>18. DataIs(ReadUnits(c, e))'
  BY <1>1, <1>2, <1>17, DataSame
<1>19. HeadIs(c, e)'
  BY <1>1, <1>2, <1>7, <1>17 DEF HeadIs, Restores
<1>20. CodeTells' /\ CrashesOnlyFor'
  BY <1>1, <1>2 DEF CodeTells, CrashesOnlyFor
<1>21. cursor' \in 0 .. Len(file')
  BY <1>1, <1>2, <1>3, <1>7
<1> QED BY <1>1, <1>2, <1>9, <1>10, <1>11, <1>13, <1>14, <1>15, <1>18, <1>19, <1>20, <1>21 DEF ReaderIs

\* A block of the chart has no value of a variable.
LEMMA SeenChart ==
    ASSUME Still, cursor \in Nat, cursor' = cursor + 1, NEW c, NEW e, ChartBlock(c, e)
    PROVE  \A n \in Names : Seen(n)' <=> Seen(n)
<1>1. \A n \in Names : file[cursor] # Info(n)
  BY DEF ChartBlock
<1>2. \A n : Seen(n)' <=> \/ Seen(n)
                          \/ cursor >= 1 /\ file[cursor] = Info(n) /\ file[cursor + 1].k = "data"
  BY SeenNext
<1> QED BY <1>1, <1>2

\* Its units are read behind those of the blocks before.
LEMMA UnitsNext ==
    ASSUME NEW c, NEW e, NEW sh, NEW u, ReadOk(c, e, sh, u), Still, cursor' = cursor + 1,
           cursor < Len(file), ChartBlock(c, e)
    PROVE  /\ ReadUnits(c, e)' = ReadUnits(c, e) \o Block
           /\ ReadUnits(c, e) \in Seq(Unit) /\ Block \in Seq(Unit)
           /\ Begins(ReadUnits(c, e) \o Block, u) /\ IsUnits(u, Len(src.chart))
<1>1. /\ c \in Nat /\ e \in Nat /\ c <= e /\ Len(file) \in Nat /\ cursor \in Nat
      /\ Shape(file, c, e) /\ UnitsIn(file, c, e, u)
  BY ReadFacts
<1>2. cursor \in c .. e - 1 /\ Block \in Seq(Unit)
  BY DEF ChartBlock
<1> DEFINE j == cursor - c
<1>3. j \in Nat /\ j + 1 \in 0 .. e - c /\ c + (j + 1) = cursor + 1 /\ c + (j + 1) <= Len(file)
      /\ j \in 0 .. j + 1
  BY <1>1, <1>2
<1>4. HaveUnits(file, c, j + 1)
  <2> SUFFICES ASSUME NEW i \in 1 .. j + 1 PROVE UnitsAt(file, c + i) \in Seq(Unit)
    BY DEF HaveUnits
  <2>1. c + i \in 1 .. Len(file) /\ c + i \in c + 1 .. e
    BY <1>1, <1>3
  <2> QED BY <1>1, <2>1 DEF Shape
<1>5. ReadUnits(c, e) = Got(file, c, j)
  <2>1. CASE cursor = c
    <3>1. j = 0 /\ cursor <= c
      BY <1>1, <2>1
    <3> HIDE DEF j
    <3>2. Got(file, c, 0) = <<>>
      BY <1>1, GotNone
    <3> QED BY <3>1, <3>2 DEF ReadUnits
  <2>2. CASE cursor # c
    <3>1. ~(cursor <= c) /\ cursor < e
      BY <1>1, <1>2, <2>2
    <3> QED BY <3>1 DEF ReadUnits
  <2> QED BY <2>1, <2>2
<1>6. ReadUnits(c, e)' = Got(file, c, j + 1)
  <2>1. ~(cursor + 1 <= c) /\ (IF cursor + 1 < e THEN cursor + 1 ELSE e) - c = j + 1
    BY <1>1, <1>2
  <2>2. \A b, i : Got(file, b, i)' = Got(file, b, i)
    BY StillStays
  <2> QED BY <2>1, <2>2 DEF ReadUnits, Still
<1>7. UnitsAt(file, c + (j + 1)) = Block
  BY <1>3 DEF UnitsAt, Block
<1> HIDE DEF j
<1>8. Got(file, c, j + 1) = Got(file, c, j) \o UnitsAt(file, c + (j + 1))
  BY <1>1, <1>3, <1>4, GotNext
<1>9. Got(file, c, j) \in Seq(Unit)
  <2>1. HaveUnits(file, c, j)
    <3>1. \A i \in 1 .. j : i \in 1 .. j + 1
      BY <1>3
    <3> QED BY <1>4, <3>1 DEF HaveUnits
  <2> QED BY <1>1, <1>3, <2>1, GotIs
<1>10. Begins(Got(file, c, j + 1), u) /\ IsUnits(u, Len(src.chart))
  <2>1. j + 1 \in 0 .. e - c /\ c + (j + 1) <= Len(file)
    BY <1>3
  <2> QED BY <1>1, <2>1 DEF UnitsIn
<1> QED BY <1>2, <1>5, <1>6, <1>7, <1>8, <1>9, <1>10

\* What a block of the chart leaves as it is.
LEMMA ChartStatic ==
    ASSUME NEW c, NEW e, NEW sh, NEW u, ReadOk(c, e, sh, u), Reading("data"), t = Chart[fmt],
           Still, cursor' = cursor + 1, t' = t, mem' = mem, dat' = dat
    PROVE  /\ ChartBlock(c, e) /\ cursor' \in 0 .. Len(file')
           /\ TypeIs(c, e)' /\ NoneRefused' /\ MemIs' /\ mem' \in 0 .. MemCap
           /\ DatIs' /\ SpecialIs(sh)' /\ StepNotZero'
<1>1. /\ fmt \in Formats /\ src \in Sources[fmt] /\ phase = "read" /\ code = 0
      /\ Shape(file, c, e) /\ sh \in {0, 2} /\ Ordered(file, edit, c, sh)
      /\ c \in Nat /\ e \in Nat /\ 2 <= c /\ c <= e /\ Len(file) \in Nat
      /\ cursor \in Nat /\ cursor <= Len(file) /\ NoneRefused
      /\ MemIs /\ mem \in 0 .. MemCap
      /\ DatIs /\ SpecialIs(sh) /\ StepNotZero
  BY ReadFacts
<1>2. ChartBlock(c, e) /\ file[cursor + 1].k = "data" /\ cursor + 1 \in 1 .. Len(file) /\ ~InfoAt(file, cursor + 1)
  BY AtData DEF ValueBlock
<1>3. cursor \in c .. e - 1 /\ \A n \in Names \cup {"unknown", "refused"} : file[cursor] # Info(n)
  BY <1>2 DEF ChartBlock
<1>4. /\ \A m : First(m)' = First(m) /\ Keeps(m)' = Keeps(m)
      /\ \A k : InfoAt(file, k)' <=> InfoAt(file, k)
      /\ Names' = Names /\ N' = N /\ fmt' = fmt /\ src' = src /\ file' = file /\ edit' = edit
  BY StillStays DEF Still
<1>5. \A n \in Names : Seen(n)' <=> Seen(n)
  BY <1>1, <1>2, SeenChart
<1>6. TypeIs(c, e)'
  BY <1>2, <1>4 DEF TypeIs
<1>7. NoneRefused'
  <2>1. \A k \in 1 .. cursor' - 1 : k \in 1 .. cursor - 1 \/ k = cursor
    BY <1>1
  <2>2. file[cursor] # Info("refused")
    BY <1>3
  <2> QED BY <1>1, <1>4, <2>1, <2>2 DEF NoneRefused
<1>8. MemIs'
  <2>1. {"Position", "DevInfo", "RegInfo"} \subseteq Names
    BY <1>1, NamesAre
  <2>2. /\ MemOf("Position")' = MemOf("Position") /\ MemOf("DevInfo")' = MemOf("DevInfo")
        /\ MemOf("RegInfo")' = MemOf("RegInfo")
    BY <1>5, <2>1 DEF MemOf
  <2>3. ~InfoAt(file, cursor)'
    BY <1>2, <1>4
  <2> QED BY <1>1, <1>4, <2>2, <2>3 DEF MemIs
<1>9. DatIs'
  BY <1>1, <1>4, <1>5 DEF DatIs
<1>10. SpecialIs(sh)'
  <2> SUFFICES ASSUME InOrder(edit), NEW i \in 1 .. N, NamesOf(fmt)[i] \in Special
               PROVE  dat[NamesOf(fmt)[i]] \in Keeps(NamesOf(fmt)[i])
    BY <1>4 DEF SpecialIs, Special, Positions
  <2>1. 2 * i + sh + 1 < c
    BY <1>1 DEF Ordered
  <2>2. cursor >= 2 * i + sh + 1
    <3>1. 2 * i + sh \in Nat
      BY <1>1, NamesAre, SMTT(30)
    <3> QED BY <1>1, <1>3, <2>1, <3>1
  <2> QED BY <1>1, <2>2 DEF SpecialIs
<1>11. StepNotZero'
  <2> SUFFICES ASSUME fmt = "dyn" PROVE Seen("MaxWeight")' <=> Seen("MaxWeight")
    BY <1>1, <1>4 DEF StepNotZero
  <2>1. "MaxWeight" \in Names
    BY <1>1, SpecialNames DEF Weights
  <2> QED BY <1>5, <2>1
<1>12. cursor' \in 0 .. Len(file')
  BY <1>1, <1>2, <1>4
<1> QED BY <1>1, <1>2, <1>6, <1>7, <1>8, <1>9, <1>10, <1>11, <1>12

\* How many points of a block there is room for.
LEMMA RoomIs ==
    ASSUME NEW r \in Seq(Unit), Block \in Seq(Unit), PointsIs(r)
    PROVE  /\ Room \in Nat /\ Room <= Len(Block) /\ Len(data) \in Nat /\ Len(r) \in Nat /\ Len(Block) \in Nat
           /\ Len(data) <= Len(r) /\ (Room > 0 => Len(data) = Len(r))
           /\ Len(data) + Room = IF Len(r) + Len(Block) <= ArrayLen + 1 THEN Len(r) + Len(Block) ELSE ArrayLen + 1
<1>1. Len(r) \in Nat /\ Len(Block) \in Nat /\ ArrayLen \in Nat
  BY LenProperties, SizesAssumption
<1>2. Len(data) = IF Len(r) <= ArrayLen + 1 THEN Len(r) ELSE ArrayLen + 1
  BY DEF PointsIs
<1> DEFINE d == Len(data)
           b == Len(Block)
           a == Len(r)
<1>3. Room = IF b < ArrayLen + 1 - d THEN b ELSE ArrayLen + 1 - d
  BY DEF Room
<1>4. a \in Nat /\ b \in Nat /\ d = IF a <= ArrayLen + 1 THEN a ELSE ArrayLen + 1
  BY <1>1, <1>2
<1> HIDE DEF d, b, a
<1>5. /\ Room \in Nat /\ Room <= b /\ d \in Nat /\ d <= a /\ (Room > 0 => d = a)
      /\ d + Room = IF a + b <= ArrayLen + 1 THEN a + b ELSE ArrayLen + 1
  <2>1. CASE a <= ArrayLen + 1
    BY <1>1, <1>3, <1>4, <2>1
  <2>2. CASE ~(a <= ArrayLen + 1)
    BY <1>1, <1>3, <1>4, <2>2
  <2> QED BY <2>1, <2>2
<1> QED BY <1>1, <1>5 DEF d, b, a

\* The units of a block behind those before it.
LEMMA UnitNext ==
    ASSUME NEW r \in Seq(Unit), Block \in Seq(Unit), PointsIs(r), NEW k \in 1 .. Room
    PROVE  /\ k \in 1 .. Len(Block) /\ Len(data) + k \in 1 .. Len(r \o Block)
           /\ (r \o Block)[Len(data) + k] = Block[k] /\ Block[k] \in Unit
           /\ k > 1 => k - 1 \in 1 .. Len(Block) /\ (r \o Block)[Len(data) + k - 1] = Block[k - 1]
           /\ k = 1 /\ Len(data) > 0 => (r \o Block)[Len(data) + k - 1] = r[Len(data)]
<1>1. /\ Room \in Nat /\ Room <= Len(Block) /\ Len(data) \in Nat /\ Len(r) \in Nat /\ Len(Block) \in Nat
      /\ Room > 0 => Len(data) = Len(r)
  BY RoomIs
<1>2. /\ Len(r \o Block) = Len(r) + Len(Block)
      /\ \A i \in 1 .. Len(r) + Len(Block) : (r \o Block)[i] = IF i <= Len(r) THEN r[i] ELSE Block[i - Len(r)]
  BY UnitsBehind
<1> DEFINE d == Len(data)
           q == d + k
<1>3. d = Len(r) /\ k \in 1 .. Len(Block) /\ q \in 1 .. Len(r) + Len(Block) /\ ~(q <= Len(r)) /\ q - Len(r) = k
  BY <1>1
<1>4. (r \o Block)[q] = Block[k]
  <2> HIDE DEF q
  <2> QED BY <1>2, <1>3
<1>5. Block[k] \in Unit
  BY <1>3, ElementOfSeq
<1>6. ASSUME k > 1 PROVE k - 1 \in 1 .. Len(Block) /\ (r \o Block)[q - 1] = Block[k - 1]
  <2> DEFINE p == q - 1
  <2>1. k - 1 \in 1 .. Len(Block) /\ p \in 1 .. Len(r) + Len(Block) /\ ~(p <= Len(r)) /\ p - Len(r) = k - 1
    BY <1>1, <1>3, <1>6
  <2> HIDE DEF p
  <2>2. (r \o Block)[p] = Block[k - 1]
    BY <1>2, <2>1
  <2> QED BY <2>1, <2>2 DEF p
<1>7. ASSUME k = 1, d > 0 PROVE (r \o Block)[q - 1] = r[d]
  <2> DEFINE p == q - 1
  <2>1. p = d /\ p \in 1 .. Len(r) + Len(Block) /\ p <= Len(r)
    BY <1>1, <1>3, <1>7
  <2> HIDE DEF p
  <2>2. (r \o Block)[p] = r[p]
    BY <1>2, <2>1
  <2> QED BY <2>1, <2>2 DEF p
<1>8. q \in 1 .. Len(r \o Block)
  BY <1>2, <1>3, Zenon
<1>9. Len(data) + k = q /\ Len(data) + k - 1 = q - 1 /\ Len(data) = d
  BY DEF q, d
<1> HIDE DEF q, d
<1> QED BY <1>3, <1>4, <1>5, <1>6, <1>7, <1>8, <1>9

\* The point before, where the travel begins.
Before(w, q) == IF q = 1 THEN 0 ELSE w[q - 1].x

\* A point of a dynamogram comes back.
LEMMA DynPointBack ==
    ASSUME NEW c, NEW e, NEW sh, NEW u, ReadOk(c, e, sh, u), fmt = "dyn", cursor >= c, InOrder(edit),
           NEW q \in 1 .. Len(src.chart), UnitsOf(u, q), Before(u, q) \in Int
    PROVE  DynStored(u[q].x - Before(u, q), u[q].y) = Back(src.chart[q])
<1>1. /\ fmt \in Formats /\ src \in Sources[fmt] /\ Shape(file, c, e) /\ sh \in {0, 2}
      /\ Ordered(file, edit, c, sh) /\ NoneRefused /\ cursor \in 0 .. Len(file) /\ cursor \in Nat
      /\ c \in Nat /\ StepNotZero
  BY ReadFacts
<1>2. \A n \in Names : Seen(n)
  <2> SUFFICES ASSUME NEW i \in 1 .. N PROVE Seen(NamesOf(fmt)[i])
    BY <1>1, NamesAre
  <2>1. 2 * i + sh + 1 < c
    BY <1>1 DEF Ordered
  <2>2. cursor >= 2 * i + sh + 1
    <3>1. 2 * i + sh \in Nat
      BY <1>1, NamesAre
    <3> QED BY <1>1, <2>1, <3>1
  <2> QED BY <1>1, <2>2, PlacedSeen
<1>3. {"LoadStep", "TravelStep", "MaxWeight"} \subseteq Names
  BY <1>1, SpecialNames DEF Weights
<1> DEFINE ts == src.vars["TravelStep"]
           ls == src.vars["LoadStep"]
           p == src.chart[q]
<1>4. dat["TravelStep"] = ts /\ dat["LoadStep"] = ls /\ ts \in Nat /\ ls \in Nat
  BY <1>2, <1>3, StepIs
<1>5. ls # 0
  BY <1>1, <1>2, <1>3 DEF StepNotZero
<1>6. p[1] \in 0 .. 63 /\ p[2] \in 0 .. 1023
  <2>1. src.chart \in Seq(Points(fmt)) /\ Points(fmt) = (0 .. 63) \X (0 .. 1023)
    BY <1>1, SourceIs DEF Points
  <2>2. p \in Points(fmt)
    BY <2>1, ElementOfSeq
  <2> HIDE DEF p
  <2>3. p \in (0 .. 63) \X (0 .. 1023)
    BY <2>1, <2>2, ZenonT(30)
  <2> QED BY <2>3
<1>7. u[q].x - Before(u, q) = Travel(p) /\ u[q].y = p[2] * ls
  <2>1. /\ u[q].x = Before(u, q) + Travel(p)
        /\ u[q].y = p[2] * ls
    BY DEF UnitsOf, Before
  <2>2. Travel(p) \in Int
    <3>0. \A a \in 0 .. 63 : ExtractTravel(a) \in Int
      BY DEF ExtractTravel
    <3>1. ExtractTravel(p[1]) \in Int
      BY <1>6, <3>0, Zenon
    <3> QED BY <1>4, <3>1 DEF Travel
  <2> DEFINE v == Travel(p)
             b == Before(u, q)
  <2> HIDE DEF v, b
  <2>3. (b + v) - b = v
    BY <2>2 DEF b, v
  <2> QED BY <2>1, <2>3 DEF b, v
<1>8. Travel(p) = ExtractTravel(p[1]) * ts
  BY DEF Travel
<1>9. Back(p) = <<IF ts = 0 THEN 0 ELSE p[1], p[2] % 64>>
  BY DEF Back
<1> HIDE DEF p, ts, ls
<1>10. ((p[2] * ls) \div ls) % 64 = p[2] % 64
  <2>0. (0 .. 1023) \subseteq Int
    OBVIOUS
  <2>1. p[2] \in Int /\ ls \in Nat \ {0}
    BY <1>4, <1>5, <1>6, <2>0, ZenonT(30)
  <2>2. (p[2] * ls) \div ls = p[2]
    BY <2>1, StepsBack, Zenon
  <2> QED BY <2>2
<1>11. ts # 0 => ((ExtractTravel(p[1]) * ts) \div ts) % 64 = p[1]
  BY <1>4, <1>6, TravelStepsBack
<1>12. DynStored(Travel(p), p[2] * ls) = <<IF ts = 0 THEN 0 ELSE (Travel(p) \div ts) % 64,
                                          IF ls = 0 THEN 0 ELSE ((p[2] * ls) \div ls) % 64>>
  BY <1>4 DEF DynStored
<1>13. DynStored(Travel(p), p[2] * ls) = Back(p)
  BY <1>5, <1>8, <1>9, <1>10, <1>11, <1>12
<1> QED BY <1>7, <1>13 DEF p

\* What is stored of a dynamogram are numbers.
LEMMA DynStoredIs ==
    ASSUME NEW c, NEW e, NEW sh, NEW u, ReadOk(c, e, sh, u), fmt = "dyn", NEW x \in Int, NEW y \in Int
    PROVE  DynStored(x, y) \in Int \X Int
<1>1. dat["TravelStep"] \in Nat /\ dat["LoadStep"] \in Nat
  BY StepIs
<1>2. \A v \in Int : \A s \in Nat : s # 0 => (v \div s) % 64 \in Int
  OBVIOUS
<1> QED BY <1>1, <1>2 DEF DynStored

\* What the first units of the chart are kept as.
Stored(w, q) ==
    IF fmt = "dyn" THEN DynStored(w[q].x - Before(w, q), w[q].y) ELSE EchoStored(w[q])

\* What a unit of the chart is stored as is what the point comes back as, when the steps were read before.
LEMMA StoredIs ==
    ASSUME NEW c, NEW e, NEW sh, NEW u, ReadOk(c, e, sh, u), fmt # "dat", cursor >= c,
           NEW w \in Seq(Unit), Begins(w, u), IsUnits(u, Len(src.chart)), NEW q \in 1 .. Len(w)
    PROVE  /\ Stored(w, q) \in IF fmt = "dyn" THEN Int \X Int ELSE Int
           /\ q <= Len(src.chart) /\ (InOrder(edit) \/ fmt # "dyn") => Stored(w, q) = Back(src.chart[q])
<1>1. fmt \in Formats /\ src \in Sources[fmt] /\ fmt \in {"dyn", "echo"}
  BY ReadFacts, NamesAre
<1>2. /\ Len(w) \in Nat /\ Len(w) <= Len(u) /\ \A i \in 1 .. Len(w) : w[i] = u[i]
      /\ \A i \in 1 .. Len(w) : w[i] \in Unit
  BY LenProperties, ElementOfSeq DEF Begins
<1>3. \A k \in 1 .. Len(src.chart) : UnitsOf(u, k)
  BY DEF IsUnits
<1>4. Len(src.chart) \in Nat
  BY <1>1, SourceIs
<1>5. q <= Len(src.chart) => q \in 1 .. Len(src.chart)
  BY <1>2, <1>4
<1>6. CASE fmt = "dyn"
  <2>1. Unit = [x : Int, y : Int]
    BY <1>6 DEF Unit
  <2>2. w[q].x \in Int /\ w[q].y \in Int /\ w[q] = u[q]
    BY <1>2, <2>1
  <2>3. Before(w, q) \in Int /\ Before(w, q) = Before(u, q)
    <3>1. CASE q = 1
      BY <3>1 DEF Before
    <3>2. CASE q # 1
      <4>1. q - 1 \in 1 .. Len(w)
        BY <1>2, <3>2
      <4>2. w[q - 1].x \in Int /\ w[q - 1] = u[q - 1]
        BY <1>2, <2>1, <4>1
      <4> QED BY <3>2, <4>2 DEF Before
    <3> QED BY <3>1, <3>2
  <2>4. Stored(w, q) = DynStored(w[q].x - Before(w, q), w[q].y)
    BY <1>6 DEF Stored
  <2>5. w[q].x - Before(w, q) \in Int
    BY <2>2, <2>3
  <2>6. DynStored(w[q].x - Before(w, q), w[q].y) \in Int \X Int
    BY <1>6, <2>2, <2>5, DynStoredIs
  <2>7. ASSUME q <= Len(src.chart), InOrder(edit) PROVE Stored(w, q) = Back(src.chart[q])
    <3>1. q \in 1 .. Len(src.chart) /\ UnitsOf(u, q)
      BY <1>3, <1>5, <2>7
    <3>2. DynStored(u[q].x - Before(u, q), u[q].y) = Back(src.chart[q])
      BY <1>6, <2>3, <2>7, <3>1, DynPointBack
    <3> QED BY <2>2, <2>3, <2>4, <3>2
  <2> QED BY <1>6, <2>4, <2>6, <2>7
<1>7. CASE fmt = "echo"
  <2>1. Unit = Int /\ w[q] \in Int /\ w[q] = u[q] /\ Stored(w, q) = EchoStored(w[q])
    BY <1>2, <1>7 DEF Unit, Stored
  <2>2. EchoStored(w[q]) \in Int
    BY <2>1 DEF EchoStored
  <2>3. ASSUME q <= Len(src.chart) PROVE Stored(w, q) = Back(src.chart[q])
    <3>1. q \in 1 .. Len(src.chart) /\ UnitsOf(u, q)
      BY <1>3, <1>5, <2>3
    <3>2. u[q] = EchoPoint(src.chart[q])[1]
      BY <1>7, <3>1 DEF UnitsOf
    <3>3. src.chart \in Seq(Points(fmt)) /\ Points(fmt) = 0 .. 255
      BY <1>1, <1>7, SourceIs DEF Points
    <3>4. src.chart[q] \in 0 .. 255
      BY <3>1, <3>3, ElementOfSeq
    <3>5. EchoStored(EchoPoint(src.chart[q])[1]) = src.chart[q]
      BY <3>4, EchoBack
    <3>6. Back(src.chart[q]) = src.chart[q]
      BY <1>7 DEF Back
    <3> QED BY <2>1, <3>2, <3>5, <3>6
  <2> QED BY <1>7, <2>1, <2>2, <2>3
<1> QED BY <1>1, <1>6, <1>7

\* The units from which the points of a block are counted.
From(k) == IF k = 0 THEN last ELSE Block[k].x
StoredNow(k) == IF fmt = "dyn" THEN DynStored(From(k) - From(k - 1), Block[k].y) ELSE EchoStored(Block[k])

\* They are kept as those of the chart are.
LEMMA StoredNext ==
    ASSUME fmt \in Formats, NEW r \in Seq(Unit), Block \in Seq(Unit), PointsIs(r), NEW k \in 1 .. Room
    PROVE  StoredNow(k) = Stored(r \o Block, Len(data) + k)
<1>1. /\ k \in 1 .. Len(Block) /\ Len(data) + k \in 1 .. Len(r \o Block)
      /\ (r \o Block)[Len(data) + k] = Block[k] /\ Block[k] \in Unit
      /\ k > 1 => k - 1 \in 1 .. Len(Block) /\ (r \o Block)[Len(data) + k - 1] = Block[k - 1]
      /\ k = 1 /\ Len(data) > 0 => (r \o Block)[Len(data) + k - 1] = r[Len(data)]
  BY UnitNext
<1>2. Len(data) \in Nat /\ Len(Block) \in Nat
  BY RoomIs
<1> DEFINE w == r \o Block
           q == Len(data) + k
<1>3. w[q] = Block[k]
  BY <1>1
<1>4. fmt = "dyn" => From(k) = w[q].x
  <2>1. k # 0
    BY <1>1, <1>2
  <2> QED BY <1>3, <2>1 DEF From
<1>5. fmt = "dyn" => From(k - 1) = Before(w, q)
  <2> SUFFICES ASSUME fmt = "dyn" PROVE From(k - 1) = Before(w, q)
    OBVIOUS
  <2>1. CASE k > 1
    <3>1. k - 1 # 0 /\ q # 1
      BY <1>1, <1>2, <2>1
    <3>2. w[q - 1] = Block[k - 1]
      BY <1>1, <2>1
    <3> QED BY <3>1, <3>2 DEF From, Before
  <2>2. CASE k = 1 /\ Len(data) > 0
    <3>1. k - 1 = 0 /\ q # 1
      BY <1>2, <2>2
    <3>2. w[q - 1] = r[Len(data)]
      BY <1>1, <2>2
    <3>3. last = r[Len(data)].x
      BY <2>2 DEF PointsIs
    <3> QED BY <3>1, <3>2, <3>3 DEF From, Before
  <2>3. CASE k = 1 /\ Len(data) = 0
    <3>1. k - 1 = 0 /\ q = 1
      BY <1>2, <2>3
    <3>2. last = 0
      BY <2>3 DEF PointsIs
    <3> QED BY <3>1, <3>2 DEF From, Before
  <2> QED BY <1>1, <1>2, <2>1, <2>2, <2>3
<1> HIDE DEF w, q
<1>6. StoredNow(k) = Stored(w, q)
  BY <1>3, <1>4, <1>5 DEF StoredNow, Stored
<1> QED BY <1>6 DEF w, q

\* What is kept of a block, of which w are the units so far.
Keeping(r, w) ==
    /\ w = r \o Block /\ data' = data \o [k \in 1 .. Room |-> StoredNow(k)]
    /\ last' = (IF fmt = "dyn" THEN From(Room) ELSE last) /\ part' = part

\* A chart is kept as long as there is room for its points.
LEMMA PointsMore ==
    ASSUME NEW c, NEW e, NEW sh, NEW u, ReadOk(c, e, sh, u), fmt # "dat", cursor >= c, Still,
           NEW r \in Seq(Unit), Block \in Seq(Unit), PointsIs(r),
           NEW w, Keeping(r, w), Begins(w, u), IsUnits(u, Len(src.chart))
    PROVE  PointsIs(w)'
<1> DEFINE P == IF fmt = "dyn" THEN Int \X Int ELSE Int
           new == [k \in 1 .. Room |-> StoredNow(k)]
<1>1. fmt \in Formats /\ src \in Sources[fmt] /\ fmt \in {"dyn", "echo"}
  BY ReadFacts, NamesAre
<1>2. /\ Room \in Nat /\ Room <= Len(Block) /\ Len(data) \in Nat /\ Len(r) \in Nat /\ Len(Block) \in Nat
      /\ Len(data) <= Len(r) /\ (Room > 0 => Len(data) = Len(r))
      /\ Len(data) + Room = IF Len(r) + Len(Block) <= ArrayLen + 1 THEN Len(r) + Len(Block) ELSE ArrayLen + 1
  BY RoomIs
<1>3. /\ data \in Seq(P) /\ part = <<>> /\ last \in Int
      /\ \A k \in 1 .. Len(data) : k <= Len(src.chart) /\ (InOrder(edit) \/ fmt # "dyn") =>
            data[k] = Back(src.chart[k])
      /\ fmt = "dyn" => last = IF Len(data) = 0 THEN 0 ELSE r[Len(data)].x
  BY DEF PointsIs
<1>4. /\ w \in Seq(Unit) /\ Len(w) = Len(r) + Len(Block)
      /\ \A i \in 1 .. Len(r) + Len(Block) : w[i] = IF i <= Len(r) THEN r[i] ELSE Block[i - Len(r)]
  BY UnitsBehind DEF Keeping
<1>5. ASSUME NEW k \in 1 .. Room
      PROVE  /\ StoredNow(k) \in P
             /\ Len(data) + k <= Len(src.chart) /\ (InOrder(edit) \/ fmt # "dyn") =>
                  StoredNow(k) = Back(src.chart[Len(data) + k])
  <2> DEFINE q == Len(data) + k
  <2>1. q \in 1 .. Len(w)
    BY UnitNext DEF Keeping
  <2>2. StoredNow(k) = Stored(w, q)
    BY <1>1, StoredNext DEF Keeping
  <2>3. Begins(w, u)
    OBVIOUS
  <2> HIDE DEF q
  <2>4. Stored(w, q) \in P /\ (q <= Len(src.chart) /\ (InOrder(edit) \/ fmt # "dyn") => Stored(w, q) = Back(src.chart[q]))
    BY <1>4, <2>1, <2>3, StoredIs
  <2> HIDE DEF P
  <2>5. StoredNow(k) \in P /\ (q <= Len(src.chart) /\ (InOrder(edit) \/ fmt # "dyn") => StoredNow(k) = Back(src.chart[q]))
    BY <2>2, <2>4
  <2> QED BY <2>5 DEF q
<1> HIDE DEF P
<1>6. /\ new \in Seq(P) /\ Len(new) = Room /\ \A k \in 1 .. Room : new[k] = StoredNow(k)
  BY <1>2, <1>5
<1>7. data' = data \o new /\ part' = part /\ (fmt = "dyn" => last' = From(Room)) /\ (fmt # "dyn" => last' = last)
  BY DEF Keeping
<1> HIDE DEF new
<1>8. /\ data' \in Seq(P) /\ Len(data') = Len(data) + Room
      /\ \A i \in 1 .. Len(data) + Room : data'[i] = IF i <= Len(data) THEN data[i] ELSE new[i - Len(data)]
  <2>1. /\ data \o new \in Seq(P) /\ Len(data \o new) = Len(data) + Len(new)
        /\ \A i \in 1 .. Len(data) + Len(new) :
              (data \o new)[i] = IF i <= Len(data) THEN data[i] ELSE new[i - Len(data)]
    BY <1>3, <1>6, ConcatProperties
  <2> QED BY <1>6, <1>7, <2>1
<1>9. Len(data') = IF Len(w) <= ArrayLen + 1 THEN Len(w) ELSE ArrayLen + 1
  BY <1>2, <1>4, <1>8
<1>10. ASSUME NEW i \in 1 .. Len(data'), i <= Len(src.chart), InOrder(edit) \/ fmt # "dyn"
       PROVE  data'[i] = Back(src.chart[i])
  <2>1. CASE i <= Len(data)
    <3>1. i \in 1 .. Len(data) /\ i \in 1 .. Len(data) + Room
      BY <1>2, <1>8, <2>1
    <3> QED BY <1>3, <1>8, <1>10, <2>1, <3>1
  <2>2. CASE ~(i <= Len(data))
    <3> DEFINE k == i - Len(data)
    <3>1. k \in 1 .. Room /\ i \in 1 .. Len(data) + Room /\ Len(data) + k = i
      BY <1>2, <1>8, <2>2
    <3>2. data'[i] = new[k]
      BY <1>8, <2>2, <3>1
    <3> HIDE DEF k
    <3>3. new[k] = Back(src.chart[i])
      BY <1>5, <1>6, <1>10, <3>1
    <3> QED BY <3>2, <3>3
  <2> QED BY <2>1, <2>2
<1>11. fmt = "dyn" => last' \in Int /\ last' = IF Len(data') = 0 THEN 0 ELSE w[Len(data')].x
  <2> SUFFICES ASSUME fmt = "dyn" PROVE last' \in Int /\ last' = IF Len(data') = 0 THEN 0 ELSE w[Len(data')].x
    OBVIOUS
  <2>1. CASE Room = 0
    <3>1. last' = last /\ Len(data') = Len(data)
      <4>1. last' = last
        BY <1>7, <2>1 DEF From
      <4>2. Len(data') = Len(data)
        BY <1>2, <1>8, <2>1
      <4> QED BY <4>1, <4>2
    <3>2. ASSUME Len(data) # 0 PROVE w[Len(data)] = r[Len(data)]
      <4>1. Len(data) \in 1 .. Len(r) + Len(Block) /\ Len(data) <= Len(r)
        BY <1>2, <3>2
      <4> QED BY <1>4, <4>1
    <3> QED BY <1>3, <3>1, <3>2
  <2>2. CASE Room # 0
    <3>1. Room \in 1 .. Room
      BY <1>2, <2>2
    <3>2. w[Len(data) + Room] = Block[Room] /\ Block[Room] \in Unit /\ Len(data) + Room # 0
      BY <1>2, <2>2, <3>1, UnitNext DEF Keeping
    <3>3. last' = Block[Room].x
      BY <1>7, <2>2 DEF From
    <3>4. Block[Room].x \in Int
      BY <3>2 DEF Unit
    <3> QED BY <1>8, <3>2, <3>3, <3>4
  <2> QED BY <2>1, <2>2
<1>12. last' \in Int
  BY <1>3, <1>7, <1>11
<1>13. fmt' = fmt /\ src' = src /\ edit' = edit /\ Unit' = Unit /\ \A p : Back(p)' = Back(p)
  BY StillStays DEF Still
<1>14. /\ data' \in Seq(IF fmt' = "dyn" THEN Int \X Int ELSE Int) /\ part' = <<>>
  BY <1>3, <1>7, <1>8, <1>13 DEF P
<1>15. fmt' = "dyn" => last' = IF Len(data') = 0 THEN 0 ELSE w[Len(data')].x
  BY <1>11, <1>13
<1>16. \A k \in 1 .. Len(data') : k <= Len(src'.chart) /\ (InOrder(edit)' \/ fmt' # "dyn") => data'[k] = Back(src.chart[k])'
  BY <1>10, <1>13 DEF InOrder
<1> QED BY <1>9, <1>12, <1>14, <1>15, <1>16 DEF PointsIs

\* The points of a block.
LEMMA PointsKeep ==
    ASSUME NEW c, NEW e, NEW sh, NEW u, ReadOk(c, e, sh, u), ReadPoints
    PROVE  ReaderIs(c, e, sh)'
<1>1. fmt # "dat" /\ fmt \in Formats /\ phase = "read" /\ code = 0 /\ HeadIs(c, e) /\ DataIs(ReadUnits(c, e))
  BY ReadFacts DEF ReadPoints
<1>2. /\ Still /\ phase' = phase /\ cursor' = cursor + 1 /\ t' = t /\ mem' = mem /\ dat' = dat
      /\ head' = head /\ code' = code /\ Reading("data") /\ t = Chart[fmt]
  BY DEF ReadPoints, Still, srcVars, writeVars
<1>3. /\ ChartBlock(c, e) /\ cursor' \in 0 .. Len(file')
      /\ TypeIs(c, e)' /\ NoneRefused' /\ MemIs' /\ mem' \in 0 .. MemCap
      /\ DatIs' /\ SpecialIs(sh)' /\ StepNotZero'
  BY <1>2, ChartStatic
<1>4. cursor < Len(file) /\ cursor >= c
  <2>1. c \in Nat /\ cursor \in Nat /\ e \in Nat
    BY ReadFacts
  <2> QED BY <1>2, <1>3, <2>1 DEF Reading, ChartBlock
<1> DEFINE r == ReadUnits(c, e)
<1>5. /\ ReadUnits(c, e)' = r \o Block /\ r \in Seq(Unit) /\ Block \in Seq(Unit)
      /\ Begins(r \o Block, u) /\ IsUnits(u, Len(src.chart))
  BY <1>2, <1>3, <1>4, UnitsNext
<1>6. PointsIs(r)
  BY <1>1 DEF DataIs
<1>7. Keeping(r, r \o Block)
  BY DEF ReadPoints, Keeping, StoredNow, From
<1> HIDE DEF r
<1>12. PICK w : Keeping(r, w) /\ Begins(w, u) /\ ReadUnits(c, e)' = w
  BY <1>5, <1>7
<1>8. PointsIs(w)'
  BY <1>1, <1>2, <1>4, <1>5, <1>6, <1>12, PointsMore
<1>9. DataIs(ReadUnits(c, e))'
  <2>1. fmt' # "dat"
    BY <1>1, <1>2 DEF Still
  <2> QED BY <1>8, <1>12, <2>1 DEF DataIs, PointsIs
<1>10. HeadIs(c, e)'
  <2>1. ~head.written
    BY <1>1 DEF HeadIs
  <2>2. head.written \in BOOLEAN /\ fmt' # "dat"
    BY <1>1, <1>2 DEF HeadIs, Still
  <2> QED BY <1>2, <2>1, <2>2 DEF HeadIs
<1>11. CodeTells' /\ CrashesOnlyFor'
  BY <1>1, <1>2 DEF CodeTells, CrashesOnlyFor
<1> QED BY <1>1, <1>2, <1>3, <1>9, <1>10, <1>11 DEF ReaderIs

\* Whole records, and what is left.
LEMMA Whole4 ==
    ASSUME NEW n \in Nat
    PROVE  n \div 4 \in Nat /\ 4 * (n \div 4) <= n /\ n - 4 * (n \div 4) \in 0 .. 3
OBVIOUS

\* A stretch of a sequence, as a fact with a name.
HasPiece(T, s, r, m, n) ==
    /\ r \in Seq(T) /\ Len(r) = n - m + 1
    /\ \A i \in 1 .. n - m + 1 : r[i] = s[m + i - 1]
\* A stretch of a sequence has the items of the stretch.
LEMMA StretchIs ==
    ASSUME NEW T, NEW s \in Seq(T), NEW m \in Nat \ {0}, NEW n \in 0 .. Len(s), m <= n + 1
    PROVE  HasPiece(T, s, SubSeq(s, m, n), m, n)
BY PieceIs DEF HasPiece

\* A piece of RecItems items is a record.
LEMMA RecordPiece ==
    ASSUME NEW s \in Seq(Int), NEW m \in Nat, m + 4 <= Len(s)
    PROVE  /\ SubSeq(s, m + 1, m + 4) \in [1 .. 4 -> Int]
           /\ \A i \in 1 .. 4 : SubSeq(s, m + 1, m + 4)[i] = s[m + i]
<1> DEFINE a == m + 1
           b == m + 4
<1>1. Len(s) \in Nat
  BY LenProperties
<1>2. a \in Nat \ {0} /\ b \in 0 .. Len(s) /\ a <= b + 1 /\ b - a + 1 = 4 /\ \A i \in 1 .. 4 : a + i - 1 = m + i
  BY <1>1
<1> HIDE DEF a, b
<1>3. /\ SubSeq(s, a, b) \in Seq(Int) /\ Len(SubSeq(s, a, b)) = b - a + 1
      /\ \A i \in 1 .. b - a + 1 : SubSeq(s, a, b)[i] = s[a + i - 1]
  <2>1. HasPiece(Int, s, SubSeq(s, a, b), a, b)
    BY <1>2, StretchIs, Zenon
  <2> QED BY <2>1, Zenon DEF HasPiece
<1> DEFINE x == SubSeq(s, a, b)
<1>4. x \in Seq(Int) /\ Len(x) = 4 /\ \A i \in 1 .. 4 : x[i] = s[m + i]
  BY <1>2, <1>3
<1> HIDE DEF x
<1>5. x \in [1 .. Len(x) -> Int]
  BY <1>4, LenProperties
<1>6. x \in [1 .. 4 -> Int] /\ \A i \in 1 .. 4 : x[i] = s[m + i]
  BY <1>4, <1>5
<1> QED BY <1>6 DEF x, a, b

\* Items that come in blocks of any length, put together to records.
Putting(r, w) ==
    /\ w = r \o Block /\ part \in Seq(Int) /\ Block \in Seq(Int)
    /\ data' = data \o [k \in 1 .. Len(Pending) \div 4 |-> SubSeq(Pending, 4 * (k - 1) + 1, 4 * k)]
    /\ part' = SubSeq(Pending, 4 * (Len(Pending) \div 4) + 1, Len(Pending))

\* What precord has and the block are the units behind the whole records.
LEMMA PendingIs ==
    ASSUME NEW r \in Seq(Unit), NEW w, RecordsIs(r), fmt = "dat", Putting(r, w)
    PROVE  /\ Pending \in Seq(Int) /\ Len(Pending) \in Nat /\ Len(data) \in Nat /\ w \in Seq(Int)
           /\ Len(w) = 4 * Len(data) + Len(Pending) /\ Len(r) = 4 * Len(data) + Len(part) /\ Len(part) \in Nat
           /\ \A i \in 1 .. Len(Pending) : Pending[i] = w[4 * Len(data) + i]
           /\ \A i \in 1 .. Len(r) : w[i] = r[i]
<1>1. /\ data \in Seq([1 .. RecItems -> Int]) /\ part \in Seq(Int) /\ Block \in Seq(Int) /\ r \in Seq(Int)
      /\ Len(r) = 4 * Len(data) + Len(part) /\ Unit = Int /\ w = r \o Block
      /\ \A i \in 1 .. Len(part) : part[i] = r[4 * Len(data) + i]
  BY DEF RecordsIs, Putting, Unit, RecItems
<1>2. Len(data) \in Nat /\ Len(part) \in Nat /\ Len(Block) \in Nat /\ Len(r) \in Nat
  BY <1>1, LenProperties
<1>3. /\ part \o Block \in Seq(Int) /\ Len(part \o Block) = Len(part) + Len(Block)
      /\ \A i \in 1 .. Len(part) + Len(Block) :
           (part \o Block)[i] = IF i <= Len(part) THEN part[i] ELSE Block[i - Len(part)]
  BY <1>1, ConcatProperties
<1>4. /\ r \o Block \in Seq(Int) /\ Len(r \o Block) = Len(r) + Len(Block)
      /\ \A i \in 1 .. Len(r) + Len(Block) :
           (r \o Block)[i] = IF i <= Len(r) THEN r[i] ELSE Block[i - Len(r)]
  <2>1. r \in Seq(Int) /\ Block \in Seq(Int)
    BY <1>1
  <2> QED BY <2>1, ConcatProperties, ZenonT(30)
<1>5. Pending = part \o Block
  BY DEF Pending
<1>6. ASSUME NEW i \in 1 .. Len(Pending) PROVE Pending[i] = w[4 * Len(data) + i]
  <2> DEFINE d == 4 * Len(data)
             q == d + i
  <2>1. i \in 1 .. Len(part) + Len(Block) /\ d \in Nat /\ Len(r) = d + Len(part) /\ q = d + i
    BY <1>1, <1>2, <1>3, <1>5
  <2>2. \A j \in 1 .. Len(part) : part[j] = r[d + j]
    BY <1>1
  <2> HIDE DEF d
  <2>3. q \in 1 .. Len(r) + Len(Block) /\ (q <= Len(r) <=> i <= Len(part)) /\ q - Len(r) = i - Len(part)
    BY <1>2, <2>1
  <2> HIDE DEF q
  <2>4. w[q] = IF i <= Len(part) THEN r[q] ELSE Block[i - Len(part)]
    BY <1>1, <1>4, <2>3
  <2>5. i <= Len(part) => part[i] = r[q]
    BY <1>2, <2>1, <2>2
  <2>6. Pending[i] = IF i <= Len(part) THEN part[i] ELSE Block[i - Len(part)]
    BY <1>3, <1>5, <2>1
  <2>7. Pending[i] = w[q]
    BY <2>4, <2>5, <2>6
  <2> QED BY <2>7 DEF q, d
<1>7. \A i \in 1 .. Len(r) : w[i] = r[i]
  BY <1>1, <1>2, <1>4
<1>8. Len(w) = 4 * Len(data) + Len(Pending) /\ Len(Pending) \in Nat
  BY <1>1, <1>2, <1>3, <1>4, <1>5
<1> QED BY <1>1, <1>2, <1>3, <1>4, <1>5, <1>6, <1>7, <1>8

\* Whole records made of a block and what the last one left are the first records of the chart.
LEMMA RecordsMore ==
    ASSUME NEW r \in Seq(Unit), NEW w, RecordsIs(r), fmt = "dat", Still, Putting(r, w)
    PROVE  RecordsIs(w)'
<1> DEFINE R == [1 .. 4 -> Int]
           full == Len(Pending) \div 4
           new == [k \in 1 .. full |-> SubSeq(Pending, 4 * (k - 1) + 1, 4 * k)]
           d == Len(data)
<1>1. /\ Pending \in Seq(Int) /\ Len(Pending) \in Nat /\ d \in Nat /\ w \in Seq(Int)
      /\ Len(w) = 4 * d + Len(Pending) /\ Len(r) = 4 * d + Len(part) /\ Len(part) \in Nat
      /\ \A i \in 1 .. Len(Pending) : Pending[i] = w[4 * d + i]
      /\ \A i \in 1 .. Len(r) : w[i] = r[i]
  BY PendingIs
<1>2. full \in Nat /\ 4 * full <= Len(Pending) /\ Len(Pending) - 4 * full \in 0 .. 3
  BY <1>1, Whole4
<1>3. data \in Seq(R) /\ \A k \in 1 .. d : \A i \in 1 .. 4 : data[k][i] = r[4 * (k - 1) + i]
  BY DEF RecordsIs, RecItems
<1>4. data' = data \o new /\ part' = SubSeq(Pending, 4 * full + 1, Len(Pending))
  BY DEF Putting
<1>5. ASSUME NEW k \in 1 .. full
      PROVE  /\ SubSeq(Pending, 4 * (k - 1) + 1, 4 * k) \in R
             /\ \A i \in 1 .. 4 : SubSeq(Pending, 4 * (k - 1) + 1, 4 * k)[i] = w[4 * (d + k - 1) + i]
  <2> DEFINE m == 4 * (k - 1)
  <2>1. m \in Nat /\ m + 4 = 4 * k /\ 4 * k <= 4 * full /\ 4 * (d + k - 1) = 4 * d + m
    BY <1>1, <1>2
  <2>2. m + 4 <= Len(Pending)
    BY <1>1, <1>2, <2>1
  <2> HIDE DEF m
  <2>3. /\ SubSeq(Pending, m + 1, m + 4) \in [1 .. 4 -> Int]
        /\ \A i \in 1 .. 4 : SubSeq(Pending, m + 1, m + 4)[i] = Pending[m + i]
    BY <1>1, <2>1, <2>2, RecordPiece
  <2>4. ASSUME NEW i \in 1 .. 4 PROVE Pending[m + i] = w[4 * (d + k - 1) + i]
    <3> DEFINE z == Len(Pending)
    <3>0. z \in Nat /\ m + 4 <= z /\ d \in Nat
      BY <1>1, <2>2
    <3> HIDE DEF z, d
    <3>1. m + i \in 1 .. z
      BY <2>1, <3>0
    <3>2. 4 * d + (m + i) = 4 * (d + k - 1) + i
      BY <2>1, <3>0
    <3> USE DEF z, d
    <3>3. Pending[m + i] = w[4 * d + (m + i)]
      BY <1>1, <3>1
    <3> QED BY <3>2, <3>3
  <2>5. SubSeq(Pending, 4 * (k - 1) + 1, 4 * k) = SubSeq(Pending, m + 1, m + 4)
    BY <2>1 DEF m
  <2> QED BY <2>3, <2>4, <2>5
<1> HIDE DEF R
<1>6. new \in Seq(R) /\ Len(new) = full /\ \A k \in 1 .. full : \A i \in 1 .. 4 : new[k][i] = w[4 * (d + k - 1) + i]
  BY <1>2, <1>5
<1> HIDE DEF new, full
<1>7. /\ data' \in Seq(R) /\ Len(data') = d + full
      /\ \A i \in 1 .. d + full : data'[i] = IF i <= d THEN data[i] ELSE new[i - d]
  <2>1. /\ data \o new \in Seq(R) /\ Len(data \o new) = Len(data) + Len(new)
        /\ \A i \in 1 .. Len(data) + Len(new) :
              (data \o new)[i] = IF i <= Len(data) THEN data[i] ELSE new[i - Len(data)]
    BY <1>3, <1>6, ConcatProperties
  <2> QED BY <1>4, <1>6, <2>1
<1> HIDE DEF d
<1>8. /\ part' \in Seq(Int) /\ Len(part') = Len(Pending) - 4 * full
      /\ \A i \in 1 .. Len(Pending) - 4 * full : part'[i] = Pending[4 * full + i]
  <2> DEFINE a == 4 * full + 1
             b == Len(Pending)
  <2>1. a \in Nat \ {0} /\ b \in 0 .. Len(Pending) /\ a <= b + 1 /\ b - a + 1 = Len(Pending) - 4 * full
        /\ \A i \in 1 .. Len(Pending) - 4 * full : a + i - 1 = 4 * full + i
    BY <1>1, <1>2
  <2> HIDE DEF a, b
  <2>4. Pending \in Seq(Int)
    BY <1>1
  <2>2. /\ SubSeq(Pending, a, b) \in Seq(Int) /\ Len(SubSeq(Pending, a, b)) = b - a + 1
        /\ \A i \in 1 .. b - a + 1 : SubSeq(Pending, a, b)[i] = Pending[a + i - 1]
    BY <2>1, <2>4, PieceIs
  <2>3. part' = SubSeq(Pending, a, b)
    BY <1>4 DEF a, b
  <2> QED BY <2>1, <2>2, <2>3
<1>9. Len(part') < 4 /\ Len(w) = 4 * Len(data') + Len(part')
  <2> DEFINE z == Len(Pending)
  <2>1. z \in Nat /\ Len(w) = 4 * d + z /\ Len(part') = z - 4 * full /\ z - 4 * full \in 0 .. 3 /\ full \in Nat
        /\ Len(data') = d + full
    BY <1>1, <1>2, <1>7, <1>8
  <2>2. d \in Nat
    BY <1>1
  <2> HIDE DEF z
  <2>3. Len(part') < 4
    BY <2>1
  <2>4. 4 * d + z = 4 * (d + full) + (z - 4 * full)
    BY <2>1, <2>2
  <2> QED BY <2>1, <2>3, <2>4
<1>10. ASSUME NEW k \in 1 .. Len(data'), NEW i \in 1 .. 4 PROVE data'[k][i] = w[4 * (k - 1) + i]
  <2>1. k \in 1 .. d + full /\ k \in Nat
    BY <1>1, <1>2, <1>7
  <2>2. CASE k <= d
    <3>1. k \in 1 .. d /\ data'[k] = data[k]
      BY <1>1, <1>7, <2>1, <2>2
    <3>2. data[k][i] = r[4 * (k - 1) + i]
      BY <1>3, <3>1
    <3> DEFINE z == Len(r)
    <3>4. z = 4 * d + Len(part) /\ Len(part) \in Nat /\ d \in Nat
      BY <1>1
    <3> HIDE DEF z
    <3>5. 4 * (k - 1) + i \in 1 .. z
      BY <3>1, <3>4
    <3>3. 4 * (k - 1) + i \in 1 .. Len(r)
      BY <3>5 DEF z
    <3> QED BY <1>1, <3>1, <3>2, <3>3
  <2>3. CASE ~(k <= d)
    <3> DEFINE j == k - d
    <3>1. j \in 1 .. full /\ data'[k] = new[j] /\ d + j - 1 = k - 1
      BY <1>1, <1>2, <1>7, <2>1, <2>3, SMTT(60)
    <3> HIDE DEF j
    <3>2. new[j][i] = w[4 * (d + j - 1) + i]
      BY <1>6, <3>1
    <3> QED BY <3>1, <3>2
  <2> QED BY <2>2, <2>3
<1>11. ASSUME NEW i \in 1 .. Len(part') PROVE part'[i] = w[4 * Len(data') + i]
  <2>1. 4 * full + i \in 1 .. Len(Pending) /\ i \in 1 .. Len(Pending) - 4 * full
        /\ 4 * d + (4 * full + i) = 4 * Len(data') + i
    BY <1>1, <1>2, <1>7, <1>8
  <2>2. Pending[4 * full + i] = w[4 * d + (4 * full + i)]
    BY <1>1, <2>1
  <2> QED BY <1>8, <2>1, <2>2
<1>12. Unit' = Int /\ RecItems = 4
  BY DEF Still, Unit, RecItems
<1> QED BY <1>7, <1>8, <1>9, <1>10, <1>11, <1>12 DEF RecordsIs, R

\* The variables that have come before the first record have come back.
LEMMA FirstRecord ==
    ASSUME NEW c, NEW e, NEW sh, NEW u, ReadOk(c, e, sh, u), fmt = "dat", cursor = c, cursor < Len(file),
           Restores, NEW n \in DOMAIN src.vars
    PROVE  dat[n] \in IF Late(n) THEN {0, FileType[fmt]} ELSE Kept(n)
<1>1. /\ fmt \in Formats /\ src \in Sources[fmt] /\ Shape(file, c, e) /\ c \in Nat /\ 2 <= c /\ e \in Nat
      /\ Len(file) \in Nat /\ DatIs /\ Complete(file, edit, c, e, u) /\ All(file, edit)
  BY ReadFacts DEF ReadOk, FileIs
<1>2. n \in Names /\ n # "Discrete"
  BY <1>1, SourceIs
<1>3. n \notin Special
  BY <1>1, <1>2, SpecialNames
<1>4. dat[n] \in IF Seen(n) THEN Keeps(n) ELSE {First(n)}
  BY <1>1, <1>2, <1>3 DEF DatIs
<1>5. ChartAt(file) = c /\ c \in 1 .. Len(file)
  <2>1. c <= Len(file)
    BY <1>1
  <2>2. \A k : Occ(file, k, Chart[fmt]) <=> k = c
    BY <1>1, <2>1, ChartFound
  <2>3. ChartAt(file) = c
    BY <2>2, ChartPlace
  <2>4. c \in 1 .. Len(file)
    BY <1>1, <2>1
  <2> QED BY <2>3, <2>4
<1>6. \A k : k \in 1 .. c - 1 /\ file[k] = Info(n) => Seen(n)
  <2> TAKE k
  <2> SUFFICES ASSUME k \in 1 .. c - 1, file[k] = Info(n) PROVE Seen(n)
    OBVIOUS
  <2>1. k \in 1 .. Len(file) - 1 /\ k + 1 \in 2 .. cursor /\ (k + 1) - 1 = k
    BY <1>1
  <2>2. InfoAt(file, k)
    BY <1>2 DEF InfoAt
  <2>3. file[k + 1].k = "data"
    BY <1>1, <2>1, <2>2 DEF Shape
  <2> DEFINE q == k + 1
  <2>4. q \in 2 .. cursor /\ file[q].k = "data" /\ file[q - 1] = Info(n)
    BY <2>1, <2>3
  <2> HIDE DEF q
  <2> QED BY <2>4 DEF Seen
<1>7. CASE Late(n)
  <2>1. ~\E j \in 1 .. c - 1 : file[j] = Info(n)
    BY <1>5, <1>7 DEF Late
  <2>2. ~Seen(n)
    <3> SUFFICES ASSUME NEW k \in 2 .. cursor, file[k - 1] = Info(n) PROVE FALSE
      BY DEF Seen
    <3>1. k - 1 \in 1 .. c - 1
      BY <1>1
    <3> QED BY <2>1, <3>1
  <2> QED BY <1>4, <1>7, <2>2 DEF First
<1>8. CASE ~Late(n)
  <2>1. edit \notin {"tear", "drop", "refuse"}
    BY DEF Restores
  <2>2. PICK k \in 1 .. Len(file) : file[k] = Info(n)
    BY <1>1, <1>2, <2>1 DEF All
  <2>3. InfoAt(file, k)
    BY <1>2, <2>2 DEF InfoAt
  <2>4. k \in 1 .. Len(file) - 1
    <3>1. k < Len(file)
      BY <1>1, <2>1, <2>3 DEF Complete
    <3> QED BY <1>1, <3>1
  <2>5. k # c
    <3>1. Chart[fmt] # n
      BY <1>1, <1>2, NamesAre
    <3>2. file[c] = Info(Chart[fmt])
      BY <1>1, <1>5 DEF Shape
    <3> QED BY <2>2, <3>1, <3>2, BlockIs
  <2>6. Seen(n)
    <3>1. CASE k < c
      <4>1. k \in 1 .. c - 1
        BY <1>1, <2>4, <3>1
      <4> QED BY <1>6, <2>2, <4>1
    <3>2. CASE k > c
      <4>1. \E j \in 1 .. c - 1 : file[j] = Info(n)
        BY <1>5, <1>8, <2>2, <2>4, <3>2 DEF Late
      <4> QED BY <1>6, <4>1
    <3> QED BY <1>1, <2>4, <2>5, <3>1, <3>2
  <2>7. Keeps(n) = Kept(n)
    BY <1>1, <1>2, KeepsIs
  <2> QED BY <1>4, <1>8, <2>6, <2>7
<1> QED BY <1>7, <1>8

\* The records of a block.
LEMMA RecordsKeep ==
    ASSUME NEW c, NEW e, NEW sh, NEW u, ReadOk(c, e, sh, u), ReadRecords
    PROVE  ReaderIs(c, e, sh)'
<1>1. /\ fmt = "dat" /\ fmt \in Formats /\ src \in Sources[fmt] /\ phase = "read" /\ code = 0 /\ HeadIs(c, e)
      /\ DataIs(ReadUnits(c, e)) /\ c \in Nat /\ e \in Nat /\ cursor \in Nat
  BY ReadFacts DEF ReadRecords
<1>2. /\ Still /\ phase' = phase /\ cursor' = cursor + 1 /\ t' = t /\ mem' = mem /\ dat' = dat
      /\ code' = code /\ Reading("data") /\ t = Chart[fmt]
      /\ head' = (IF head.written THEN head ELSE [written |-> TRUE, vars |-> dat])
  BY DEF ReadRecords, Still, srcVars, writeVars
<1>3. /\ ChartBlock(c, e) /\ cursor' \in 0 .. Len(file')
      /\ TypeIs(c, e)' /\ NoneRefused' /\ MemIs' /\ mem' \in 0 .. MemCap
      /\ DatIs' /\ SpecialIs(sh)' /\ StepNotZero'
  BY <1>2, ChartStatic
<1>4. cursor < Len(file) /\ cursor >= c /\ e > c /\ cursor + 1 > c
  BY <1>1, <1>2, <1>3 DEF Reading, ChartBlock
<1> DEFINE r == ReadUnits(c, e)
<1>5. /\ ReadUnits(c, e)' = r \o Block /\ r \in Seq(Unit) /\ Block \in Seq(Unit)
  BY <1>2, <1>3, <1>4, UnitsNext
<1>6. RecordsIs(r)
  BY <1>1 DEF DataIs
<1>7. Putting(r, r \o Block)
  <2>1. part \in Seq(Int) /\ Block \in Seq(Int)
    BY <1>1, <1>5, <1>6 DEF RecordsIs, Unit
  <2> QED BY <2>1 DEF ReadRecords, Putting, RecItems
<1> HIDE DEF r
<1>8. PICK w : Putting(r, w) /\ ReadUnits(c, e)' = w
  BY <1>5, <1>7
<1>9. RecordsIs(w)'
  BY <1>1, <1>2, <1>5, <1>6, <1>8, RecordsMore
<1>10. DataIs(ReadUnits(c, e))'
  <2>1. fmt' = "dat"
    BY <1>1, <1>2 DEF Still
  <2> QED BY <1>8, <1>9, <2>1 DEF DataIs, RecordsIs
<1>11. HeadIs(c, e)'
  <2>1. head'.written = TRUE
    BY <1>1, <1>2 DEF HeadIs
  <2>2. /\ \A n : Kept(n)' = Kept(n) /\ (Late(n)' <=> Late(n))
        /\ fmt' = fmt /\ src' = src /\ edit' = edit
    BY <1>2, StillStays DEF Still
  <2>3. ASSUME Restores, NEW n \in DOMAIN src.vars
        PROVE  head'.vars[n] \in (IF Late(n) THEN {0, FileType[fmt]} ELSE Kept(n))
    <3>1. CASE head.written
      BY <1>1, <1>2, <2>3, <3>1 DEF HeadIs
    <3>2. CASE ~head.written
      <4>1. cursor = c
        BY <1>1, <1>4, <3>2 DEF HeadIs
      <4>2. dat[n] \in IF Late(n) THEN {0, FileType[fmt]} ELSE Kept(n)
        BY <1>1, <1>4, <2>3, <4>1, FirstRecord
      <4> QED BY <1>2, <3>2, <4>2
    <3> QED BY <3>1, <3>2
  <2>4. Restores' <=> Restores
    BY <2>2 DEF Restores
  <2>5. head'.written /\ Restores' =>
          \A n \in DOMAIN src'.vars : head'.vars[n] \in (IF Late(n)' THEN {0, FileType[fmt']} ELSE Kept(n)')
    BY <2>2, <2>3, <2>4
  <2>6. phase' # "done" /\ fmt' = "dat" /\ cursor' > c /\ e > c
    BY <1>1, <1>2, <1>4, <2>2
  <2> QED BY <2>1, <2>5, <2>6 DEF HeadIs
<1>12. CodeTells' /\ CrashesOnlyFor'
  BY <1>1, <1>2 DEF CodeTells, CrashesOnlyFor
<1> QED BY <1>1, <1>2, <1>3, <1>10, <1>11, <1>12 DEF ReaderIs

-----------------------------------------------------------------------------
(* The invariant holds *)

\* A block read, or the end, keeps what is said of the reader.
LEMMA ReadingInv == Inv /\ EdfToX => Inv'
<1> SUFFICES ASSUME Inv, EdfToX PROVE Inv'
  OBVIOUS
<1>1. phase = "read"
  BY DEF EdfToX, SkipHeader, ReadInfo, Crash, Leave, ReadVar, ReadPoints, ReadRecords, Finish, OutputFails, Reading
<1>2. Still /\ next' = next /\ px' = px /\ phase' \in {"read", "done", "crash"}
  BY <1>1 DEF EdfToX, SkipHeader, ReadInfo, Crash, Leave, ReadVar, ReadPoints, ReadRecords, Finish,
              OutputFails, Still, srcVars, writeVars
<1>3. fmt \in Formats /\ src \in Sources[fmt] /\ HasRead
  BY DEF Inv
<1>4. PICK c, e, sh, u : FileIs(file, edit, c, e, sh, u) /\ ReaderIs(c, e, sh)
  BY <1>1, <1>3 DEF HasRead
<1>5. Static(c, e, sh) /\ HeadIs(c, e) /\ code = 0
  BY <1>1, <1>4, StaticIs
<1>6. ReadOk(c, e, sh, u)
  BY <1>1, <1>3, <1>4, <1>5 DEF ReadOk
<1>7. ReaderIs(c, e, sh)'
  <2>1. CASE SkipHeader
    BY <1>6, <2>1, SkipKeeps
  <2>2. CASE ReadInfo
    BY <1>6, <2>2, InfoKeeps
  <2>3. CASE Crash
    BY <1>6, <2>3, CrashKeeps
  <2>4. CASE Leave
    BY <1>6, <2>4, LeaveKeeps
  <2>5. CASE ReadVar
    BY <1>6, <2>5, VarKeeps
  <2>6. CASE ReadPoints
    BY <1>6, <2>6, PointsKeep
  <2>7. CASE ReadRecords
    BY <1>6, <2>7, RecordsKeep
  <2>8. CASE Finish
    BY <1>6, <2>8, FinishKeeps
  <2>9. CASE OutputFails
    BY <1>6, <2>9, OutputKeeps
  <2> QED BY <2>1, <2>2, <2>3, <2>4, <2>5, <2>6, <2>7, <2>8, <2>9 DEF EdfToX
<1>8. FileIs(file, edit, c, e, sh, u)'
  BY <1>2, <1>4, StillStays
<1>9. HasRead'
  BY <1>7, <1>8 DEF HasRead
<1>10. Writing'
  BY <1>2 DEF Writing
<1> QED BY <1>2, <1>9, <1>10 DEF Inv, Still

\* Where nothing happens, it holds as before.
LEMMA RestInv == Inv /\ UNCHANGED vars => Inv'
<1> SUFFICES ASSUME Inv, UNCHANGED vars PROVE Inv'
  OBVIOUS
<1>1. /\ Rests /\ Still /\ phase' = phase /\ next' = next /\ px' = px /\ head' = head /\ code' = code
  BY DEF vars, srcVars, writeVars, readVars, Rests, Still
<1>2. /\ fmt' = fmt /\ src' = src /\ file' = file /\ edit' = edit
      /\ cursor' = cursor /\ t' = t /\ mem' = mem /\ dat' = dat /\ data' = data
      /\ part' = part /\ last' = last
  BY <1>1 DEF Rests, Still
<1>3. /\ Names' = Names /\ N' = N /\ Entry' = Entry
      /\ \A n : Written(n)' = Written(n) /\ First(n)' = First(n)
  BY <1>2, WrittenStays
<1>4. Writing'
  <2> SUFFICES ASSUME phase = "write" PROVE Writing'
    BY <1>1 DEF Writing
  <2>1. /\ edit = "none" /\ next \in 1 .. N + Len(src.chart) + 1 /\ (next <= N => px = 0)
        /\ VarsWritten /\ ChartWritten /\ NotRead
    BY DEF Inv, Writing
  <2>2. VarsWritten'
    BY <1>1, <1>2, <1>3, <2>1 DEF VarsWritten
  <2>3. ChartWritten'
    <3>1. \A m : ChartIs(file, m, px)' = ChartIs(file', m, px')
      BY <1>2, ChartStays
    <3> QED BY <1>1, <1>2, <1>3, <2>1, <3>1 DEF ChartWritten
  <2>4. NotRead'
    BY <1>1, <1>2, <1>3, <2>1 DEF NotRead
  <2> QED BY <1>1, <1>2, <1>3, <2>1, <2>2, <2>3, <2>4 DEF Writing
<1>5. HasRead'
  <2> SUFFICES ASSUME phase # "write" PROVE HasRead'
    BY <1>1 DEF HasRead
  <2>1. PICK c, e, sh, u : FileIs(file, edit, c, e, sh, u) /\ ReaderIs(c, e, sh)
    BY DEF Inv, HasRead
  <2>2. FileIs(file, edit, c, e, sh, u)'
    BY <1>1, <2>1, StillStays
  <2>3. Static(c, e, sh) /\ HeadIs(c, e) /\ code \in {-1, 0, 1} /\ (phase # "done" => code = 0)
        /\ CrashesOnlyFor /\ CodeTells
    BY <2>1 DEF ReaderIs, Static
  <2>4. Static(c, e, sh)'
    BY <1>1, <2>3, RestsStatic
  <2>5. /\ \A n : Kept(n)' = Kept(n) /\ (Late(n)' <=> Late(n))
        /\ \A n : Seen(n)' <=> Seen(n)
    BY <1>1, <1>2, StillStays, SeenSame
  <2>6. HeadIs(c, e)'
    BY <1>1, <1>2, <2>3, <2>5 DEF HeadIs, Restores
  <2>7. CrashesOnlyFor' /\ CodeTells'
    BY <1>1, <1>2, <2>3, <2>5 DEF CrashesOnlyFor, CodeTells
  <2>8. ReaderIs(c, e, sh)'
    BY <1>1, <2>3, <2>4, <2>6, <2>7 DEF ReaderIs, Static
  <2> QED BY <2>2, <2>8 DEF HasRead
<1> QED BY <1>1, <1>2, <1>4, <1>5 DEF Inv

\* What is written is what the converter puts into the file, and what is read back are
\* its variables and its chart, however the file was changed in between.
THEOREM Invariance == Spec => []Inv
<1>1. Init => Inv
  BY InitInv
<1>2. Inv /\ [Next]_vars => Inv'
  BY WriteVarInv, WritePointInv, OpenInv, ReadingInv, RestInv DEF Next
<1> QED BY <1>1, <1>2, PTL DEF Spec

-----------------------------------------------------------------------------
(* What follows from it *)

\* The lengths that the reader keeps to.
LEMMA DataLimits ==
    ASSUME NEW r, DataIs(r)
    PROVE  Len(part) < RecItems /\ (fmt # "dat" => Len(data) <= ArrayLen + 1)
<1>1. CASE fmt = "dat"
  BY <1>1 DEF DataIs, RecordsIs
<1>2. CASE fmt # "dat"
  <2>1. PointsIs(r)
    BY <1>2 DEF DataIs
  <2>2. part = <<>> /\ Len(data) = IF Len(r) <= ArrayLen + 1 THEN Len(r) ELSE ArrayLen + 1
    BY <2>1 DEF PointsIs
  <2>3. Len(part) = 0
    BY <2>2
  <2>4. Len(data) <= ArrayLen + 1
    <3>1. ArrayLen + 1 \in Nat
      BY SizesAssumption
    <3> QED BY <2>2, <3>1
  <2> QED BY <2>3, <2>4 DEF RecItems
<1> QED BY <1>1, <1>2

\* The variables keep their types: the cursor stays in the file, bDst does not give out
\* more than it has, nor more than one position for .dyn and .echo, and precord holds
\* less than a record between blocks.
THEOREM TypeCorrect == Spec => []TypeOK
<1>1. Inv => TypeOK
  <2> SUFFICES ASSUME Inv PROVE TypeOK
    OBVIOUS
  <2>1. /\ phase \in {"write", "read", "done", "crash"} /\ next \in Nat \ {0} /\ px \in Int /\ edit \in AllEdits
    BY DEF Inv
  <2>2. CASE phase = "write"
    <3>1. NotRead /\ VarsWritten
      BY <2>2 DEF Inv, Writing
    <3>2. 0 \in 0 .. Len(file)
      <4>1. Len(file) \in Nat
        BY <3>1, LenProperties DEF VarsWritten
      <4> QED BY <4>1
    <3>3. 0 \in 0 .. MemCap
      BY SizesAssumption
    <3>4. part = <<>> /\ head.written = FALSE /\ mem = 0 /\ cursor = 0 /\ code = 0
      BY <3>1 DEF NotRead
    <3>5. Len(part) < RecItems
      BY <3>4 DEF RecItems
    <3>6. cursor \in 0 .. Len(file) /\ mem \in 0 .. MemCap
      BY <3>2, <3>3, <3>4, Zenon
    <3>7. mem <= 3 /\ head.written \in BOOLEAN /\ code \in {-1, 0, 1}
      <4>1. mem = 0 /\ code = 0
        BY <3>4
      <4>2. head.written \in BOOLEAN
        BY <3>4, Zenon
      <4>3. 0 <= 3 /\ 0 \in {-1, 0, 1}
        OBVIOUS
      <4> QED BY <4>1, <4>2, <4>3, Zenon
    <3> QED BY <2>1, <3>5, <3>6, <3>7 DEF TypeOK
  <2>3. CASE phase # "write"
    <3>1. PICK c, e, sh, u : FileIs(file, edit, c, e, sh, u) /\ ReaderIs(c, e, sh)
      BY <2>3 DEF Inv, HasRead
    <3>2. cursor \in 0 .. Len(file) /\ mem \in 0 .. MemCap /\ code \in {-1, 0, 1} /\ head.written \in BOOLEAN
      BY <3>1 DEF ReaderIs, HeadIs
    <3>3. fmt # "dat" => mem <= 3
      BY <3>1 DEF ReaderIs, MemIs
    <3>4. Len(part) < RecItems
      BY <3>1, DataLimits DEF ReaderIs
    <3> QED BY <2>1, <3>2, <3>3, <3>4 DEF TypeOK
  <2> QED BY <2>2, <2>3
<1> QED BY <1>1, Invariance, PTL

\* A chart longer than the array overwrites the crc behind it and nothing else.
THEOREM NothingElseOverwritten == Spec => []NothingBehindCrc
<1>1. Inv => NothingBehindCrc
  <2> SUFFICES ASSUME Inv, fmt # "dat" PROVE Len(data) <= ArrayLen + 1
    BY DEF NothingBehindCrc
  <2>1. CASE phase = "write"
    <3>1. data = <<>>
      BY <2>1 DEF Inv, Writing, NotRead
    <3> QED BY <3>1, SizesAssumption
  <2>2. CASE phase # "write"
    BY <2>2, DataLimits DEF Inv, HasRead, ReaderIs
  <2> QED BY <2>1, <2>2
<1> QED BY <1>1, Invariance, PTL

\* What XFromEdf returns tells how the conversion went: 0 without a file means that the
\* research is of another type or, for .dat, that no chart was there, and 1 that .dat met
\* a variable twice and had no room for its positions.
THEOREM ReturnTells == Spec => []CodeTells
<1>1. Inv => CodeTells
  BY DEF Inv, HasRead, ReaderIs, CodeTells
<1> QED BY <1>1, Invariance, PTL

\* Nothing else makes a conversion crash than a description the parser refused, a position
\* of length 0 and, for .dyn, a step that is 0 or not read before the value that needs it.
THEOREM CrashesKnown == Spec => []CrashesOnlyFor
<1>1. Inv => CrashesOnlyFor
  BY DEF Inv, HasRead, ReaderIs, CrashesOnlyFor
<1> QED BY <1>1, Invariance, PTL

\* A conversion that returns 0 and has written its file has restored each variable of the
\* research, as far as what the formats hold allows, wherever the edits that keep all
\* variables in the order the converter needs have put others.
THEOREM VariablesRestored == Spec => []RestoresVariables
<1>1. Inv => RestoresVariables
  <2> SUFFICES ASSUME Inv, Finished, Restores, NEW n \in DOMAIN src.vars
               PROVE  head.vars[n] \in (IF Late(n) THEN {0, FileType[fmt]} ELSE Kept(n))
    BY DEF RestoresVariables, Restores
  <2>1. phase # "write" /\ head.written
    BY DEF Finished
  <2>2. PICK c, e, sh : ReaderIs(c, e, sh)
    BY <2>1 DEF Inv, HasRead
  <2> QED BY <2>1, <2>2 DEF ReaderIs, HeadIs
<1> QED BY <1>1, Invariance, PTL

\* The units read are those of the chart, all of them once the end has been reached.
LEMMA ReadBegins ==
    ASSUME NEW c, NEW e, NEW sh, NEW u, FileIs(file, edit, c, e, sh, u), cursor \in 0 .. Len(file)
    PROVE  /\ Begins(ReadUnits(c, e), u) /\ IsUnits(u, Len(src.chart))
           /\ cursor >= e /\ edit # "tear" => ReadUnits(c, e) = u
<1>1. Shape(file, c, e) /\ UnitsIn(file, c, e, u) /\ Complete(file, edit, c, e, u)
  BY DEF FileIs
<1>2. c \in Nat /\ e \in Nat /\ c <= e /\ Len(file) \in Nat /\ cursor \in Nat /\ cursor <= Len(file)
  BY <1>1, LenProperties DEF Shape
<1>3. IsUnits(u, Len(src.chart)) /\ \A j \in 0 .. e - c : c + j <= Len(file) => Begins(Got(file, c, j), u)
  BY <1>1 DEF UnitsIn
<1>4. u \in Seq(Unit) /\ Len(u) \in Nat
  BY <1>3, LenProperties DEF IsUnits
<1>5. CASE cursor <= c
  <2>1. ReadUnits(c, e) = <<>>
    BY <1>5 DEF ReadUnits
  <2>2. Begins(<<>>, u)
    <3>1. Len(<<>>) = 0
      OBVIOUS
    <3> QED BY <1>4, <3>1 DEF Begins
  <2>3. ASSUME cursor >= e, edit # "tear" PROVE u = <<>>
    <3>1. e - c = 0
      BY <1>2, <1>5, <2>3
    <3>2. Got(file, c, e - c) = u
      BY <1>1, <2>3 DEF Complete
    <3>3. Got(file, c, 0) = <<>>
      BY <1>2, GotNone
    <3> QED BY <3>1, <3>2, <3>3
  <2> QED BY <1>3, <2>1, <2>2, <2>3
<1>6. CASE ~(cursor <= c)
  <2> DEFINE j == (IF cursor < e THEN cursor ELSE e) - c
  <2>1. j \in 0 .. e - c /\ c + j <= Len(file) /\ (cursor >= e => j = e - c)
    BY <1>2, <1>6
  <2>2. ReadUnits(c, e) = Got(file, c, j)
    BY <1>6 DEF ReadUnits
  <2> HIDE DEF j
  <2>3. Begins(Got(file, c, j), u)
    BY <1>3, <2>1
  <2>4. edit # "tear" => Got(file, c, e - c) = u
    BY <1>1 DEF Complete
  <2> QED BY <1>3, <2>1, <2>2, <2>3, <2>4
<1> QED BY <1>5, <1>6

\* The points kept are those of the chart.
LEMMA PointsBack ==
    ASSUME Inv, edit \notin {"drop", "move"} \/ fmt # "dyn"
    PROVE  /\ \A k \in 1 .. Len(data) : k <= Len(src.chart) => data[k] = Back(src.chart[k])
           /\ \E T : data \in Seq(T)
           /\ Finished /\ edit # "tear" => Len(data) >= Len(src.chart)
<1>1. fmt \in Formats /\ src \in Sources[fmt] /\ src.chart \in Seq(Points(fmt)) /\ Len(src.chart) \in Nat
      /\ (fmt # "dat" => Len(src.chart) <= ArrayLen)
  BY SourceIs DEF Inv
<1>2. CASE phase = "write"
  <2>1. data = <<>> /\ Len(data) = 0 /\ ~Finished
    <3>1. data = <<>>
      BY <1>2 DEF Inv, Writing, NotRead
    <3> QED BY <1>2, <3>1 DEF Finished
  <2>2. data \in Seq(Int)
    BY <2>1
  <2> QED BY <2>1, <2>2
<1>3. CASE phase # "write"
  <2>1. PICK c, e, sh, u : FileIs(file, edit, c, e, sh, u) /\ ReaderIs(c, e, sh)
    BY <1>3 DEF Inv, HasRead
  <2> DEFINE r == ReadUnits(c, e)
             l == Len(src.chart)
  <2>2. cursor \in 0 .. Len(file) /\ DataIs(r)
    BY <2>1 DEF ReaderIs
  <2>3. /\ Begins(r, u) /\ IsUnits(u, l)
        /\ cursor >= e /\ edit # "tear" => r = u
    BY <2>1, <2>2, ReadBegins
  <2>4. Finished /\ edit # "tear" => cursor >= e
    BY <2>1 DEF ReaderIs, HeadIs, Finished
  <2> HIDE DEF r
  <2>5. /\ Len(r) <= Len(u) /\ \A i \in 1 .. Len(r) : r[i] = u[i]
        /\ u \in Seq(Unit) /\ Len(u) >= PerPoint * l /\ \A k \in 1 .. l : UnitsOf(u, k)
    BY <2>3 DEF Begins, IsUnits
  <2>6. Len(u) \in Nat /\ l \in Nat
    BY <1>1, <2>5, LenProperties
  <2> HIDE DEF l
  <2>7. Finished /\ edit # "tear" => Len(r) >= PerPoint * l
    BY <2>3, <2>4, <2>5
  <2>8. CASE fmt = "dat"
    <3>1. RecordsIs(r) /\ PerPoint = 4 /\ RecItems = 4
      BY <2>2, <2>8 DEF DataIs, PerPoint, RecItems
    <3>2. /\ data \in Seq([1 .. 4 -> Int]) /\ part \in Seq(Unit) /\ Len(part) < 4
          /\ Len(r) = 4 * Len(data) + Len(part)
          /\ \A k \in 1 .. Len(data) : \A i \in 1 .. 4 : data[k][i] = r[4 * (k - 1) + i]
      BY <3>1 DEF RecordsIs
    <3>3. Len(data) \in Nat /\ Len(part) \in Nat
      BY <3>2, LenProperties
    <3>4. ASSUME NEW k \in 1 .. Len(data), k <= l PROVE data[k] = Back(src.chart[k])
      <4>1. k \in 1 .. l
        BY <2>6, <3>3, <3>4
      <4>2. src.chart[k] \in [1 .. 4 -> Int]
        <5>1. Points(fmt) = [1 .. 4 -> Int]
          BY <2>8 DEF Points, RecItems
        <5>2. src.chart[k] \in Points(fmt)
          BY <1>1, <4>1, ElementOfSeq DEF l
        <5> QED BY <5>1, <5>2, Zenon
      <4>3. data[k] \in [1 .. 4 -> Int]
        BY <3>2, ElementOfSeq
      <4>4. ASSUME NEW i \in 1 .. 4 PROVE data[k][i] = src.chart[k][i]
        <5> DEFINE q == 4 * (k - 1) + i
                   m == Len(r)
        <5>1. m = 4 * Len(data) + Len(part)
          BY <3>2
        <5> HIDE DEF m
        <5>2. q \in 1 .. m
          BY <3>3, <3>4, <5>1
        <5>3. data[k][i] = r[q]
          BY <3>2
        <5>4. u[q] = src.chart[k][i]
          <6>1. UnitsOf(u, k)
            BY <2>5, <4>1
          <6> QED BY <2>8, <6>1 DEF UnitsOf, RecItems
        <5> HIDE DEF q
        <5>5. r[q] = u[q]
          BY <2>5, <5>2 DEF m
        <5> QED BY <5>3, <5>4, <5>5
      <4>5. data[k] = src.chart[k]
        BY <4>2, <4>3, <4>4
      <4> QED BY <2>8, <4>5 DEF Back
    <3>5. Finished /\ edit # "tear" => Len(data) >= l
      <4>1. ASSUME Len(r) >= 4 * l PROVE Len(data) >= l
        <5> DEFINE d == Len(data)
        <5>1. 4 * d + Len(part) >= 4 * l /\ Len(part) < 4 /\ Len(part) \in Nat /\ d \in Nat
          BY <3>2, <3>3, <4>1
        <5> HIDE DEF d
        <5>2. d >= l
          BY <2>6, <5>1
        <5> QED BY <5>2 DEF d
      <4> QED BY <2>7, <3>1, <4>1
    <3> QED BY <3>2, <3>4, <3>5 DEF l
  <2>9. CASE fmt # "dat"
    <3>1. PointsIs(r) /\ PerPoint = 1 /\ (InOrder(edit) \/ fmt # "dyn")
      BY <2>2, <2>9 DEF DataIs, PerPoint, InOrder
    <3>2. /\ data \in Seq(IF fmt = "dyn" THEN Int \X Int ELSE Int)
          /\ Len(data) = IF Len(r) <= ArrayLen + 1 THEN Len(r) ELSE ArrayLen + 1
          /\ \A k \in 1 .. Len(data) : k <= Len(src.chart) /\ (InOrder(edit) \/ fmt # "dyn") =>
                data[k] = Back(src.chart[k])
      BY <3>1 DEF PointsIs
    <3>3. ASSUME Finished, edit # "tear" PROVE Len(data) >= l
      <4>1. Len(r) >= l
        BY <2>6, <2>7, <3>1, <3>3
      <4>2. l <= ArrayLen /\ ArrayLen \in Nat
        BY <1>1, <2>9, SizesAssumption DEF l
      <4> QED BY <2>6, <3>2, <4>1, <4>2
    <3> QED BY <3>1, <3>2, <3>3 DEF l
  <2> QED BY <2>8, <2>9
<1> QED BY <1>2, <1>3

\* However blocks cut a chart, its points come back in their order.
THEOREM ChartRestored == Spec => []ChartInOrder
<1>1. Inv => ChartInOrder
  <2> SUFFICES ASSUME Inv, edit \notin {"drop", "move"} \/ fmt # "dyn" PROVE ChartInOrder
    BY DEF ChartInOrder
  <2>1. /\ \A k \in 1 .. Len(data) : k <= Len(src.chart) => data[k] = Back(src.chart[k])
        /\ Finished /\ edit # "tear" => Len(data) >= Len(src.chart)
    BY PointsBack
  <2>2. PICK T : data \in Seq(T)
    BY PointsBack
  <2>3. src.chart \in Seq(Points(fmt)) /\ Len(src.chart) \in Nat
    BY SourceIs DEF Inv
  <2>4. Len(data) \in Nat /\ DOMAIN src.chart = 1 .. Len(src.chart)
    BY <2>2, <2>3, LenProperties
  <2> DEFINE l == Len(src.chart)
             U == {Back(src.chart[k]) : k \in 1 .. l}
             chart == [k \in DOMAIN src.chart |-> Back(src.chart[k])]
             n == IF Len(data) < Len(chart) THEN Len(data) ELSE Len(chart)
  <2>5. chart \in Seq(U) /\ Len(chart) = l /\ \A k \in 1 .. l : chart[k] = Back(src.chart[k])
    BY <2>3, <2>4
  <2> HIDE DEF l, U, chart
  <2>6. n \in Nat /\ n \in 0 .. Len(data) /\ n \in 0 .. l /\ (Len(data) >= l => n = l)
    BY <2>3, <2>4, <2>5 DEF l
  <2> HIDE DEF n
  <2> DEFINE a == SubSeq(data, 1, n)
             b == SubSeq(chart, 1, n)
  <2>7. a \in Seq(T) /\ Len(a) = n - 1 + 1 /\ \A i \in 1 .. n - 1 + 1 : a[i] = data[1 + i - 1]
    BY <2>2, <2>6, PieceIs
  <2>8. b \in Seq(U) /\ Len(b) = n - 1 + 1 /\ \A i \in 1 .. n - 1 + 1 : b[i] = chart[1 + i - 1]
    BY <2>5, <2>6, PieceIs
  <2>9. n - 1 + 1 = n /\ \A i \in 1 .. n : 1 + i - 1 = i
    BY <2>6
  <2> HIDE DEF a, b
  <2>10. Len(a) = n /\ Len(b) = n /\ \A i \in 1 .. Len(a) : a[i] = b[i]
    <3>1. Len(a) = n /\ Len(b) = n
      BY <2>7, <2>8, <2>9
    <3>2. ASSUME NEW i \in 1 .. n PROVE a[i] = b[i]
      <4>1. a[i] = data[i] /\ b[i] = chart[i]
        BY <2>7, <2>8, <2>9
      <4>2. i \in 1 .. Len(data) /\ i \in 1 .. l /\ i <= Len(src.chart)
        BY <2>3, <2>4, <2>6 DEF l
      <4>3. data[i] = Back(src.chart[i]) /\ chart[i] = Back(src.chart[i])
        BY <2>1, <2>5, <4>2
      <4> QED BY <4>1, <4>3
    <3> QED BY <3>1, <3>2
  <2>11. a = b
    BY <2>7, <2>8, <2>10, SameSeq
  <2>12. Finished /\ edit # "tear" => n = Len(chart)
    BY <2>1, <2>5, <2>6 DEF l
  <2>13. SubSeq(data, 1, n) = SubSeq(chart, 1, n)
    BY <2>11 DEF a, b
  <2> QED BY <2>12, <2>13 DEF ChartInOrder, chart, n
<1> QED BY <1>1, Invariance, PTL
=============================================================================
