--------------------------- MODULE SequenceProofs ----------------------------
(***************************************************************************)
(* What the functions on sequences compute that the other proofs use:      *)
(* FlattenSeq, Sums and Total, Append and \o, and how a place in a record  *)
(* follows from the number of what is before it.                           *)
(***************************************************************************)
EXTENDS Integers, Sequences, SequencesExt, Totals,
        SequenceTheorems, WellFoundedInduction, TLAPS

(* Numbers *)

\* A set with 0 and the successor of each of its numbers has all of them.
LEMMA SetInduction ==
    ASSUME NEW S, 0 \in S, \A n \in Nat : n \in S => n + 1 \in S
    PROVE  Nat \subseteq S
<1> DEFINE R == OpToRel(<, Nat)
           T == Nat \ S
<1>1. IsWellFoundedOn(R, Nat)
  BY NatLessThanWellFounded, Zenon
<1>2. SUFFICES ASSUME T # {} PROVE FALSE
  OBVIOUS
<1>3. T \subseteq Nat
  OBVIOUS
<1> HIDE DEF T
<1>4. \A x, y \in Nat : x < y => <<x, y>> \in R
  BY Zenon DEF OpToRel
<1> HIDE DEF R
<1>5. PICK m \in T : \A y \in T : ~(<<y, m>> \in R)
  BY <1>1, <1>2, <1>3, WFMin
<1>6. m \in Nat /\ m # 0
  BY <1>3, <1>5 DEF T
<1>7. m - 1 \in Nat /\ m - 1 < m
  BY <1>6
<1>8. m - 1 \in S
  BY <1>4, <1>5, <1>6, <1>7 DEF T
<1>9. m \in S
  BY <1>6, <1>7, <1>8
<1> QED BY <1>5, <1>9 DEF T

\* One item more, with the place in the record at c.
LEMMA ModNext ==
    ASSUME NEW L \in Nat \ {0}, NEW n \in Nat, NEW c \in 0 .. L - 1, n % L = c % L
    PROVE  (n + 1) % L = (c + 1) % L /\ n % L = c
<1>1. n \div L \in Nat /\ n = L * (n \div L) + (n % L)
  OBVIOUS
<1>2. c % L = c
  OBVIOUS
<1>3. PICK q \in Nat : n = L * q + c
  BY <1>1, <1>2
<1>4. CASE c + 1 = L
  <2>1. n + 1 = L * (q + 1) + 0
    BY <1>3, <1>4
  <2>2. (L * (q + 1) + 0) % L = 0 /\ (L * 1 + 0) % L = 0
    OBVIOUS
  <2> QED BY <1>2, <1>4, <2>1, <2>2
<1>5. CASE c + 1 # L
  <2>1. c + 1 \in 0 .. L - 1 /\ n + 1 = L * q + (c + 1)
    BY <1>3, <1>5
  <2>2. (n + 1) % L = c + 1 /\ (c + 1) % L = c + 1
    BY <2>1, SMTT(30)
  <2> QED BY <1>2, <2>2
<1> QED BY <1>4, <1>5

\* x bytes into the record that begins at m.
LEMMA ModAhead ==
    ASSUME NEW R \in Nat \ {0}, NEW m \in Nat, m % R = 0, NEW x \in 0 .. R - 1
    PROVE  (m + x) % R = x /\ (m + x) \div R = m \div R
<1>1. m \div R \in Nat /\ m = R * (m \div R) + (m % R)
  OBVIOUS
<1>2. PICK q \in Nat : m = R * q /\ m \div R = q
  BY <1>1
<1>3. m + x = R * q + x
  BY <1>2
<1>4. (R * q + x) % R = x /\ (R * q + x) \div R = q
  OBVIOUS
<1> QED BY <1>2, <1>3, <1>4

\* The record after it.
LEMMA ModRecord ==
    ASSUME NEW R \in Nat \ {0}, NEW m \in Nat, m % R = 0
    PROVE  (m + R) % R = 0
<1>1. m \div R \in Nat /\ m = R * (m \div R) + (m % R)
  OBVIOUS
<1>2. PICK q \in Nat : m = R * q
  BY <1>1
<1>3. m + R = R * (q + 1) + 0
  BY <1>2
<1>4. (R * (q + 1) + 0) % R = 0
  OBVIOUS
<1> QED BY <1>3, <1>4

\* What is in the same record.
LEMMA ModSame ==
    ASSUME NEW R \in Nat \ {0}, NEW m \in Nat, m % R = 0,
           NEW y \in Nat, y \div R = m \div R
    PROVE  y = m + (y % R) /\ y % R \in 0 .. R - 1
<1>1. m = R * (m \div R) + (m % R) /\ y = R * (y \div R) + (y % R)
  OBVIOUS
<1>2. y % R \in 0 .. R - 1 /\ m \div R \in Int
  OBVIOUS
<1>3. R * (m \div R) = m
  BY <1>1, <1>2
<1>4. R * (y \div R) = m
  BY <1>3
<1>5. y = m + (y % R)
  BY <1>1, <1>4
<1> QED BY <1>2, <1>5

-----------------------------------------------------------------------------
(* Sequences *)

\* Sequences are told apart by their elements.
LEMMA SameSeq ==
    ASSUME NEW T, NEW s \in Seq(T), NEW U, NEW t \in Seq(U), Len(s) = Len(t),
           \A k \in 1 .. Len(s) : s[k] = t[k]
    PROVE  s = t
<1>1. /\ Len(s) \in Nat
      /\ s = [k \in 1 .. Len(s) |-> s[k]] /\ t = [k \in 1 .. Len(t) |-> t[k]]
  BY LenProperties
<1> QED BY <1>1

\* A sequence is empty when its length is 0.
LEMMA EmptyLen ==
    ASSUME NEW T, NEW s \in Seq(T)
    PROVE  Len(s) \in Nat /\ (s = <<>> <=> Len(s) = 0)
BY EmptySeq, LenProperties

\* An element behind two sequences is behind the second.
LEMMA AppendConcat ==
    ASSUME NEW T, NEW a \in Seq(T), NEW b \in Seq(T), NEW t \in T
    PROVE  a \o Append(b, t) = Append(a \o b, t)
<1> DEFINE u == Append(a \o b, t)
           v == a \o Append(b, t)
<1>1. Len(a) \in Nat /\ Len(b) \in Nat
  BY LenProperties
<1>2. /\ a \o b \in Seq(T) /\ Len(a \o b) = Len(a) + Len(b)
      /\ \A k \in 1 .. Len(a) + Len(b) : (a \o b)[k] = IF k <= Len(a) THEN a[k] ELSE b[k - Len(a)]
  BY ConcatProperties
<1>3. /\ Append(b, t) \in Seq(T) /\ Len(Append(b, t)) = Len(b) + 1
      /\ \A k \in 1 .. Len(b) : Append(b, t)[k] = b[k]
      /\ Append(b, t)[Len(b) + 1] = t
  BY AppendProperties
<1>4. /\ u \in Seq(T) /\ Len(u) = Len(a) + Len(b) + 1
      /\ \A k \in 1 .. Len(a) + Len(b) : u[k] = (a \o b)[k]
      /\ u[Len(a) + Len(b) + 1] = t
  BY <1>2, AppendProperties
<1>5. /\ v \in Seq(T) /\ Len(v) = Len(a) + Len(b) + 1
      /\ \A k \in 1 .. Len(a) + Len(b) + 1 :
           v[k] = IF k <= Len(a) THEN a[k] ELSE Append(b, t)[k - Len(a)]
  <2>1. /\ v \in Seq(T) /\ Len(v) = Len(a) + Len(Append(b, t))
        /\ \A k \in 1 .. Len(a) + Len(Append(b, t)) :
             v[k] = IF k <= Len(a) THEN a[k] ELSE Append(b, t)[k - Len(a)]
    BY <1>3, ConcatProperties
  <2> QED BY <1>1, <1>3, <2>1, SMTT(30)
<1> HIDE DEF u, v
<1>6. ASSUME NEW k \in 1 .. Len(u) PROVE u[k] = v[k]
  <2>1. k \in 1 .. Len(a) + Len(b) + 1
    BY <1>4
  <2>2. CASE k <= Len(a)
    <3>1. k \in 1 .. Len(a) + Len(b)
      BY <1>1, <2>1, <2>2
    <3> QED BY <1>2, <1>4, <1>5, <2>1, <2>2, <3>1
  <2>3. CASE ~(k <= Len(a)) /\ k <= Len(a) + Len(b)
    <3>1. k - Len(a) \in 1 .. Len(b) /\ k \in 1 .. Len(a) + Len(b)
      BY <1>1, <2>1, <2>3
    <3> QED BY <1>2, <1>3, <1>4, <1>5, <2>1, <2>3, <3>1
  <2>4. CASE k = Len(a) + Len(b) + 1
    <3>1. ~(k <= Len(a)) /\ k - Len(a) = Len(b) + 1
      BY <1>1, <2>4
    <3> QED BY <1>3, <1>4, <1>5, <2>1, <2>4, <3>1
  <2> QED BY <1>1, <2>1, <2>2, <2>3, <2>4
<1>7. u = v
  BY <1>4, <1>5, <1>6, SameSeq
<1> QED BY <1>7 DEF u, v

-----------------------------------------------------------------------------
(* FlattenSeq: its definition is recursive, so that this takes an induction. *)

\* The function that FlattenSeq is defined by, as far as n.
Flattens(g, ss, n) ==
    g = [i \in 1 .. n |-> IF i = 1 THEN ss[i] ELSE g[i - 1] \o ss[i]]

\* There is such a function ...
LEMMA FlattenExists ==
    ASSUME NEW ss
    PROVE  \A n \in Nat : \E g : Flattens(g, ss, n)
<1> DEFINE S == {n \in Nat : \E g : Flattens(g, ss, n)}
<1>1. 0 \in S
  <2> DEFINE g == [i \in {} |-> 0]
  <2>1. 1 .. 0 = {}
    OBVIOUS
  <2>2. Flattens(g, ss, 0)
    BY <2>1 DEF Flattens
  <2> QED BY <2>2
<1>2. ASSUME NEW n \in Nat, n \in S
      PROVE  n + 1 \in S
  <2>1. PICK g : Flattens(g, ss, n)
    BY <1>2
  <2> DEFINE h == [i \in 1 .. n + 1 |-> IF i = n + 1
                                        THEN IF n = 0 THEN ss[1] ELSE g[n] \o ss[n + 1]
                                        ELSE g[i]]
  <2>2. \A i \in 1 .. n : g[i] = IF i = 1 THEN ss[i] ELSE g[i - 1] \o ss[i]
    BY <2>1 DEF Flattens
  <2>3. \A i \in 1 .. n + 1 : h[i] = IF i = 1 THEN ss[i] ELSE h[i - 1] \o ss[i]
    <3> TAKE i \in 1 .. n + 1
    <3>1. CASE i = n + 1
      <4>1. CASE n = 0
        BY <3>1, <4>1
      <4>2. CASE n # 0
        <5>1. n \in 1 .. n + 1 /\ n # n + 1 /\ i # 1 /\ i - 1 = n
          BY <3>1, <4>2
        <5>2. h[n] = g[n]
          BY <5>1
        <5>3. h[i] = g[n] \o ss[n + 1]
          BY <3>1, <4>2
        <5> QED BY <3>1, <5>1, <5>2, <5>3
      <4> QED BY <4>1, <4>2
    <3>2. CASE i # n + 1
      <4>1. i \in 1 .. n /\ h[i] = g[i]
        BY <3>2
      <4>2. i # 1 => i - 1 \in 1 .. n + 1 /\ i - 1 # n + 1
        BY <4>1
      <4>3. i # 1 => h[i - 1] = g[i - 1]
        BY <4>2
      <4> QED BY <2>2, <4>1, <4>3
    <3> QED BY <3>1, <3>2
  <2>4. Flattens(h, ss, n + 1)
    <3>1. h = [i \in 1 .. n + 1 |-> h[i]]
      OBVIOUS
    <3> HIDE DEF h
    <3> QED BY <2>3, <3>1 DEF Flattens
  <2> QED BY <2>4
<1>3. Nat \subseteq S
  <2> HIDE DEF S
  <2> QED BY <1>1, <1>2, SetInduction
<1> QED BY <1>3

\* As far as n, ss has sequences over T and tt the same.
Alike(T, ss, tt, n) == \A i \in 1 .. n : ss[i] \in Seq(T) /\ tt[i] = ss[i]

\* ... it has sequences for its values, and only one value at each place, whatever
\* follows the sequences up to there.
LEMMA FlattenUnique ==
    ASSUME NEW T, NEW ss, NEW tt, NEW n \in Nat,
           NEW g, Flattens(g, ss, n), NEW h, Flattens(h, tt, n + 1),
           Alike(T, ss, tt, n)
    PROVE  Alike(T, g, h, n)
<1> DEFINE S == {i \in Nat : i \in 1 .. n => g[i] \in Seq(T) /\ h[i] = g[i]}
<1>1. 0 \in S
  OBVIOUS
<1>2. /\ \A i \in 1 .. n : g[i] = IF i = 1 THEN ss[i] ELSE g[i - 1] \o ss[i]
      /\ \A i \in 1 .. n + 1 : h[i] = IF i = 1 THEN tt[i] ELSE h[i - 1] \o tt[i]
  BY DEF Flattens
<1>3. ASSUME NEW i \in Nat, i \in S
      PROVE  i + 1 \in S
  <2> SUFFICES ASSUME i + 1 \in 1 .. n
               PROVE  g[i + 1] \in Seq(T) /\ h[i + 1] = g[i + 1]
    OBVIOUS
  <2>1. i + 1 \in 1 .. n + 1 /\ (i + 1) - 1 = i
    OBVIOUS
  <2>2. ss[i + 1] \in Seq(T) /\ tt[i + 1] = ss[i + 1]
    BY DEF Alike
  <2>3. CASE i = 0
    <3>1. i + 1 = 1
      BY <2>3
    <3>2. g[i + 1] = ss[i + 1] /\ h[i + 1] = tt[i + 1]
      BY <1>2, <2>1, <3>1
    <3> QED BY <2>2, <3>2
  <2>4. CASE i # 0
    <3>1. i \in 1 .. n
      BY <2>4
    <3>2. g[i] \in Seq(T) /\ h[i] = g[i]
      BY <1>3, <3>1
    <3>3. g[i + 1] = g[i] \o ss[i + 1] /\ h[i + 1] = h[i] \o tt[i + 1]
      <4>1. i + 1 # 1
        BY <2>4
      <4>2. g[i + 1] = g[(i + 1) - 1] \o ss[i + 1]
        BY <1>2, <4>1
      <4>3. h[i + 1] = h[(i + 1) - 1] \o tt[i + 1]
        BY <1>2, <2>1, <4>1
      <4> QED BY <2>1, <4>2, <4>3
    <3>4. g[i] \o ss[i + 1] \in Seq(T)
      BY <2>2, <3>2, ConcatProperties
    <3> QED BY <2>2, <3>2, <3>3, <3>4
  <2> QED BY <2>3, <2>4
<1>4. Nat \subseteq S
  <2> HIDE DEF S
  <2> QED BY <1>1, <1>3, SetInduction
<1> QED BY <1>4 DEF Alike

\* FlattenSeq is the last value of it.
LEMMA FlattenIs ==
    ASSUME NEW T, NEW ss \in Seq(Seq(T)), ss # <<>>
    PROVE  \E g : Flattens(g, ss, Len(ss)) /\ FlattenSeq(ss) = g[Len(ss)]
<1> DEFINE g == CHOOSE g : Flattens(g, ss, Len(ss))
<1>1. Len(ss) \in Nat /\ Len(ss) # 0
  BY EmptySeq, LenProperties
<1>2. Flattens(g, ss, Len(ss))
  BY <1>1, FlattenExists
<1>3. FlattenSeq(ss) = g[Len(ss)]
  BY <1>1 DEF FlattenSeq, Flattens
<1> QED BY <1>2, <1>3

\* No sequence, and no element.
LEMMA FlattenEmpty == FlattenSeq(<<>>) = <<>>
  BY EmptySeq DEF FlattenSeq

\* One more sequence comes behind the others.
LEMMA FlattenAppend ==
    ASSUME NEW T, NEW ss \in Seq(Seq(T)), NEW s \in Seq(T)
    PROVE  /\ FlattenSeq(ss) \in Seq(T)
           /\ FlattenSeq(Append(ss, s)) = FlattenSeq(ss) \o s
<1> DEFINE tt == Append(ss, s)
           n == Len(ss)
<1>1. /\ tt \in Seq(Seq(T)) /\ tt # <<>> /\ n \in Nat /\ Len(tt) = n + 1
      /\ \A i \in 1 .. n : tt[i] = ss[i] /\ ss[i] \in Seq(T)
      /\ tt[n + 1] = s
  BY AppendProperties, LenProperties, ElementOfSeq
<1> HIDE DEF tt
<1>2. PICK h : Flattens(h, tt, n + 1) /\ FlattenSeq(tt) = h[n + 1]
  BY <1>1, FlattenIs
<1>3. h[n + 1] = IF n + 1 = 1 THEN tt[n + 1] ELSE h[(n + 1) - 1] \o tt[n + 1]
  <2>1. n + 1 \in 1 .. n + 1
    BY <1>1
  <2> QED BY <1>2, <2>1 DEF Flattens
<1>4. CASE ss = <<>>
  <2>1. n = 0 /\ FlattenSeq(ss) = <<>> /\ FlattenSeq(tt) = s
    BY <1>1, <1>2, <1>3, <1>4, EmptySeq, FlattenEmpty
  <2>2. <<>> \o s = s /\ <<>> \in Seq(T)
    BY ConcatEmptySeq, EmptySeq
  <2> QED BY <2>1, <2>2 DEF tt
<1>5. CASE ss # <<>>
  <2>1. n # 0 /\ n \in 1 .. n
    BY <1>1, <1>5, EmptySeq
  <2>2. PICK g : Flattens(g, ss, n) /\ FlattenSeq(ss) = g[n]
    BY <1>5, FlattenIs
  <2>3. \A i \in 1 .. n : g[i] \in Seq(T) /\ h[i] = g[i]
    <3>1. n \in Nat
      BY <1>1
    <3>2. Alike(T, ss, tt, n)
      BY <1>1 DEF Alike
    <3>3. Flattens(g, ss, n) /\ Flattens(h, tt, n + 1)
      BY <1>2, <2>2
    <3> HIDE DEF n
    <3>4. Alike(T, g, h, n)
      BY <3>1, <3>2, <3>3, FlattenUnique
    <3> QED BY <3>4 DEF Alike
  <2>4. FlattenSeq(tt) = h[n] \o s
    BY <1>1, <1>2, <1>3, <2>1
  <2> QED BY <2>1, <2>2, <2>3, <2>4 DEF tt
<1> QED BY <1>4, <1>5

-----------------------------------------------------------------------------
(* Sums and Total *)

\* The function that Sums is defined by, as far as n.
Adds(g, ns, n) == g = [k \in 0 .. n |-> IF k = 0 THEN 0 ELSE g[k - 1] + ns[k]]

\* There is such a function ...
LEMMA AddsExists ==
    ASSUME NEW ns
    PROVE  \A n \in Nat : \E g : Adds(g, ns, n)
<1> DEFINE S == {n \in Nat : \E g : Adds(g, ns, n)}
<1>1. 0 \in S
  <2> DEFINE g == [k \in 0 .. 0 |-> 0]
  <2>1. \A k \in 0 .. 0 : k = 0
    OBVIOUS
  <2>2. Adds(g, ns, 0)
    BY <2>1 DEF Adds
  <2> QED BY <2>2
<1>2. ASSUME NEW n \in Nat, n \in S
      PROVE  n + 1 \in S
  <2>1. PICK g : Adds(g, ns, n)
    BY <1>2
  <2> DEFINE h == [k \in 0 .. n + 1 |-> IF k = n + 1 THEN g[n] + ns[n + 1] ELSE g[k]]
  <2>2. \A k \in 0 .. n : g[k] = IF k = 0 THEN 0 ELSE g[k - 1] + ns[k]
    BY <2>1 DEF Adds
  <2>3. \A k \in 0 .. n + 1 : h[k] = IF k = 0 THEN 0 ELSE h[k - 1] + ns[k]
    <3> TAKE k \in 0 .. n + 1
    <3>1. CASE k = n + 1
      <4>1. n \in 0 .. n + 1 /\ n # n + 1 /\ k # 0 /\ k - 1 = n
        BY <3>1
      <4>2. h[n] = g[n] /\ h[k] = g[n] + ns[n + 1]
        BY <3>1, <4>1
      <4> QED BY <3>1, <4>1, <4>2
    <3>2. CASE k # n + 1
      <4>1. k \in 0 .. n /\ h[k] = g[k]
        BY <3>2
      <4>2. k # 0 => k - 1 \in 0 .. n + 1 /\ k - 1 # n + 1
        BY <4>1
      <4>3. k # 0 => h[k - 1] = g[k - 1]
        BY <4>2
      <4> QED BY <2>2, <4>1, <4>3
    <3> QED BY <3>1, <3>2
  <2>4. Adds(h, ns, n + 1)
    <3>1. h = [k \in 0 .. n + 1 |-> h[k]]
      OBVIOUS
    <3> HIDE DEF h
    <3> QED BY <2>3, <3>1 DEF Adds
  <2> QED BY <2>4
<1>3. Nat \subseteq S
  <2> HIDE DEF S
  <2> QED BY <1>1, <1>2, SetInduction
<1> QED BY <1>3

\* ... and Sums is it.
LEMMA SumsIs ==
    ASSUME NEW ns \in Seq(Nat)
    PROVE  /\ Sums(ns)[0] = 0
           /\ \A k \in 1 .. Len(ns) : Sums(ns)[k] = Sums(ns)[k - 1] + ns[k]
<1>1. Len(ns) \in Nat
  BY LenProperties
<1>2. Adds(Sums(ns), ns, Len(ns))
  <2>1. PICK g : Adds(g, ns, Len(ns))
    BY <1>1, AddsExists
  <2> QED BY <2>1 DEF Adds, Sums
<1>3. \A k \in 0 .. Len(ns) : Sums(ns)[k] = IF k = 0 THEN 0 ELSE Sums(ns)[k - 1] + ns[k]
  BY <1>2 DEF Adds
<1>4. 0 \in 0 .. Len(ns) /\ \A k \in 1 .. Len(ns) : k \in 0 .. Len(ns) /\ k # 0
  BY <1>1
<1> QED BY <1>3, <1>4

\* The totals are numbers and grow.
LEMMA SumsGrow ==
    ASSUME NEW ns \in Seq(Nat)
    PROVE  /\ \A k \in 0 .. Len(ns) : Sums(ns)[k] \in Nat
           /\ \A k \in 0 .. Len(ns), j \in 0 .. Len(ns) : j <= k => Sums(ns)[j] <= Sums(ns)[k]
<1>1. Len(ns) \in Nat /\ \A k \in 1 .. Len(ns) : ns[k] \in Nat
  BY LenProperties, ElementOfSeq
<1>2. /\ Sums(ns)[0] = 0
      /\ \A k \in 1 .. Len(ns) : Sums(ns)[k] = Sums(ns)[k - 1] + ns[k]
  BY SumsIs
<1> DEFINE P(k) == Sums(ns)[k]
           S == {k \in Nat : k <= Len(ns) => \A j \in 0 .. k : P(j) \in Nat /\ P(j) <= P(k)}
<1>3. 0 \in S
  BY <1>2
<1>4. ASSUME NEW k \in Nat, k \in S
      PROVE  k + 1 \in S
  <2> SUFFICES ASSUME k + 1 <= Len(ns)
               PROVE  \A j \in 0 .. k + 1 : P(j) \in Nat /\ P(j) <= P(k + 1)
    OBVIOUS
  <2>1. k <= Len(ns) /\ k + 1 \in 1 .. Len(ns) /\ (k + 1) - 1 = k
    BY <1>1
  <2>2. \A j \in 0 .. k : P(j) \in Nat /\ P(j) <= P(k)
    BY <1>4, <2>1
  <2>3. P(k + 1) = P(k) + ns[k + 1] /\ ns[k + 1] \in Nat
    <3>1. P(k + 1) = P((k + 1) - 1) + ns[k + 1]
      BY <1>2, <2>1
    <3> QED BY <1>1, <2>1, <3>1
  <2>4. k \in 0 .. k
    OBVIOUS
  <2> HIDE DEF P
  <2>5. P(k + 1) \in Nat /\ P(k) <= P(k + 1)
    BY <2>2, <2>3, <2>4
  <2>6. ASSUME NEW j \in 0 .. k + 1 PROVE P(j) \in Nat /\ P(j) <= P(k + 1)
    <3>1. CASE j = k + 1
      BY <2>5, <3>1
    <3>2. CASE j # k + 1
      <4>1. j \in 0 .. k
        BY <3>2
      <4> QED BY <2>2, <2>3, <2>4, <2>5, <4>1
    <3> QED BY <3>1, <3>2
  <2> QED BY <2>6
<1>5. Nat \subseteq S
  <2> HIDE DEF S
  <2> QED BY <1>3, <1>4, SetInduction
<1>6. \A k \in 0 .. Len(ns) : k \in Nat /\ k <= Len(ns)
  BY <1>1
<1>7. \A k \in 0 .. Len(ns) : \A j \in 0 .. k : P(j) \in Nat /\ P(j) <= P(k)
  BY <1>5, <1>6
<1> QED
  <2>1. ASSUME NEW k \in 0 .. Len(ns), NEW j \in 0 .. Len(ns), j <= k PROVE j \in 0 .. k
    BY <1>1, <2>1
  <2>2. \A k \in 0 .. Len(ns) : k \in 0 .. k
    BY <1>1
  <2> QED BY <1>7, <2>1, <2>2

\* One number more adds itself.
LEMMA SumsAppend ==
    ASSUME NEW ns \in Seq(Nat), NEW x \in Nat
    PROVE  Total(Append(ns, x)) = Total(ns) + x /\ Total(ns) \in Nat
<1> DEFINE ms == Append(ns, x)
<1>1. /\ Len(ns) \in Nat /\ ms \in Seq(Nat) /\ Len(ms) = Len(ns) + 1
      /\ \A k \in 1 .. Len(ns) : ms[k] = ns[k]
      /\ ms[Len(ns) + 1] = x
  BY AppendProperties, LenProperties
<1> HIDE DEF ms
<1>2. /\ Sums(ns)[0] = 0
      /\ \A k \in 1 .. Len(ns) : Sums(ns)[k] = Sums(ns)[k - 1] + ns[k]
  BY SumsIs
<1>3. /\ Sums(ms)[0] = 0
      /\ \A k \in 1 .. Len(ns) + 1 : Sums(ms)[k] = Sums(ms)[k - 1] + ms[k]
  BY <1>1, SumsIs
<1> DEFINE S == {k \in Nat : k <= Len(ns) => Sums(ms)[k] = Sums(ns)[k]}
<1>4. 0 \in S
  BY <1>2, <1>3
<1>5. ASSUME NEW k \in Nat, k \in S
      PROVE  k + 1 \in S
  <2> SUFFICES ASSUME k + 1 <= Len(ns)
               PROVE  Sums(ms)[k + 1] = Sums(ns)[k + 1]
    OBVIOUS
  <2>1. /\ k <= Len(ns) /\ k + 1 \in 1 .. Len(ns) /\ k + 1 \in 1 .. Len(ns) + 1
        /\ (k + 1) - 1 = k
    BY <1>1
  <2>2. Sums(ns)[k + 1] = Sums(ns)[(k + 1) - 1] + ns[k + 1]
    BY <1>2, <2>1
  <2>3. Sums(ms)[k + 1] = Sums(ms)[(k + 1) - 1] + ms[k + 1]
    BY <1>3, <2>1
  <2> QED BY <1>1, <1>5, <2>1, <2>2, <2>3
<1>6. Nat \subseteq S
  <2> HIDE DEF S
  <2> QED BY <1>4, <1>5, SetInduction
<1>7. Sums(ms)[Len(ns)] = Sums(ns)[Len(ns)]
  BY <1>1, <1>6
<1>8. Sums(ms)[Len(ns) + 1] = Sums(ns)[Len(ns)] + x
  <2>1. Len(ns) + 1 \in 1 .. Len(ns) + 1 /\ (Len(ns) + 1) - 1 = Len(ns)
    BY <1>1
  <2> QED BY <1>1, <1>3, <1>7, <2>1
<1>9. Sums(ns)[Len(ns)] \in Nat
  <2>1. Len(ns) \in 0 .. Len(ns)
    BY <1>1
  <2> QED BY <2>1, SumsGrow
<1> QED BY <1>1, <1>8, <1>9 DEF ms, Total

\* Nothing adds to nothing.
LEMMA TotalEmpty == Total(<<>>) = 0
<1>1. <<>> \in Seq(Nat) /\ Len(<<>>) = 0
  BY EmptySeq
<1> QED BY <1>1, SumsIs DEF Total

-----------------------------------------------------------------------------
(* Counts and Nth *)

\* Each truth value that holds counts for one.
LEMMA CountsIs ==
    ASSUME NEW bs \in Seq(BOOLEAN)
    PROVE  /\ Counts(bs)[0] = 0
           /\ \A k \in 1 .. Len(bs) :
                Counts(bs)[k] = Counts(bs)[k - 1] + (IF bs[k] THEN 1 ELSE 0)
           /\ \A k \in 0 .. Len(bs) : Counts(bs)[k] \in Nat
           /\ \A k \in 0 .. Len(bs), j \in 0 .. Len(bs) :
                j <= k => Counts(bs)[j] <= Counts(bs)[k]
<1> DEFINE ns == [n \in DOMAIN bs |-> IF bs[n] THEN 1 ELSE 0]
<1>1. Len(bs) \in Nat /\ DOMAIN bs = 1 .. Len(bs)
  BY LenProperties
<1>2. ns \in Seq(Nat) /\ Len(ns) = Len(bs)
  <2>1. ns = [n \in 1 .. Len(bs) |-> IF bs[n] THEN 1 ELSE 0]
    BY <1>1
  <2>2. \A n \in 1 .. Len(bs) : (IF bs[n] THEN 1 ELSE 0) \in Nat
    OBVIOUS
  <2> QED BY <1>1, <2>1, <2>2
<1>3. \A n \in 1 .. Len(bs) : ns[n] = IF bs[n] THEN 1 ELSE 0
  BY <1>1
<1>4. Counts(bs) = Sums(ns)
  BY DEF Counts
<1> HIDE DEF ns
<1>5. /\ Sums(ns)[0] = 0
      /\ \A k \in 1 .. Len(bs) : Sums(ns)[k] = Sums(ns)[k - 1] + ns[k]
  BY <1>2, SumsIs
<1>6. /\ \A k \in 0 .. Len(bs) : Sums(ns)[k] \in Nat
      /\ \A k \in 0 .. Len(bs), j \in 0 .. Len(bs) : j <= k => Sums(ns)[j] <= Sums(ns)[k]
  BY <1>2, SumsGrow
<1> QED BY <1>3, <1>4, <1>5, <1>6

\* There is a place for each of those counted.
LEMMA NthIs ==
    ASSUME NEW bs \in Seq(BOOLEAN), NEW k \in 1 .. Counts(bs)[Len(bs)]
    PROVE  /\ Nth(bs, k) \in 1 .. Len(bs)
           /\ bs[Nth(bs, k)] /\ Counts(bs)[Nth(bs, k)] = k
<1>1. Len(bs) \in Nat /\ DOMAIN bs = 1 .. Len(bs)
  BY LenProperties
<1>2. /\ Counts(bs)[0] = 0
      /\ \A n \in 1 .. Len(bs) :
           Counts(bs)[n] = Counts(bs)[n - 1] + (IF bs[n] THEN 1 ELSE 0)
      /\ \A n \in 0 .. Len(bs) : Counts(bs)[n] \in Nat
  BY CountsIs
<1> DEFINE C(n) == Counts(bs)[n]
           Found == \E n \in 1 .. Len(bs) : bs[n] /\ C(n) = k
           S == {n \in Nat : n <= Len(bs) /\ k <= C(n) => Found}
<1>3. 0 \in S
  BY <1>2
<1>4. ASSUME NEW n \in Nat, n \in S
      PROVE  n + 1 \in S
  <2> SUFFICES ASSUME n + 1 <= Len(bs), k <= C(n + 1)
               PROVE  Found
    OBVIOUS
  <2>1. n + 1 \in 1 .. Len(bs) /\ (n + 1) - 1 = n /\ n \in 0 .. Len(bs) /\ n <= Len(bs)
    BY <1>1
  <2>2. C(n + 1) = C((n + 1) - 1) + (IF bs[n + 1] THEN 1 ELSE 0)
    BY <1>2, <2>1
  <2>3. C(n) \in Nat
    BY <1>2, <2>1
  <2>4. CASE k <= C(n)
    BY <1>4, <2>1, <2>4
  <2>5. CASE ~(k <= C(n))
    <3> HIDE DEF C
    <3>1. bs[n + 1] /\ C(n + 1) = k
      BY <2>1, <2>2, <2>3, <2>5
    <3> QED BY <2>1, <3>1
  <2> QED BY <2>4, <2>5
<1>5. Nat \subseteq S
  <2> HIDE DEF S
  <2> QED BY <1>3, <1>4, SetInduction
<1>6. Found
  <2>1. Len(bs) \in S /\ k <= C(Len(bs))
    BY <1>1, <1>5
  <2> QED BY <1>1, <2>1
<1> QED BY <1>1, <1>6 DEF Nth

\* When all hold, the place is the number.
LEMMA CountsAll ==
    ASSUME NEW bs \in Seq(BOOLEAN), \A n \in 1 .. Len(bs) : bs[n]
    PROVE  \A k \in 0 .. Len(bs) : Counts(bs)[k] = k
<1>1. Len(bs) \in Nat
  BY LenProperties
<1>2. /\ Counts(bs)[0] = 0
      /\ \A n \in 1 .. Len(bs) :
           Counts(bs)[n] = Counts(bs)[n - 1] + (IF bs[n] THEN 1 ELSE 0)
  BY CountsIs
<1> DEFINE S == {n \in Nat : n <= Len(bs) => Counts(bs)[n] = n}
<1>3. 0 \in S
  BY <1>2
<1>4. ASSUME NEW n \in Nat, n \in S
      PROVE  n + 1 \in S
  <2> SUFFICES ASSUME n + 1 <= Len(bs)
               PROVE  Counts(bs)[n + 1] = n + 1
    OBVIOUS
  <2>1. n + 1 \in 1 .. Len(bs) /\ (n + 1) - 1 = n /\ n <= Len(bs)
    BY <1>1
  <2>2. Counts(bs)[n + 1] = Counts(bs)[(n + 1) - 1] + (IF bs[n + 1] THEN 1 ELSE 0)
    BY <1>2, <2>1
  <2> QED BY <1>4, <2>1, <2>2
<1>5. Nat \subseteq S
  <2> HIDE DEF S
  <2> QED BY <1>3, <1>4, SetInduction
<1> QED BY <1>1, <1>5

-----------------------------------------------------------------------------
(* Fronts of a sequence of sequences *)

\* The fronts of a sequence are made by appending.
LEMMA FrontOf ==
    ASSUME NEW T, NEW s \in Seq(T)
    PROVE  /\ SubSeq(s, 1, 0) = <<>> /\ SubSeq(s, 1, Len(s)) = s
           /\ \A n \in 0 .. Len(s) : SubSeq(s, 1, n) \in Seq(T) /\ Len(SubSeq(s, 1, n)) = n
           /\ \A n \in 1 .. Len(s) : SubSeq(s, 1, n) = Append(SubSeq(s, 1, n - 1), s[n])
<1>1. Len(s) \in Nat /\ \A k \in 1 .. Len(s) : s[k] \in T
  BY LenProperties, ElementOfSeq
<1>2. ASSUME NEW n \in 0 .. Len(s)
      PROVE  /\ SubSeq(s, 1, n) \in Seq(T) /\ Len(SubSeq(s, 1, n)) = n
             /\ \A k \in 1 .. n : SubSeq(s, 1, n)[k] = s[k]
  <2>1. SubSeq(s, 1, n) = [k \in 1 .. n |-> s[k]]
    <3>1. SubSeq(s, 1, n) = [k \in 1 .. (1 + n) - 1 |-> s[(k + 1) - 1]]
      BY <1>1
    <3>2. (1 + n) - 1 = n /\ \A k \in 1 .. n : (k + 1) - 1 = k
      BY <1>1
    <3> QED BY <3>1, <3>2
  <2>2. \A k \in 1 .. n : s[k] \in T
    BY <1>1
  <2> QED BY <1>1, <2>1, <2>2
<1>3. SubSeq(s, 1, 0) = <<>>
  <2>1. 0 \in 0 .. Len(s)
    BY <1>1
  <2>2. SubSeq(s, 1, 0) \in Seq(T) /\ Len(SubSeq(s, 1, 0)) = 0
    BY <1>2, <2>1
  <2> QED BY <2>2, EmptyLen
<1>4. SubSeq(s, 1, Len(s)) = s
  <2>1. Len(s) \in 0 .. Len(s)
    BY <1>1
  <2> QED BY <1>2, <2>1, SameSeq
<1>5. ASSUME NEW n \in 1 .. Len(s)
      PROVE  SubSeq(s, 1, n) = Append(SubSeq(s, 1, n - 1), s[n])
  <2> DEFINE f == SubSeq(s, 1, n - 1)
             a == Append(f, s[n])
  <2>1. n - 1 \in 0 .. Len(s) /\ n \in 0 .. Len(s) /\ (n - 1) + 1 = n /\ s[n] \in T
    BY <1>1
  <2>2. f \in Seq(T) /\ Len(f) = n - 1 /\ \A k \in 1 .. n - 1 : f[k] = s[k]
    BY <1>2, <2>1
  <2> HIDE DEF f
  <2>3. a \in Seq(T) /\ Len(a) = n /\ a[n] = s[n] /\ \A k \in 1 .. n - 1 : a[k] = s[k]
    BY <2>1, <2>2, AppendProperties
  <2> HIDE DEF a
  <2>4. \A k \in 1 .. n : a[k] = s[k]
    BY <1>1, <2>3
  <2>5. SubSeq(s, 1, n) = a
    BY <1>2, <2>1, <2>3, <2>4, SameSeq
  <2> QED BY <2>5 DEF a, f
<1> QED BY <1>2, <1>3, <1>4, <1>5

\* s begins with r.
Begins(r, s) == Len(r) <= Len(s) /\ \A i \in 1 .. Len(r) : r[i] = s[i]

\* What is in the first of some sequences is the beginning of what is in all.
LEMMA FlattenFront ==
    ASSUME NEW T, NEW ss \in Seq(Seq(T)), NEW n \in 0 .. Len(ss)
    PROVE  /\ FlattenSeq(ss) \in Seq(T) /\ FlattenSeq(SubSeq(ss, 1, n)) \in Seq(T)
           /\ Begins(FlattenSeq(SubSeq(ss, 1, n)), FlattenSeq(ss))
<1> DEFINE F(k) == FlattenSeq(SubSeq(ss, 1, k))
           S == {k \in Nat : n + k <= Len(ss) => Begins(F(n), F(n + k))}
<1>1. Len(ss) \in Nat /\ n \in Nat
  BY LenProperties
<1>2. \A k \in 0 .. Len(ss) : F(k) \in Seq(T)
  <2> TAKE k \in 0 .. Len(ss)
  <2>1. SubSeq(ss, 1, k) \in Seq(Seq(T)) /\ <<>> \in Seq(T)
    BY FrontOf, EmptySeq
  <2> QED BY <2>1, FlattenAppend
<1>3. 0 \in S
  <2>1. Len(F(n)) \in Nat /\ n + 0 = n
    BY <1>1, <1>2, LenProperties
  <2> QED BY <2>1 DEF Begins
<1>4. ASSUME NEW k \in Nat, k \in S
      PROVE  k + 1 \in S
  <2> SUFFICES ASSUME n + (k + 1) <= Len(ss)
               PROVE  Begins(F(n), F(n + (k + 1)))
    OBVIOUS
  <2> DEFINE m == n + (k + 1)
  <2>1. m \in 1 .. Len(ss) /\ m - 1 = n + k /\ m - 1 \in 0 .. Len(ss) /\ n + k <= Len(ss)
    BY <1>1
  <2>2. Begins(F(n), F(m - 1))
    BY <1>4, <2>1
  <2> HIDE DEF m
  <2>3. ss[m] \in Seq(T) /\ SubSeq(ss, 1, m - 1) \in Seq(Seq(T))
    BY <2>1, FrontOf, ElementOfSeq
  <2>4. F(m) = F(m - 1) \o ss[m]
    <3>1. SubSeq(ss, 1, m) = Append(SubSeq(ss, 1, m - 1), ss[m])
      BY <2>1, FrontOf
    <3> QED BY <2>3, <3>1, FlattenAppend
  <2>5. F(n) \in Seq(T) /\ F(m - 1) \in Seq(T)
    BY <1>2, <2>1
  <2> DEFINE a == F(n)
             b == F(m - 1)
  <2> HIDE DEF F
  <2>6. /\ Len(a) \in Nat /\ Len(b) \in Nat /\ Len(ss[m]) \in Nat
        /\ Len(b \o ss[m]) = Len(b) + Len(ss[m])
        /\ \A i \in 1 .. Len(b) : (b \o ss[m])[i] = b[i]
    <3>1. Len(a) \in Nat /\ Len(b) \in Nat /\ Len(ss[m]) \in Nat
      BY <2>3, <2>5, LenProperties
    <3>2. /\ Len(b \o ss[m]) = Len(b) + Len(ss[m])
          /\ \A i \in 1 .. Len(b) + Len(ss[m]) :
               (b \o ss[m])[i] = IF i <= Len(b) THEN b[i] ELSE ss[m][i - Len(b)]
      BY <2>3, <2>5, ConcatProperties
    <3> QED BY <3>1, <3>2
  <2>7. Len(a) <= Len(b) /\ \A i \in 1 .. Len(a) : a[i] = b[i]
    BY <2>2 DEF Begins
  <2> HIDE DEF a, b
  <2>8. Begins(a, b \o ss[m])
    BY <2>6, <2>7 DEF Begins
  <2> QED BY <2>4, <2>8 DEF a, b, m
<1>5. Nat \subseteq S
  <2> HIDE DEF S
  <2> QED BY <1>3, <1>4, SetInduction
<1>6. Len(ss) - n \in Nat /\ n + (Len(ss) - n) = Len(ss) /\ Len(ss) \in 0 .. Len(ss)
  BY <1>1
<1>7. Begins(F(n), F(Len(ss)))
  <2>1. Len(ss) - n \in S
    <3> HIDE DEF S
    <3> QED BY <1>5, <1>6
  <2>2. n + (Len(ss) - n) <= Len(ss)
    BY <1>1
  <2>3. Begins(F(n), F(n + (Len(ss) - n)))
    <3> HIDE DEF F
    <3> QED BY <2>1, <2>2
  <2> HIDE DEF F
  <2> QED BY <1>6, <2>3
<1>8. SubSeq(ss, 1, Len(ss)) = ss
  BY FrontOf
<1> QED BY <1>2, <1>6, <1>7, <1>8
=============================================================================
