------------------------------- MODULE Totals -------------------------------
(***************************************************************************)
(* Sums over a sequence of numbers, as functions, and the same to count     *)
(* what holds in a sequence of truth values.                               *)
(***************************************************************************)
EXTENDS Integers, Sequences

\* The totals of the first 0, 1, ..., Len(ns) of the numbers ns.
Sums(ns) ==
    LET sum[k \in 0 .. Len(ns)] == IF k = 0 THEN 0 ELSE sum[k - 1] + ns[k]
    IN  sum

Total(ns) == Sums(ns)[Len(ns)]

\* How many of the first 0, 1, ..., Len(bs) of the truth values bs hold.
Counts(bs) == Sums([n \in DOMAIN bs |-> IF bs[n] THEN 1 ELSE 0])

\* Where the k-th is that holds.
Nth(bs, k) == CHOOSE n \in DOMAIN bs : bs[n] /\ Counts(bs)[n] = k
=============================================================================
