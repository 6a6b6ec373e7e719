---------------------------- MODULE MCMemStream -----------------------------
(* MemStream with two streams, and copies from one to the other. *)
EXTENDS MemStream

CONSTANTS a, b
TwoStreams == {a, b}
OneWay == {<<a, b>>}
=============================================================================
