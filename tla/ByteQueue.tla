----------------------------- MODULE ByteQueue ------------------------------
(***************************************************************************)
(* What a memory stream promises: a queue of bytes of bounded size.  A     *)
(* write is taken whole when there is room for it and refused otherwise, a *)
(* read gets the oldest bytes or is refused, and a copy moves bytes from   *)
(* one stream to another or changes nothing.                               *)
(***************************************************************************)
EXTENDS Integers, Sequences, SequencesExt

CONSTANTS
    Streams,  \* the streams
    Copies,   \* the pairs of streams copied from and to
    Size,     \* bytes a stream holds
    MaxByte   \* bound on the bytes written: they are numbered 1, 2, ...

VARIABLES
    queue,  \* the bytes in each stream
    next,   \* the number of the next byte
    got,    \* the bytes of the last read
    ret     \* the code of the last call

Room(s) == Size - Len(queue[s])

Init ==
    /\ queue = [s \in Streams |-> <<>>]
    /\ next = 1 /\ got = <<>> /\ ret = "ok"

Refuse(code) == ret' = code /\ got' = <<>> /\ UNCHANGED <<queue, next>>

Write(s, n) ==
    IF n > Room(s) THEN Refuse("eof")
    ELSE /\ queue' = [queue EXCEPT ![s] = @ \o [k \in 1 .. n |-> next + k - 1]]
         /\ next' = next + n /\ got' = <<>> /\ ret' = "ok"

Read(s, n) ==
    IF n > Len(queue[s]) THEN Refuse("eof")
    ELSE /\ got' = SubSeq(queue[s], 1, n)
         /\ queue' = [queue EXCEPT ![s] = SubSeq(@, n + 1, Len(@))]
         /\ ret' = "ok" /\ UNCHANGED next

Copy(s, d, n) ==
    IF n > Len(queue[s]) THEN Refuse("short source")
    ELSE IF n > Room(d) THEN Refuse("short destination")
    ELSE /\ queue' = [queue EXCEPT ![s] = SubSeq(@, n + 1, Len(@)),
                                   ![d] = @ \o SubSeq(queue[s], 1, n)]
         /\ got' = <<>> /\ ret' = "ok" /\ UNCHANGED next

Next ==
    \E s \in Streams, n \in 1 .. Size + 1 :
        \/ next + n - 1 <= MaxByte /\ Write(s, n)
        \/ Read(s, n)
        \/ \E d \in Streams : <<s, d>> \in Copies /\ Copy(s, d, n)

Spec == Init /\ [][Next]_<<queue, next, got, ret>>
=============================================================================
