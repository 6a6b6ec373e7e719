--------------------------- MODULE EdfFileProofs ---------------------------
(***************************************************************************)
(* What holds of EdfFile for every number of sequence values, block        *)
(* capacity, set of types and values, and bound.                           *)
(*                                                                         *)
(* The properties of a reader depend on what writers did in earlier        *)
(* sessions.  FileOK says what every file satisfies, NextOK what the block *)
(* an open writer will produce next satisfies, if the file can still be    *)
(* extended; IInv joins them with the reader's position.  The lemmas on    *)
(* files are about one more frame, whole or torn; the actions use them     *)
(* once or twice.                                                          *)
(***************************************************************************)
EXTENDS EdfFile, SequenceTheorems, TLAPS

Pure(b) == \A n \in 1 .. Len(b) : b[n].k = "data"

\* What the blocks of file d satisfy, when the failures fl have happened.
FileOK(d, fl) ==
    /\ "lost" \notin fl => \A k \in Reachable(d) : d[k].seq = (k - 1) % SeqSpan
    /\ \A k \in 2 .. Len(d) : d[k].type # "header"
    /\ "lost" \notin fl => Governed(d)
    /\ "meta" \notin fl => \A k \in Reachable(d) : d[k].type = "data" => Pure(d[k].body)

\* What a writer that is about to number its block n, has gathered b and
\* writes data of type ty keeps to, as long as its blocks can be reached.
NextOK(d, n, b, ty, fl) ==
    Extendable(d) =>
        /\ "lost" \notin fl => n = Len(d) % SeqSpan
        /\ \A m \in 1 .. Len(b) : b[m].k = "data" => ty # NoType /\ b[m].t = ty
        /\ "lost" \notin fl /\ ty # NoType => \A j \in 1 .. Len(d) :
                GovernedBy(d, j, Len(d) + 1) => d[j].body[1].t = ty
        /\ "meta" \notin fl => Pure(b)

\* Where a reader stands.
ReaderOK ==
    /\ cursor <= Len(disk)
    /\ BlkSeq = cursor % SeqSpan
    /\ cursor > 0 => cursor \in Reachable(disk)
    /\ crcOn = (cursor > 0 /\ HasCrc(disk))
    /\ skew = (cursor > 0 /\ ~HasCrc(disk))

IInv ==
    /\ TypeOK
    /\ FileOK(disk, failed)
    /\ mode = "write" => NextOK(disk, BlkSeq, Block, t, failed)
    /\ mode = "read" => ReaderOK
    /\ mode # "read" => cursor = 0 /\ ~skew /\ ret = "ok"
    /\ mode = "shut" => BlkSeq = 0 /\ Block = <<>> /\ t = NoType /\ ~crcOn
    /\ NoSpuriousSeqError

-----------------------------------------------------------------------------
(* Arithmetic of block numbers *)

\* The remainder is unique.
LEMMA RemainderUnique ==
    ASSUME NEW q \in Int, NEW r \in Nat, NEW S \in Nat \ {0}, r < S
    PROVE  (S * q + r) % S = r
  BY SMT

\* Counting on from a wrapped number is counting on and then wrapping:
\* BlkSeq++ of a uint8_t.
LEMMA WrapSucc ==
    ASSUME NEW a \in Nat, NEW S \in Nat \ {0}
    PROVE  ((a % S) + 1) % S = (a + 1) % S
<1> DEFINE r == a % S
<1> DEFINE q == a \div S
<1>1. a = S * q + r /\ r \in Nat /\ r < S /\ q \in Int
  BY SMT
<1>2. CASE r + 1 < S
  <2>1. (S * q + (r + 1)) % S = r + 1
    BY <1>1, <1>2, RemainderUnique
  <2>2. (r + 1) % S = r + 1
    BY <1>1, <1>2
  <2>3. a + 1 = S * q + (r + 1)
    BY <1>1
  <2> QED BY <2>1, <2>2, <2>3
<1>3. CASE r + 1 = S
  <2>1. S * (q + 1) = S * q + S
    BY <1>1
  <2>2. (S * (q + 1) + 0) % S = 0
    BY <1>1, RemainderUnique
  <2>3. a + 1 = S * (q + 1) + 0
    <3> HIDE DEF q
    <3>1. S * (q + 1) \in Int /\ S * q \in Int
      BY <1>1
    <3> QED
      BY <1>1, <1>3, <2>1, <3>1
  <2>4. (S * 1 + 0) % S = 0
    BY RemainderUnique
  <2> QED BY <2>2, <2>3, <2>4, <1>3
<1> QED BY <1>1, <1>2, <1>3

\* A wrapped number is a uint8_t, and wrapping it again changes nothing.
LEMMA WrapIsSeq ==
    ASSUME NEW a \in Nat
    PROVE  /\ a % SeqSpan \in 0 .. SeqSpan - 1 /\ a % SeqSpan \in Nat
           /\ (a % SeqSpan) % SeqSpan = a % SeqSpan
  BY SeqSpanAssumption, SMT

-----------------------------------------------------------------------------
(* Files with one more frame *)

\* The blocks of a longer file that can be reached are those of the shorter one
\* and, if the shorter one can be extended, the new block.
LEMMA ReachableAppend ==
    ASSUME NEW d \in Seq(Frames), NEW f \in Frames
    PROVE  /\ \A k \in Reachable(d \o <<f>>) :
                 k \in Reachable(d) \/ (k = Len(d) + 1 /\ Extendable(d) /\ Whole(f))
           /\ Extendable(d \o <<f>>) => Extendable(d) /\ Whole(f)
<1> DEFINE e == d \o <<f>>
<1>1. /\ Len(e) = Len(d) + 1 /\ e[Len(d) + 1] = f
      /\ \A k \in 1 .. Len(d) : e[k] = d[k]
  OBVIOUS
<1>2. e # <<>> /\ (d # <<>> => (HasCrc(e) <=> HasCrc(d)))
  BY <1>1 DEF HasCrc
<1>3. Len(d) > 0 <=> d # <<>>
  OBVIOUS
<1>4. ASSUME NEW k \in Reachable(e)
      PROVE  k \in Reachable(d) \/ (k = Len(d) + 1 /\ Extendable(d) /\ Whole(f))
  <2> HIDE DEF e
  <2>1. k \in 1 .. Len(e) /\ (\A m \in 1 .. k : Whole(e[m])) /\ (k > 1 => HasCrc(e))
    BY <1>4 DEF Reachable
  <2>2. CASE k \in 1 .. Len(d)
    <3>1. \A m \in 1 .. k : Whole(d[m])
      BY <2>1, <2>2, <1>1
    <3>2. k > 1 => HasCrc(d)
      BY <2>1, <2>2, <1>2, <1>3
    <3> QED BY <2>2, <3>1, <3>2 DEF Reachable
  <2>3. CASE k = Len(d) + 1
    <3>1. \A m \in 1 .. Len(d) : Whole(d[m])
      BY <2>1, <2>3, <1>1
    <3>2. d # <<>> => HasCrc(d)
      BY <2>1, <2>3, <1>2, <1>3
    <3>3. Whole(f)
      BY <2>1, <2>3, <1>1
    <3> QED BY <2>3, <3>1, <3>2, <3>3 DEF Extendable
  <2> QED BY <2>1, <2>2, <2>3, <1>1
<1>5. ASSUME Extendable(e)
      PROVE  Extendable(d) /\ Whole(f)
  <2> HIDE DEF e
  <2>1. \A m \in 1 .. Len(d) : Whole(d[m])
    BY <1>5, <1>1 DEF Extendable
  <2>2. d # <<>> => HasCrc(d)
    BY <1>5, <1>2 DEF Extendable
  <2>3. Whole(f)
    BY <1>5, <1>1 DEF Extendable
  <2> QED BY <2>1, <2>2, <2>3 DEF Extendable
<1> QED BY <1>4, <1>5

\* A frame keeps a file good if, where it can be reached, it has the next
\* number and the content its type asks for.
LEMMA FileAppend ==
    ASSUME NEW d \in Seq(Frames), NEW f \in Frames, NEW fl,
           FileOK(d, fl),
           d # <<>> => f.type # "header",
           Extendable(d) /\ Whole(f) =>
               /\ "lost" \notin fl => f.seq = Len(d) % SeqSpan
               /\ f.type = "data" =>
                    /\ "lost" \notin fl => \A j \in 1 .. Len(d) : 
                          GovernedBy(d, j, Len(d) + 1) => \A n \in 1 .. Len(f.body) :
                             f.body[n].k = "data" => f.body[n].t = d[j].body[1].t
                    /\ "meta" \notin fl => Pure(f.body)
    PROVE  FileOK(d \o <<f>>, fl)
<1> DEFINE e == d \o <<f>>
<1>1. /\ Len(e) = Len(d) + 1 /\ e[Len(d) + 1] = f /\ Len(d) \in Nat
      /\ \A k \in 1 .. Len(d) : e[k] = d[k]
  OBVIOUS
<1>2. \A k \in Reachable(e) :
         k \in Reachable(d) \/ (k = Len(d) + 1 /\ Extendable(d) /\ Whole(f))
  BY ReachableAppend
<1>3. \A k \in Reachable(d) : k \in 1 .. Len(d)
  BY DEF Reachable
<1> HIDE DEF e
<1>4. ASSUME "lost" \notin fl, NEW k \in Reachable(e)
      PROVE  e[k].seq = (k - 1) % SeqSpan
  <2>1. CASE k \in Reachable(d)
    BY <2>1, <1>1, <1>3, <1>4 DEF FileOK
  <2>2. CASE k = Len(d) + 1 /\ Extendable(d) /\ Whole(f)
    <3>1. k - 1 = Len(d)
      BY <2>2, <1>1
    <3> QED BY <2>2, <3>1, <1>1, <1>4
  <2> QED BY <2>1, <2>2, <1>2, <1>4
<1>5. \A k \in 2 .. Len(e) : e[k].type # "header"
  <2> TAKE k \in 2 .. Len(e)
  <2>1. CASE k \in 2 .. Len(d)
    BY <2>1, <1>1 DEF FileOK
  <2>2. CASE k = Len(d) + 1
    BY <2>2, <1>1
  <2> QED BY <2>1, <2>2, <1>1
<1>6. "lost" \notin fl => Governed(e)
  <2> SUFFICES ASSUME "lost" \notin fl, NEW k \in Reachable(e), NEW j \in 1 .. Len(e),
                      e[k].type = "data", GovernedBy(e, j, k),
                      NEW n \in 1 .. Len(e[k].body), e[k].body[n].k = "data"
               PROVE  e[k].body[n].t = e[j].body[1].t
    BY DEF Governed
  <2>1. CASE k \in Reachable(d)
    <3>1. j \in 1 .. Len(d) /\ k \in 1 .. Len(d)
      BY <2>1, <1>1, <1>3 DEF GovernedBy
    <3>2. GovernedBy(d, j, k)
      BY <3>1, <1>1 DEF GovernedBy
    <3> QED BY <2>1, <3>1, <3>2, <1>1 DEF FileOK, Governed
  <2>2. CASE k = Len(d) + 1 /\ Extendable(d) /\ Whole(f)
    <3>1. j \in 1 .. Len(d)
      BY <2>2, <1>1 DEF GovernedBy
    <3>2. GovernedBy(d, j, Len(d) + 1)
      BY <2>2, <3>1, <1>1 DEF GovernedBy
    <3> QED BY <2>2, <3>1, <3>2, <1>1
  <2> QED BY <2>1, <2>2, <1>2
<1>7. "meta" \notin fl => \A k \in Reachable(e) : e[k].type = "data" => Pure(e[k].body)
  <2> SUFFICES ASSUME "meta" \notin fl, NEW k \in Reachable(e), e[k].type = "data"
               PROVE  Pure(e[k].body)
    OBVIOUS
  <2>1. CASE k \in Reachable(d)
    BY <2>1, <1>1, <1>3 DEF FileOK
  <2>2. CASE k = Len(d) + 1 /\ Extendable(d) /\ Whole(f)
    BY <2>2, <1>1
  <2> QED BY <2>1, <2>2, <1>2
<1> QED BY <1>4, <1>5, <1>6, <1>7 DEF FileOK, e

\* Nothing is required of a writer behind a torn block.
LEMMA NextAfterTorn ==
    ASSUME NEW d \in Seq(Frames), NEW f \in Frames, ~Whole(f),
           NEW n, NEW b, NEW ty, NEW fl
    PROVE  NextOK(d \o <<f>>, n, b, ty, fl)
  BY ReachableAppend DEF NextOK

\* A data frame made of what was gathered leaves an empty block of the same type.
LEMMA NextAfterData ==
    ASSUME NEW d \in Seq(Frames), NEW f \in Frames, f.type = "data",
           NEW n \in Nat, NEW b, NEW ty, NEW fl, NextOK(d, n, b, ty, fl)
    PROVE  NextOK(d \o <<f>>, (n + 1) % SeqSpan, <<>>, ty, fl)
<1> DEFINE e == d \o <<f>>
<1> SUFFICES ASSUME Extendable(e)
             PROVE  /\ "lost" \notin fl => (n + 1) % SeqSpan = Len(e) % SeqSpan
                    /\ "lost" \notin fl /\ ty # NoType => \A j \in 1 .. Len(e) :
                          GovernedBy(e, j, Len(e) + 1) => e[j].body[1].t = ty
  BY DEF NextOK, Pure
<1>1. /\ Len(e) = Len(d) + 1 /\ e[Len(d) + 1] = f /\ Len(d) \in Nat
      /\ \A k \in 1 .. Len(d) : e[k] = d[k]
  OBVIOUS
<1>2. Extendable(d)
  BY ReachableAppend
<1> HIDE DEF e
<1>3. "lost" \notin fl => (n + 1) % SeqSpan = Len(e) % SeqSpan
  BY <1>1, <1>2, WrapSucc, SeqSpanAssumption DEF NextOK
<1>4. ASSUME "lost" \notin fl, ty # NoType, NEW j \in 1 .. Len(e), GovernedBy(e, j, Len(e) + 1)
      PROVE  e[j].body[1].t = ty
  <2>1. j \in 1 .. Len(d)
    BY <1>1, <1>4 DEF GovernedBy
  <2>2. GovernedBy(d, j, Len(d) + 1)
    BY <1>1, <1>4, <2>1 DEF GovernedBy
  <2> QED BY <1>1, <1>2, <1>4, <2>1, <2>2 DEF NextOK
<1> QED BY <1>3, <1>4

\* A type description becomes the one that governs what follows.
LEMMA NextAfterInfo ==
    ASSUME NEW d \in Seq(Frames), NEW i \in Infos, NEW n \in Nat,
           InfoFrame(n, i) \in Frames,
           NEW b, NEW ty, NEW fl, NextOK(d, n, b, ty, fl)
    PROVE  NextOK(d \o <<InfoFrame(n, i)>>, (n + 1) % SeqSpan, <<>>, i, fl)
<1> DEFINE f == InfoFrame(n, i)
<1> DEFINE e == d \o <<f>>
<1> SUFFICES ASSUME Extendable(e)
             PROVE  /\ "lost" \notin fl => (n + 1) % SeqSpan = Len(e) % SeqSpan
                    /\ \A j \in 1 .. Len(e) :
                          GovernedBy(e, j, Len(e) + 1) => e[j].body[1].t = i
  BY DEF NextOK, Pure
<1>1. /\ Len(e) = Len(d) + 1 /\ e[Len(d) + 1] = f /\ Len(d) \in Nat
      /\ \A k \in 1 .. Len(d) : e[k] = d[k]
  OBVIOUS
<1>2. Extendable(d)
  BY ReachableAppend
<1>3. f.type = "info" /\ f.body[1].t = i
  BY DEF InfoFrame, Frame
<1> HIDE DEF e, f
<1>4. "lost" \notin fl => (n + 1) % SeqSpan = Len(e) % SeqSpan
  BY <1>1, <1>2, WrapSucc, SeqSpanAssumption DEF NextOK
<1>5. ASSUME NEW j \in 1 .. Len(e), GovernedBy(e, j, Len(e) + 1)
      PROVE  e[j].body[1].t = i
  <2>1. j = Len(d) + 1
    <3>1. SUFFICES ASSUME j \in 1 .. Len(d) PROVE FALSE
      BY <1>1
    <3>2. Len(d) + 1 \in j + 1 .. (Len(e) + 1) - 1
      BY <1>1, <3>1
    <3> QED BY <1>1, <1>3, <1>5, <3>2 DEF GovernedBy
  <2> QED BY <2>1, <1>1, <1>3
<1> QED BY <1>4, <1>5

-----------------------------------------------------------------------------
(* What a flush and a type description do to the file *)

\* The frames the writer makes are frames, and so are their torn remains.
LEMMA FrameTypes ==
    ASSUME TypeOK
    PROVE  /\ \A c \in CrcChoices : HeaderFrame(c) \in Frames
           /\ \A n \in Nat, i \in Infos : InfoFrame(n, i) \in Frames
           /\ \A n \in Nat, b \in Seq(Units) : Frame("data", n, b) \in Frames
           /\ \A f \in Frames : \A s \in Torn(f) :
                 s = <<>> \/ \E g \in Frames : /\ s = <<g>> /\ ~Whole(g)
                                               /\ g.type = f.type
<1>1. \A n \in Nat : n % SeqSpan \in 0 .. SeqSpan - 1
  BY WrapIsSeq
<1>2. \A i \in Infos : <<[k |-> "info", t |-> i]>> \in Seq(Units)
  BY DEF Units
<1>3. <<[k |-> "header", t |-> NoType]>> \in Seq(Units)
  BY DEF Units
<1>4. \A c \in CrcChoices : HeaderFrame(c) \in Frames
  BY <1>1, <1>3, CrcAssumption DEF HeaderFrame, Frame, Frames, TypeOK
<1>5. \A n \in Nat, i \in Infos : InfoFrame(n, i) \in Frames
  BY <1>1, <1>2 DEF InfoFrame, Frame, Frames, TypeOK
<1>6. \A n \in Nat, b \in Seq(Units) : Frame("data", n, b) \in Frames
  BY <1>1 DEF Frame, Frames, TypeOK
<1>7. ASSUME NEW f \in Frames, NEW s \in Torn(f), s # <<>>
      PROVE  \E g \in Frames : s = <<g>> /\ ~Whole(g) /\ g.type = f.type
  <2>1. PICK p \in {"head", "tail"} : s = <<[f EXCEPT !.part = p]>>
    BY <1>7 DEF Torn
  <2>2. [f EXCEPT !.part = p] \in Frames /\ ~Whole([f EXCEPT !.part = p])
        /\ [f EXCEPT !.part = p].type = f.type
    BY DEF Frames, Whole
  <2> QED BY <2>1, <2>2
<1> QED BY <1>4, <1>5, <1>6, <1>7

\* A torn frame of any kind leaves the file good.
LEMMA TornAppend ==
    ASSUME TypeOK, NEW d \in Seq(Frames), NEW f \in Frames, NEW s \in Torn(f), NEW fl,
           FileOK(d, fl), d # <<>> => f.type # "header"
    PROVE  /\ d \o s \in Seq(Frames) /\ FileOK(d \o s, fl)
           /\ s # <<>> => \A n, b, ty, gl : NextOK(d \o s, n, b, ty, gl)
<1>1. CASE s = <<>>
  <2>1. d \o s = d
    BY <1>1
  <2> QED BY <1>1, <2>1
<1>2. CASE s # <<>>
  <2>1. PICK g \in Frames : s = <<g>> /\ ~Whole(g) /\ g.type = f.type
    BY <1>2, FrameTypes
  <2>2. d \o <<g>> \in Seq(Frames)
    OBVIOUS
  <2>3. FileOK(d \o <<g>>, fl)
    BY <2>1, FileAppend
  <2>4. \A n, b, ty, gl : NextOK(d \o <<g>>, n, b, ty, gl)
    BY <2>1, NextAfterTorn
  <2> QED BY <2>1, <2>2, <2>3, <2>4
<1> QED BY <1>1, <1>2

\* EdfFlushDataBlock: the pending block, if any, goes to the file.
LEMMA FlushKeeps ==
    ASSUME IInv, mode = "write"
    PROVE  /\ disk \o DataFrames \in Seq(Frames)
           /\ FileOK(disk \o DataFrames, failed)
           /\ NextOK(disk \o DataFrames, SeqAfterFlush, <<>>, t, failed)
           /\ SeqAfterFlush \in 0 .. SeqSpan - 1
           /\ disk # <<>> => disk \o DataFrames # <<>>
<1> USE DEF IInv
<1>0. TypeOK /\ disk \in Seq(Frames) /\ BlkSeq \in Nat /\ Block \in Seq(Units)
  BY SeqSpanAssumption DEF TypeOK
<1>1. CASE Block = <<>>
  <2>1. DataFrames = <<>> /\ disk \o DataFrames = disk
    BY <1>1, <1>0 DEF DataFrames
  <2>2. SeqAfterFlush = BlkSeq
    BY <2>1, SeqSpanAssumption DEF SeqAfterFlush, TypeOK
  <2> QED BY <1>0, <1>1, <2>1, <2>2 DEF TypeOK
<1>2. CASE Block # <<>>
  <2> DEFINE f == Frame("data", BlkSeq, Block)
  <2>1. DataFrames = <<f>> /\ Len(DataFrames) = 1
    BY <1>2 DEF DataFrames
  <2>2. f \in Frames /\ f.type = "data" /\ f.seq = BlkSeq % SeqSpan /\ f.body = Block
    BY <1>0, FrameTypes DEF Frame
  <2>3. BlkSeq % SeqSpan = BlkSeq
    BY SeqSpanAssumption DEF TypeOK
  <2> HIDE DEF f
  <2>4. FileOK(disk \o <<f>>, failed)
    <3>1. NextOK(disk, BlkSeq, Block, t, failed)
      OBVIOUS
    <3>2. ASSUME Extendable(disk)
          PROVE  /\ "lost" \notin failed => \A j \in 1 .. Len(disk) :
                       GovernedBy(disk, j, Len(disk) + 1) => \A n \in 1 .. Len(f.body) :
                          f.body[n].k = "data" => f.body[n].t = disk[j].body[1].t
                 /\ "meta" \notin failed => Pure(f.body)
                 /\ "lost" \notin failed => f.seq = Len(disk) % SeqSpan
      BY <3>1, <3>2, <2>2, <2>3 DEF NextOK
    <3> QED BY <3>2, <2>2, <1>0, FileAppend
  <2>5. NextOK(disk \o <<f>>, (BlkSeq + 1) % SeqSpan, <<>>, t, failed)
    BY <1>0, <2>2, NextAfterData
  <2>6. SeqAfterFlush = (BlkSeq + 1) % SeqSpan /\ SeqAfterFlush \in 0 .. SeqSpan - 1
    BY <1>0, <2>1, WrapIsSeq DEF SeqAfterFlush
  <2> QED BY <1>0, <2>1, <2>2, <2>4, <2>5, <2>6
<1> QED BY <1>1, <1>2

\* EdfWriteInfo after its flush.
LEMMA InfoKeeps ==
    ASSUME TypeOK, NEW d \in Seq(Frames), NEW n \in 0 .. SeqSpan - 1, NEW i \in Infos,
           NEW b, NEW ty, NEW fl, FileOK(d, fl), NextOK(d, n, b, ty, fl)
    PROVE  /\ d \o <<InfoFrame(n, i)>> \in Seq(Frames)
           /\ FileOK(d \o <<InfoFrame(n, i)>>, fl)
           /\ NextOK(d \o <<InfoFrame(n, i)>>, (n + 1) % SeqSpan, <<>>, i, fl)
           /\ (n + 1) % SeqSpan \in 0 .. SeqSpan - 1
<1> DEFINE f == InfoFrame(n, i)
<1>1. n \in Nat /\ n % SeqSpan = n
  BY SeqSpanAssumption
<1>2. f \in Frames /\ f.type = "info" /\ f.seq = n
  BY <1>1, FrameTypes DEF InfoFrame, Frame
<1>3. FileOK(d \o <<f>>, fl)
  BY <1>2, FileAppend DEF NextOK
<1>4. NextOK(d \o <<f>>, (n + 1) % SeqSpan, <<>>, i, fl)
  BY <1>1, <1>2, NextAfterInfo
<1> QED BY <1>1, <1>2, <1>3, <1>4, WrapIsSeq

-----------------------------------------------------------------------------
(* The steps *)

\* A step of an open writer only has to look after the file and the next block.
LEMMA WriterStep ==
    ASSUME IInv, mode = "write", mode' = "write", UNCHANGED reading, TypeOK',
           FileOK(disk', failed'), NextOK(disk', BlkSeq', Block', t', failed')
    PROVE  IInv'
  BY DEF IInv, reading, NoSpuriousSeqError

\* Closing, and the crash, only have to look after the file.
LEMMA ShutStep ==
    ASSUME Shut, disk' \in Seq(Frames), failed' \subseteq {"data", "meta", "lost"},
           FileOK(disk', failed')
    PROVE  IInv'
<1>1. TypeOK'
  <2>1. Block' \in Seq(Units)
    BY DEF Shut
  <2>2. BlkSeq' \in 0 .. SeqSpan - 1 /\ cursor' \in Nat
    BY SeqSpanAssumption DEF Shut
  <2>3. crcOn' \in BOOLEAN /\ skew' \in BOOLEAN
    BY DEF Shut
  <2>4. mode' \in {"shut", "write", "read"} /\ t' \in Infos \cup {NoType}
        /\ ret' \in {"ok", "eof"} \cup Errors
    BY DEF Shut
  <2> QED BY <2>1, <2>2, <2>3, <2>4 DEF TypeOK
<1> QED BY <1>1 DEF IInv, Shut, NoSpuriousSeqError

\* More failures ask less of the file.
LEMMA MoreFailures ==
    ASSUME NEW d, NEW fl, NEW gl, FileOK(d, fl), fl \subseteq gl
    PROVE  FileOK(d, gl)
  BY DEF FileOK

LEMMA InitInv == Init => IInv
<1> SUFFICES ASSUME Init PROVE IInv
  OBVIOUS
<1>1. TypeOK
  <2>1. disk \in Seq(Frames) /\ Block \in Seq(Units)
    BY DEF Init
  <2>2. BlkSeq \in 0 .. SeqSpan - 1 /\ cursor \in Nat
    BY SeqSpanAssumption DEF Init
  <2>3. crcOn \in BOOLEAN /\ skew \in BOOLEAN /\ failed \subseteq {"data", "meta", "lost"}
    BY DEF Init
  <2>4. mode \in {"shut", "write", "read"} /\ t \in Infos \cup {NoType}
        /\ ret \in {"ok", "eof"} \cup Errors
    BY DEF Init
  <2> QED BY <2>1, <2>2, <2>3, <2>4 DEF TypeOK
<1>2. FileOK(disk, failed)
  BY DEF Init, FileOK, Reachable, Governed
<1> QED BY <1>1, <1>2 DEF Init, IInv, NoSpuriousSeqError

LEMMA OpenWriteStep == IInv /\ OpenWrite => IInv'
<1> SUFFICES ASSUME IInv, OpenWrite PROVE IInv'
  OBVIOUS
<1>1. TypeOK'
  BY DEF IInv, OpenWrite, TypeOK, reading
<1>2. FileOK(disk', failed')
  BY DEF OpenWrite, FileOK, Reachable, Governed
<1>3. NextOK(disk', BlkSeq', Block', t', failed')
  BY SeqSpanAssumption DEF IInv, OpenWrite, NextOK, Pure
<1> QED BY <1>1, <1>2, <1>3 DEF IInv, OpenWrite, reading, NoSpuriousSeqError

LEMMA OpenAppendStep == IInv /\ OpenAppend => IInv'
<1> SUFFICES ASSUME IInv, OpenAppend PROVE IInv'
  OBVIOUS
<1>1. PICK n \in 0 .. Len(disk) :
         /\ ReadsUpTo(n) /\ MayEnd(n) /\ BlkSeq' = n % SeqSpan
         /\ crcOn' = (n > 0 /\ HasCrc(disk))
         /\ Block' \in IF SkewAfter(n) THEN {<<>>, <<Junk>>}
                      ELSE IF n < Len(disk) THEN Leftover(disk[n + 1]) ELSE {<<>>}
  BY DEF OpenAppend
<1>2. Len(disk) \in Nat /\ n \in Nat
  BY DEF IInv, TypeOK
<1>3. Block' \in {<<>>, <<Junk>>} /\ (~SkewAfter(n) /\ n = Len(disk) => Block' = <<>>)
  BY <1>1, <1>2 DEF Leftover
<1>4. TypeOK'
  <2>1. Junk \in Units
    BY DEF Junk, Units
  <2>2. crcOn' \in BOOLEAN
    BY <1>1
  <2>3. Block' \in Seq(Units)
    <3>1. <<>> \in Seq(Units) /\ <<Junk>> \in Seq(Units)
      BY <2>1
    <3> QED BY <1>3, <3>1, Zenon
  <2>4. BlkSeq' \in 0 .. SeqSpan - 1
    BY <1>1, <1>2, WrapIsSeq
  <2> QED BY <2>2, <2>3, <2>4 DEF IInv, OpenAppend, TypeOK, reading
<1>5. ASSUME Extendable(disk)
      PROVE  /\ n = Len(disk) /\ ~SkewAfter(n)
  <2>1. ~SkewAfter(n)
    BY <1>2, <1>5 DEF Extendable, SkewAfter, IInv, TypeOK
  <2>2. n < Len(disk) => Whole(disk[n + 1])
    BY <1>2, <1>5 DEF Extendable
  <2> QED BY <1>1, <1>2, <2>1, <2>2 DEF MayEnd
<1>6. NextOK(disk', BlkSeq', Block', t', failed')
  <2>1. disk' = disk /\ t' = NoType
    BY DEF OpenAppend
  <2>2. Extendable(disk) => BlkSeq' = Len(disk) % SeqSpan /\ Block' = <<>>
    BY <1>1, <1>3, <1>5
  <2> QED BY <2>1, <2>2 DEF NextOK, Pure
<1> QED BY <1>4, <1>6 DEF IInv, OpenAppend, reading, NoSpuriousSeqError

LEMMA OpenReadStep == IInv /\ OpenRead => IInv'
<1> SUFFICES ASSUME IInv, OpenRead PROVE IInv'
  OBVIOUS
<1>1. TypeOK'
  BY DEF IInv, OpenRead, TypeOK, reading
<1>2. ReaderOK'
  BY SeqSpanAssumption DEF IInv, OpenRead, ReaderOK, reading, TypeOK
<1> QED BY <1>1, <1>2 DEF IInv, OpenRead, reading, NoSpuriousSeqError

LEMMA WriteHeaderStep ==
    ASSUME NEW c \in CrcChoices, IInv, WriteHeader(c)
    PROVE  IInv'
<1> DEFINE f == HeaderFrame(c)
<1>1. f \in Frames /\ f.type = "header" /\ f.seq = 0
  BY FrameTypes, SeqSpanAssumption DEF IInv, HeaderFrame, Frame
<1>2. disk' = <<>> \o <<f>> /\ disk = <<>>
  BY DEF WriteHeader
<1> HIDE DEF f
<1>3. FileOK(disk', failed')
  <2>1. FileOK(<<>>, failed) /\ failed' = failed /\ 0 % SeqSpan = 0 /\ <<>> \in Seq(Frames)
    BY <1>2, SeqSpanAssumption DEF IInv, WriteHeader
  <2> QED BY <1>1, <1>2, <2>1, FileAppend
<1>4. NextOK(disk', BlkSeq', Block', t', failed')
  <2>1. Len(disk') = 1 /\ disk'[1] = f
    BY <1>2
  <2>2. \A j \in 1 .. Len(disk') : ~GovernedBy(disk', j, Len(disk') + 1)
    BY <1>1, <2>1 DEF GovernedBy
  <2> QED BY <2>1, <2>2 DEF WriteHeader, NextOK, Pure
<1>5. TypeOK'
  BY <1>1, <1>2, CrcAssumption, WrapIsSeq DEF IInv, WriteHeader, Writing, TypeOK, reading
<1> QED BY <1>3, <1>4, <1>5, WriterStep DEF WriteHeader, Writing

LEMMA WriteHeaderFailsStep ==
    ASSUME NEW c \in CrcChoices, IInv, WriteHeaderFails(c)
    PROVE  IInv'
<1> DEFINE f == HeaderFrame(c)
<1>1. f \in Frames /\ f.type = "header" /\ TypeOK
  BY FrameTypes DEF IInv, HeaderFrame, Frame
<1>2. disk = <<>> /\ disk' \in Torn(f) /\ failed' = failed \cup {"meta"}
  BY DEF WriteHeaderFails, Fail
<1>3. FileOK(disk, failed')
  BY <1>2, MoreFailures DEF IInv
<1> HIDE DEF f
<1>4. disk' \in Seq(Frames)
  <2>1. disk' = <<>> \/ \E g \in Frames : disk' = <<g>>
    BY <1>1, <1>2, FrameTypes
  <2>2. <<>> \in Seq(Frames) /\ \A g \in Frames : <<g>> \in Seq(Frames)
    OBVIOUS
  <2> QED BY <2>1, <2>2, Zenon
<1>5. FileOK(disk', failed') /\ (disk' # <<>> => NextOK(disk', BlkSeq', Block', t', failed'))
  <2>1. <<>> \in Seq(Frames) /\ <<>> \o disk' = disk'
    BY <1>4
  <2>2. FileOK(<<>>, failed')
    BY <1>2, <1>3
  <2> HIDE DEF FileOK, NextOK
  <2>3. /\ FileOK(<<>> \o disk', failed')
        /\ disk' # <<>> => \A n, b, ty, gl : NextOK(<<>> \o disk', n, b, ty, gl)
    BY <1>1, <1>2, <2>1, <2>2, TornAppend
  <2> QED BY <2>1, <2>3
<1>6. disk' = <<>> => NextOK(disk', BlkSeq', Block', t', failed')
  BY <1>2, SeqSpanAssumption DEF WriteHeaderFails, Fail, NextOK, Junk
<1>7. TypeOK'
  <2>1. Junk \in Units
    BY DEF Junk, Units
  <2> QED BY <1>1, <1>2, <1>4, <2>1, CrcAssumption, SeqSpanAssumption
          DEF WriteHeaderFails, Writing, TypeOK, reading
<1> QED BY <1>5, <1>6, <1>7, WriterStep DEF WriteHeaderFails, Writing

LEMMA WriteHeaderLostStep ==
    ASSUME NEW c \in CrcChoices, IInv, WriteHeaderLost(c)
    PROVE  IInv'
<1> DEFINE f == HeaderFrame(c)
<1>1. f \in Frames /\ f.type = "header" /\ TypeOK
  BY FrameTypes DEF IInv, HeaderFrame, Frame
<1>2. /\ disk = <<>> /\ disk' \in Torn(f) /\ failed' = failed \cup {"lost"}
      /\ BlkSeq' = 1 % SeqSpan /\ Block' = <<>>
  BY DEF WriteHeaderLost, Fail
<1>3. FileOK(<<>>, failed')
  BY <1>2, MoreFailures DEF IInv
<1> HIDE DEF f
<1>4. disk' \in Seq(Frames) /\ <<>> \o disk' = disk'
  <2>1. disk' = <<>> \/ \E g \in Frames : disk' = <<g>>
    BY <1>1, <1>2, FrameTypes
  <2>2. <<>> \in Seq(Frames) /\ \A g \in Frames : <<g>> \in Seq(Frames)
    OBVIOUS
  <2>3. disk' \in Seq(Frames)
    BY <2>1, <2>2, Zenon
  <2> QED BY <2>3
<1>5. FileOK(disk', failed') /\ (disk' # <<>> => NextOK(disk', BlkSeq', Block', t', failed'))
  <2>1. <<>> \in Seq(Frames)
    OBVIOUS
  <2> HIDE DEF FileOK, NextOK
  <2>2. /\ FileOK(<<>> \o disk', failed')
        /\ disk' # <<>> => \A n, b, ty, gl : NextOK(<<>> \o disk', n, b, ty, gl)
    BY <1>1, <1>2, <1>3, <2>1, TornAppend
  <2> QED BY <1>4, <2>2
<1>6. disk' = <<>> => NextOK(disk', BlkSeq', Block', t', failed')
  BY <1>2 DEF NextOK, Pure
<1>7. TypeOK'
  BY <1>1, <1>2, <1>4, CrcAssumption, WrapIsSeq
     DEF WriteHeaderLost, Writing, TypeOK, reading
<1> QED BY <1>5, <1>6, <1>7, WriterStep DEF WriteHeaderLost, Writing

LEMMA WriteInfoStep ==
    ASSUME NEW i \in Infos, IInv, WriteInfo(i)
    PROVE  IInv'
<1> DEFINE d == disk \o DataFrames
<1> DEFINE n == SeqAfterFlush
<1>1. TypeOK /\ mode = "write"
  BY DEF IInv, WriteInfo, Writing
<1>2. /\ d \in Seq(Frames) /\ FileOK(d, failed) /\ NextOK(d, n, <<>>, t, failed)
      /\ n \in 0 .. SeqSpan - 1
  BY <1>1, FlushKeeps
<1>3. /\ disk' = d \o <<InfoFrame(n, i)>> /\ BlkSeq' = (n + 1) % SeqSpan
      /\ Block' = <<>> /\ t' = i /\ failed' = failed
  BY DEF WriteInfo
<1> HIDE DEF d, n
<1>4. /\ disk' \in Seq(Frames) /\ FileOK(disk', failed')
      /\ NextOK(disk', BlkSeq', Block', t', failed') /\ BlkSeq' \in 0 .. SeqSpan - 1
  BY <1>1, <1>2, <1>3, InfoKeeps
<1>5. TypeOK'
  BY <1>1, <1>3, <1>4 DEF WriteInfo, TypeOK, reading
<1> QED BY <1>1, <1>4, <1>5, WriterStep DEF WriteInfo

LEMMA WriteInfoFailsStep ==
    ASSUME NEW i \in Infos, IInv, WriteInfoFails(i)
    PROVE  IInv'
<1> DEFINE d == disk \o DataFrames
<1> DEFINE n == SeqAfterFlush
<1> DEFINE f == InfoFrame(n, i)
<1>1. TypeOK /\ mode = "write"
  BY DEF IInv, WriteInfoFails, Writing
<1>2. /\ d \in Seq(Frames) /\ FileOK(d, failed) /\ NextOK(d, n, <<>>, t, failed)
      /\ n \in 0 .. SeqSpan - 1
  BY <1>1, FlushKeeps
<1>3. f \in Frames /\ f.type = "info"
  <2>1. n \in Nat
    BY <1>2, SeqSpanAssumption
  <2> QED BY <1>1, <2>1, FrameTypes DEF InfoFrame, Frame
<1>4. PICK s \in Torn(f) : disk' = d \o s
  BY DEF WriteInfoFails
<1>5. BlkSeq' = n /\ Block' = <<Junk>> /\ t' = t /\ failed' = failed \cup {"meta"}
  BY DEF WriteInfoFails, Fail
<1> HIDE DEF d, n, f
<1>6. FileOK(d, failed')
  BY <1>2, <1>5, MoreFailures
<1>7. /\ disk' \in Seq(Frames) /\ FileOK(disk', failed')
      /\ s # <<>> => NextOK(disk', BlkSeq', Block', t', failed')
  BY <1>1, <1>2, <1>3, <1>4, <1>6, TornAppend
<1>8. s = <<>> => NextOK(disk', BlkSeq', Block', t', failed')
  <2>1. s = <<>> => disk' = d
    BY <1>2, <1>4
  <2>2. NextOK(d, n, <<Junk>>, t, failed')
    BY <1>2, <1>5 DEF NextOK, Junk
  <2> QED BY <1>5, <2>1, <2>2
<1>9. TypeOK'
  <2>1. <<Junk>> \in Seq(Units)
    BY DEF Junk, Units
  <2> QED BY <1>1, <1>2, <1>5, <1>7, <2>1 DEF WriteInfoFails, TypeOK, reading
<1> QED BY <1>1, <1>7, <1>8, <1>9, WriterStep DEF WriteInfoFails

LEMMA WriteInfoLostStep ==
    ASSUME NEW i \in Infos, IInv, WriteInfoLost(i)
    PROVE  IInv'
<1> DEFINE d == disk \o DataFrames
<1> DEFINE n == SeqAfterFlush
<1> DEFINE f == InfoFrame(n, i)
<1>1. TypeOK /\ mode = "write"
  BY DEF IInv, WriteInfoLost, Writing
<1>2. d \in Seq(Frames) /\ FileOK(d, failed) /\ n \in 0 .. SeqSpan - 1 /\ n \in Nat
  BY <1>1, FlushKeeps, SeqSpanAssumption
<1>3. f \in Frames /\ f.type = "info"
  BY <1>1, <1>2, FrameTypes DEF InfoFrame, Frame
<1>4. PICK s \in Torn(f) : disk' = d \o s
  BY DEF WriteInfoLost
<1>5. /\ BlkSeq' = (n + 1) % SeqSpan /\ Block' = <<>> /\ t' = i
      /\ failed' = failed \cup {"lost"}
  BY DEF WriteInfoLost, Fail
<1> HIDE DEF d, n, f
<1>6. disk' \in Seq(Frames) /\ FileOK(disk', failed')
  BY <1>1, <1>2, <1>3, <1>4, <1>5, MoreFailures, TornAppend
<1>7. NextOK(disk', BlkSeq', Block', t', failed')
  BY <1>5 DEF NextOK, Pure
<1>8. TypeOK'
  <2>1. BlkSeq' \in 0 .. SeqSpan - 1
    BY <1>2, <1>5, WrapIsSeq
  <2> QED BY <1>1, <1>5, <1>6, <2>1 DEF WriteInfoLost, TypeOK, reading
<1> QED BY <1>1, <1>6, <1>7, <1>8, WriterStep DEF WriteInfoLost

\* A primitive appended to what was gathered has the current type.
LEMMA NextWithUnit ==
    ASSUME NEW d \in Seq(Frames), NEW n, NEW b \in Seq(Units), NEW ty, NEW fl, NEW x,
           ty # NoType, NextOK(d, n, b, ty, fl)
    PROVE  NextOK(d, n, Append(b, [k |-> "data", t |-> ty, x |-> x]), ty, fl)
<1> DEFINE u == [k |-> "data", t |-> ty, x |-> x]
<1>1. /\ Len(Append(b, u)) = Len(b) + 1 /\ Append(b, u)[Len(b) + 1] = u
      /\ \A m \in 1 .. Len(b) : Append(b, u)[m] = b[m]
  OBVIOUS
<1>2. u.k = "data" /\ u.t = ty
  OBVIOUS
<1> HIDE DEF u
<1>3. ASSUME Extendable(d), NEW m \in 1 .. Len(Append(b, u)), Append(b, u)[m].k = "data"
      PROVE  Append(b, u)[m].t = ty
  <2>1. m = Len(b) + 1 \/ m \in 1 .. Len(b)
    BY <1>1
  <2> QED BY <1>1, <1>2, <1>3, <2>1 DEF NextOK
<1>4. ASSUME Extendable(d), "meta" \notin fl
      PROVE  Pure(Append(b, u))
  BY <1>1, <1>2, <1>4 DEF NextOK, Pure
<1> QED BY <1>3, <1>4 DEF NextOK, u

LEMMA WriteDataStep ==
    ASSUME NEW x \in Values, IInv, WriteData(x)
    PROVE  IInv'
<1> DEFINE u == [k |-> "data", t |-> t, x |-> x]
<1>1. /\ TypeOK /\ mode = "write" /\ t # NoType /\ t' = t /\ failed' = failed
      /\ UNCHANGED <<mode, crcOn, reading>>
  BY DEF IInv, WriteData, Writing
<1>2. u \in Units /\ Block \in Seq(Units) /\ <<u>> = Append(<<>>, u)
  BY <1>1 DEF Units, TypeOK
<1>3. CASE Len(Block) >= BlockCap
  <2>1. Block # <<>>
    BY <1>3, BlockCapAssumption
  <2>2. DataFrames # <<>>
    BY <2>1 DEF DataFrames
  <2>3. disk' = disk \o DataFrames /\ BlkSeq' = SeqAfterFlush /\ Block' = <<u>>
    BY <1>3, <2>2 DEF WriteData, SeqAfterFlush
  <2> HIDE DEF u
  <2>4. NextOK(disk', BlkSeq', Append(<<>>, u), t, failed)
    <3> USE DEF u
    <3>1. <<>> \in Seq(Units)
      OBVIOUS
    <3> QED BY <1>1, <2>3, <3>1, FlushKeeps, NextWithUnit
  <2>5. TypeOK' /\ FileOK(disk', failed')
    BY <1>1, <1>2, <2>3, FlushKeeps DEF TypeOK, reading
  <2> QED BY <1>1, <1>2, <2>3, <2>4, <2>5, WriterStep
<1>4. CASE ~(Len(Block) >= BlockCap)
  <2>1. disk' = disk \o <<>> /\ BlkSeq' = (BlkSeq + 0) % SeqSpan /\ Block' = Append(Block, u)
    BY <1>4 DEF WriteData
  <2>2. disk' = disk /\ BlkSeq' = BlkSeq
    <3>1. disk \in Seq(Frames) /\ BlkSeq \in 0 .. SeqSpan - 1
      BY <1>1 DEF TypeOK
    <3>2. disk \o <<>> = disk
      BY <3>1
    <3>3. (BlkSeq + 0) % SeqSpan = BlkSeq
      BY <3>1, SeqSpanAssumption
    <3> QED BY <2>1, <3>2, <3>3
  <2>3. NextOK(disk', BlkSeq', Block', t', failed')
    BY <1>1, <2>1, <2>2, NextWithUnit DEF IInv, TypeOK
  <2> HIDE DEF u
  <2>4. TypeOK' /\ FileOK(disk', failed')
    BY <1>1, <1>2, <2>1, <2>2 DEF IInv, TypeOK, reading
  <2> QED BY <1>1, <2>3, <2>4, WriterStep
<1> QED BY <1>3, <1>4

LEMMA FlushStep == IInv /\ Flush => IInv'
<1> SUFFICES ASSUME IInv, Flush PROVE IInv'
  OBVIOUS
<1>1. mode = "write" /\ mode' = "write" /\ TypeOK
  BY DEF IInv, Flush, Writing
<1>2. /\ disk' = disk \o DataFrames /\ BlkSeq' = SeqAfterFlush /\ Block' = <<>>
      /\ t' = t /\ failed' = failed
  BY DEF Flush
<1>3. TypeOK'
  BY <1>1, <1>2, FlushKeeps DEF Flush, TypeOK, reading
<1> QED BY <1>1, <1>2, <1>3, FlushKeeps, WriterStep DEF Flush

\* The pending block written in part.
LEMMA TornFlush ==
    ASSUME IInv, mode = "write", Block # <<>>, NEW s \in Torn(DataFrames[1])
    PROVE  /\ disk \o s \in Seq(Frames) /\ FileOK(disk \o s, failed)
           /\ s # <<>> => \A n, b, ty, gl : NextOK(disk \o s, n, b, ty, gl)
<1> DEFINE f == DataFrames[1]
<1>1. f = Frame("data", BlkSeq, Block)
  BY DEF DataFrames
<1>2. TypeOK /\ BlkSeq \in Nat /\ Block \in Seq(Units) /\ disk \in Seq(Frames)
  BY SeqSpanAssumption DEF IInv, TypeOK
<1>3. f \in Frames /\ f.type = "data"
  BY <1>1, <1>2, FrameTypes DEF Frame
<1> QED BY <1>2, <1>3, TornAppend DEF IInv

LEMMA FlushFailsStep == IInv /\ FlushFails => IInv'
<1> SUFFICES ASSUME IInv, FlushFails PROVE IInv'
  OBVIOUS
<1>1. mode = "write" /\ mode' = "write" /\ TypeOK /\ Block # <<>>
  BY DEF IInv, FlushFails, Writing
<1>2. PICK s \in Torn(DataFrames[1]) : disk' = disk \o s
  BY DEF FlushFails
<1>3. /\ BlkSeq' = BlkSeq /\ Block' = Block /\ t' = t /\ failed' = failed \cup {"data"}
      /\ ("meta" \in failed' <=> "meta" \in failed)
      /\ ("lost" \in failed' <=> "lost" \in failed)
  BY DEF FlushFails, Fail
<1>4. disk' \in Seq(Frames) /\ FileOK(disk', failed')
  BY <1>1, <1>2, <1>3, TornFlush, MoreFailures
<1>5. NextOK(disk', BlkSeq', Block', t', failed')
  <2>1. CASE s = <<>>
    <3>1. disk' = disk
      BY <1>1, <1>2, <2>1 DEF TypeOK
    <3> QED BY <1>1, <1>3, <3>1 DEF IInv, NextOK
  <2>2. CASE s # <<>>
    BY <1>1, <1>2, <2>2, TornFlush
  <2> QED BY <2>1, <2>2
<1>6. TypeOK'
  BY <1>1, <1>3, <1>4 DEF FlushFails, TypeOK, reading
<1> QED BY <1>1, <1>4, <1>5, <1>6, WriterStep DEF FlushFails

LEMMA FlushLostStep == IInv /\ FlushLost => IInv'
<1> SUFFICES ASSUME IInv, FlushLost PROVE IInv'
  OBVIOUS
<1>1. mode = "write" /\ mode' = "write" /\ TypeOK /\ Block # <<>>
  BY DEF IInv, FlushLost, Writing
<1>2. PICK s \in Torn(DataFrames[1]) : disk' = disk \o s
  BY DEF FlushLost
<1>3. BlkSeq' = SeqAfterFlush /\ Block' = <<>> /\ t' = t /\ failed' = failed \cup {"lost"}
  BY DEF FlushLost, Fail
<1>4. disk' \in Seq(Frames) /\ FileOK(disk', failed')
  BY <1>1, <1>2, <1>3, TornFlush, MoreFailures
<1>5. NextOK(disk', BlkSeq', Block', t', failed')
  BY <1>3 DEF NextOK, Pure
<1>6. TypeOK'
  BY <1>1, <1>3, <1>4, FlushKeeps DEF FlushLost, TypeOK, reading
<1> QED BY <1>1, <1>4, <1>5, <1>6, WriterStep DEF FlushLost

LEMMA CloseWriteStep == IInv /\ CloseWrite => IInv'
<1> SUFFICES ASSUME IInv, CloseWrite PROVE IInv'
  OBVIOUS
<1>1. mode = "write" /\ disk' = disk \o DataFrames /\ Shut /\ failed' = failed
  BY DEF CloseWrite, Writing
<1>2. disk' \in Seq(Frames) /\ FileOK(disk', failed')
  BY <1>1, FlushKeeps
<1> QED BY <1>1, <1>2, ShutStep DEF IInv, TypeOK

LEMMA CrashStep == IInv /\ Crash => IInv'
<1> SUFFICES ASSUME IInv, Crash PROVE IInv'
  OBVIOUS
<1>1. mode = "write" /\ Shut /\ failed' = failed /\ TypeOK
  BY DEF IInv, Crash
<1>2. PICK s \in InFlight : disk' = disk \o s
  BY DEF Crash
<1>3. disk \in Seq(Frames) /\ FileOK(disk, failed)
  BY DEF IInv, TypeOK
<1>4. disk' \in Seq(Frames) /\ FileOK(disk', failed')
  <2>1. CASE s = <<>>
    <3>1. disk' = disk
      BY <1>2, <1>3, <2>1
    <3> QED BY <1>1, <1>3, <3>1
  <2>2. CASE Block # <<>> /\ s \in Torn(DataFrames[1])
    BY <1>1, <1>2, <2>2, TornFlush
  <2>3. ASSUME disk = <<>>, NEW c \in CrcChoices, s \in Torn(HeaderFrame(c))
        PROVE  disk' \in Seq(Frames) /\ FileOK(disk', failed')
    <3>1. HeaderFrame(c) \in Frames
      BY <1>1, FrameTypes
    <3> QED BY <1>1, <1>2, <1>3, <2>3, <3>1, TornAppend
  <2>4. ASSUME NEW i \in Infos, NEW u \in Torn(InfoFrame(SeqAfterFlush, i)),
               s = DataFrames \o u
        PROVE  disk' \in Seq(Frames) /\ FileOK(disk', failed')
    <3> DEFINE d == disk \o DataFrames
    <3> DEFINE f == InfoFrame(SeqAfterFlush, i)
    <3>1. d \in Seq(Frames) /\ FileOK(d, failed) /\ SeqAfterFlush \in Nat
      BY <1>1, FlushKeeps, SeqSpanAssumption
    <3>2. f \in Frames /\ f.type = "info"
      BY <1>1, <3>1, FrameTypes DEF InfoFrame, Frame
    <3>3. DataFrames \in Seq(Frames) /\ u \in Seq(Frames)
      <4>1. Block # <<>> => Frame("data", BlkSeq, Block) \in Frames
        BY <1>1, FrameTypes, SeqSpanAssumption DEF TypeOK
      <4>2. DataFrames \in Seq(Frames)
        BY <4>1 DEF DataFrames
      <4>3. u = <<>> \/ \E g \in Frames : u = <<g>>
        BY <1>1, <2>4, <3>2, FrameTypes
      <4>4. <<>> \in Seq(Frames) /\ \A g \in Frames : <<g>> \in Seq(Frames)
        OBVIOUS
      <4>5. u \in Seq(Frames)
        BY <4>3, <4>4, Zenon
      <4> QED BY <4>2, <4>5
    <3>4. disk' = d \o u
      <4>1. (disk \o DataFrames) \o u = disk \o (DataFrames \o u)
        <5> HIDE DEF d
        <5>1. \A a, b, e \in Seq(Frames) : (a \o b) \o e = a \o (b \o e)
          BY ConcatAssociative
        <5> QED BY <1>3, <3>3, <5>1
      <4> QED BY <1>2, <2>4, <4>1
    <3> HIDE DEF d, f
    <3>5. d \o u \in Seq(Frames) /\ FileOK(d \o u, failed)
      BY <1>1, <2>4, <3>1, <3>2, TornAppend DEF f
    <3> QED BY <1>1, <3>4, <3>5
  <2> QED BY <1>2, <2>1, <2>2, <2>3, <2>4 DEF InFlight
<1> QED BY <1>1, <1>4, ShutStep DEF TypeOK

\* The block a reader meets, if it is whole, has the number it expects, unless
\* one was lost in silence.
LEMMA ReaderMeetsItsNumber ==
    ASSUME IInv, mode = "read", ~skew, cursor < Len(disk), Whole(disk[cursor + 1])
    PROVE  /\ cursor + 1 \in Reachable(disk)
           /\ "lost" \notin failed => disk[cursor + 1].seq = BlkSeq
<1>1. cursor \in Nat /\ Len(disk) \in Nat /\ cursor + 1 \in 1 .. Len(disk)
  BY DEF IInv, TypeOK
<1>2. cursor > 0 => cursor \in Reachable(disk) /\ HasCrc(disk)
  BY DEF IInv, ReaderOK
<1>3. \A m \in 1 .. cursor + 1 : Whole(disk[m])
  BY <1>1, <1>2 DEF Reachable
<1>4. cursor + 1 \in Reachable(disk)
  BY <1>1, <1>2, <1>3 DEF Reachable
<1>5. "lost" \notin failed => disk[cursor + 1].seq = ((cursor + 1) - 1) % SeqSpan
  BY <1>4 DEF IInv, FileOK
<1> QED BY <1>1, <1>4, <1>5 DEF IInv, ReaderOK

LEMMA ReadWholeStep == IInv /\ ReadWhole => IInv'
<1> SUFFICES ASSUME IInv, ReadWhole PROVE IInv'
  OBVIOUS
<1> DEFINE f == disk[cursor + 1]
<1> DEFINE c == IF f.type = "header" THEN f.crc ELSE crcOn
<1>1. /\ mode = "read" /\ ret = "ok" /\ ~skew /\ cursor < Len(disk) /\ Whole(f)
      /\ UNCHANGED <<disk, mode, t, given, failed>>
  BY DEF ReadWhole
<1>2. TypeOK /\ ReaderOK /\ FileOK(disk, failed)
  BY <1>1 DEF IInv
<1>3. cursor \in Nat /\ cursor + 1 \in 1 .. Len(disk) /\ f \in Frames
  BY <1>1, <1>2 DEF TypeOK
<1>4. cursor + 1 \in Reachable(disk) /\ ("lost" \notin failed => f.seq = BlkSeq)
  BY <1>1, ReaderMeetsItsNumber
<1>5. CASE f.seq # BlkSeq
  <2>1. /\ ret' = "seq" /\ "lost" \in failed'
        /\ UNCHANGED <<cursor, BlkSeq, crcOn, skew, Block>>
    BY <1>4, <1>5 DEF ReadWhole
  <2>2. TypeOK' /\ ReaderOK'
    BY <1>1, <1>2, <2>1 DEF TypeOK, ReaderOK, Errors
  <2> QED BY <1>1, <1>2, <2>1, <2>2 DEF IInv, NoSpuriousSeqError
<1>6. CASE f.seq = BlkSeq
  <2>1. /\ cursor' = cursor + 1 /\ BlkSeq' = (BlkSeq + 1) % SeqSpan
        /\ crcOn' = c /\ skew' = ~c /\ Block' = f.body /\ ret' = ret
    BY <1>4, <1>6 DEF ReadWhole
  <2>2. c = HasCrc(disk)
    <3>1. f.crc \in BOOLEAN /\ disk # <<>>
      BY <1>3 DEF Frames
    <3>2. CASE cursor = 0
      BY <1>2, <3>1, <3>2 DEF HasCrc, ReaderOK
    <3>3. CASE cursor > 0
      <4>1. f.type # "header"
        BY <1>2, <1>3, <3>3 DEF FileOK
      <4> QED BY <1>1, <1>2, <3>3, <4>1 DEF ReaderOK
    <3> QED BY <1>3, <3>2, <3>3
  <2> HIDE DEF c
  <2>3. BlkSeq' = cursor' % SeqSpan
    BY <1>2, <1>3, <2>1, WrapSucc, SeqSpanAssumption DEF ReaderOK
  <2>4. ReaderOK'
    <3>1. cursor' > 0 /\ cursor' <= Len(disk')
      BY <1>1, <1>3, <2>1
    <3>2. cursor' \in Reachable(disk')
      BY <1>1, <1>4, <2>1
    <3>3. crcOn' = (cursor' > 0 /\ HasCrc(disk')) /\ skew' = (cursor' > 0 /\ ~HasCrc(disk'))
      <4>1. HasCrc(disk') = HasCrc(disk)
        BY <1>1
      <4>2. HasCrc(disk) \in BOOLEAN
        BY DEF HasCrc
      <4> HIDE DEF HasCrc
      <4> QED BY <2>1, <2>2, <3>1, <4>1, <4>2
    <3> QED BY <2>3, <3>1, <3>2, <3>3 DEF ReaderOK
  <2>5. TypeOK'
    <3>1. crcOn' \in BOOLEAN /\ skew' \in BOOLEAN
      BY <2>1, <2>2 DEF HasCrc
    <3>2. Block' \in Seq(Units) /\ cursor' \in Nat
      BY <1>3, <2>1 DEF Frames
    <3>3. BlkSeq' \in 0 .. SeqSpan - 1
      BY <1>3, <2>1, <2>3, WrapIsSeq
    <3> QED BY <1>1, <1>2, <2>1, <3>1, <3>2, <3>3 DEF TypeOK
  <2> QED BY <1>1, <1>2, <2>1, <2>4, <2>5 DEF IInv, NoSpuriousSeqError
<1> QED BY <1>5, <1>6

LEMMA ReadEndStep == IInv /\ ReadEnd => IInv'
<1> SUFFICES ASSUME IInv, ReadEnd PROVE IInv'
  OBVIOUS
<1>1. /\ mode = "read"
      /\ UNCHANGED <<disk, mode, BlkSeq, Block, t, crcOn, cursor, skew, given, failed>>
  BY DEF ReadEnd
<1>2. TypeOK'
  BY <1>1 DEF IInv, ReadEnd, TypeOK, Errors
<1>3. NoSpuriousSeqError'
  BY <1>1 DEF ReadEnd, NoSpuriousSeqError, IInv, TypeOK
<1>4. ReaderOK'
  BY <1>1 DEF IInv, ReaderOK
<1> QED BY <1>1, <1>2, <1>3, <1>4 DEF IInv

LEMMA CloseReadStep == IInv /\ CloseRead => IInv'
<1> SUFFICES ASSUME IInv, CloseRead PROVE IInv'
  OBVIOUS
<1>1. Shut /\ disk' = disk /\ failed' = failed
  BY DEF CloseRead
<1> QED BY <1>1, ShutStep DEF IInv, TypeOK

-----------------------------------------------------------------------------
(* The theorems *)

LEMMA StepKeepsInv == IInv /\ [Next]_vars => IInv'
<1> SUFFICES ASSUME IInv, [Next]_vars PROVE IInv'
  OBVIOUS
<1>1. CASE UNCHANGED vars
  BY <1>1 DEF vars, IInv, TypeOK, ReaderOK, NoSpuriousSeqError
<1>2. CASE OpenWrite \/ OpenAppend \/ OpenRead
  BY <1>2, OpenWriteStep, OpenAppendStep, OpenReadStep
<1>3. ASSUME NEW c \in CrcChoices, WriteHeader(c) \/ WriteHeaderFails(c) \/ WriteHeaderLost(c)
      PROVE  IInv'
  BY <1>3, WriteHeaderStep, WriteHeaderFailsStep, WriteHeaderLostStep
<1>4. ASSUME NEW i \in Infos, WriteInfo(i) \/ WriteInfoFails(i) \/ WriteInfoLost(i)
      PROVE  IInv'
  BY <1>4, WriteInfoStep, WriteInfoFailsStep, WriteInfoLostStep
<1>5. ASSUME NEW x \in Values, WriteData(x)
      PROVE  IInv'
  BY <1>5, WriteDataStep
<1>6. CASE Flush \/ FlushFails \/ FlushLost \/ CloseWrite \/ Crash
  BY <1>6, FlushStep, FlushFailsStep, FlushLostStep, CloseWriteStep, CrashStep
<1>7. CASE ReadWhole \/ ReadEnd \/ CloseRead
  BY <1>7, ReadWholeStep, ReadEndStep, CloseReadStep
<1> QED BY <1>1, <1>2, <1>3, <1>4, <1>5, <1>6, <1>7 DEF Next

\* The inductive invariant holds in every state: files stay good (FileOK), the
\* next block of an open writer fits its file (NextOK), and a reader's number,
\* CRC flag and position agree (ReaderOK).
THEOREM Invariance == Spec => []IInv
  BY InitInv, StepKeepsInv, PTL DEF Spec

\* Every variable of the writer, the reader and the file keeps its type.
THEOREM TypeCorrect == Spec => []TypeOK
<1>1. IInv => TypeOK
  BY DEF IInv
<1> QED BY <1>1, Invariance, PTL

\* A block in its place is never refused for its number, after any sequence of
\* sessions, appends, crashes and failed writes, for any modulus.
THEOREM SeqNumbersAgree == Spec => []NoSpuriousSeqError
<1>1. IInv => NoSpuriousSeqError
  BY DEF IInv
<1> QED BY <1>1, Invariance, PTL

\* Every data block a reader can reach follows the description of its type.
THEOREM DataFollowsItsInfo == Spec => []DataUnderItsInfo
<1>1. IInv => DataUnderItsInfo
  BY DEF IInv, FileOK, DataUnderItsInfo
<1> QED BY <1>1, Invariance, PTL

\* Only the failed write of a header or a description puts into a data block
\* what is not data.
THEOREM NoJunkWithoutFailure == Spec => []JunkOnlyAfterFailedWrite
<1>1. IInv => JunkOnlyAfterFailedWrite
  <2> SUFFICES ASSUME IInv, mode = "read", "meta" \notin failed,
                      NEW n \in 1 .. cursor, disk[n].type = "data"
               PROVE  Pure(disk[n].body)
    BY DEF JunkOnlyAfterFailedWrite, Pure
  <2>1. cursor \in Reachable(disk) /\ cursor \in Nat /\ cursor <= Len(disk)
    BY DEF IInv, ReaderOK, TypeOK
  <2>2. n \in Reachable(disk)
    BY <2>1 DEF Reachable
  <2> QED BY <2>2 DEF IInv, FileOK
<1> QED BY <1>1, Invariance, PTL
=============================================================================
