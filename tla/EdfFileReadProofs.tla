------------------------- MODULE EdfFileReadProofs -------------------------
(***************************************************************************)
(* That a reader of EdfFile is handed what was given to the writers, and   *)
(* what a crash may take, for every bound.                                 *)
(*                                                                         *)
(* given is what has been sent to the file, followed by what the open      *)
(* writer still has in Block (Pending).  Carries says what a file keeps of *)
(* what was sent: as far as a reader can get, a prefix, and all of it if   *)
(* the file can be extended.  One more frame keeps this (CarriesAppend),   *)
(* and so does a torn one, of which nothing is read (CarriesTorn).         *)
(***************************************************************************)
EXTENDS EdfFileProofs, SequenceProofs

Given == Infos \X Values

\* What the open writer has accepted and not sent.
Pending == IF mode = "write" THEN DataIn(Block) ELSE <<>>

\* What file d has of sent.
Carries(d, sent) ==
    /\ \A k \in Reachable(d) : IsPrefix(DataOf(SubSeq(d, 1, k)), sent)
    /\ Extendable(d) => DataOf(d) = sent

\* What was given is what was sent, and what is pending.
Accounted(d, pending, g) ==
    \E sent \in Seq(Given) : g = sent \o pending /\ Carries(d, sent)

\* While the file is empty there is no type yet, so that Block has no data.
NothingYet == disk = <<>> /\ mode = "write" => t = NoType /\ DataIn(Block) = <<>>

RInv ==
    /\ given \in Seq(Given)
    /\ mode = "write" => Len(Block) <= BlockCap
    /\ "lost" \notin failed => NothingYet /\ Accounted(disk, Pending, given)

-----------------------------------------------------------------------------
(* Prefixes *)

\* A sequence is a prefix of itself and of what begins with it.
LEMMA PrefixOfConcat ==
    ASSUME NEW S, NEW s \in Seq(S), NEW u \in Seq(S)
    PROVE  IsPrefix(s, s \o u)
<1>1. s \o u \in Seq(S) /\ Len(s) \in Nat /\ Len(s) <= Len(s \o u)
      /\ \A i \in 1 .. Len(s) : (s \o u)[i] = s[i]
  BY ConcatProperties, LenProperties
<1>2. SubSeq(s, 1, Len(s)) = SubSeq(s \o u, 1, Len(s))
  BY <1>1
<1> QED BY <1>1, <1>2 DEF IsPrefix

\* A prefix of s is one of what begins with s.
LEMMA PrefixExtends ==
    ASSUME NEW S, NEW p \in Seq(S), NEW s \in Seq(S), NEW u \in Seq(S), IsPrefix(p, s)
    PROVE  IsPrefix(p, s \o u)
<1>1. /\ s \o u \in Seq(S) /\ Len(p) \in Nat /\ Len(p) <= Len(s) /\ Len(s) <= Len(s \o u)
      /\ \A i \in 1 .. Len(s) : (s \o u)[i] = s[i]
  BY ConcatProperties, LenProperties DEF IsPrefix
<1>2. SubSeq(s, 1, Len(p)) = SubSeq(s \o u, 1, Len(p))
  BY <1>1
<1> QED BY <1>1, <1>2 DEF IsPrefix

-----------------------------------------------------------------------------
(* The data in blocks and files *)

UnitData(u) == IF u.k = "data" THEN <<<<u.t, u.x>>>> ELSE <<>>

\* The data of one unit.
LEMMA UnitDataType ==
    ASSUME NEW u \in Units
    PROVE  UnitData(u) \in Seq(Given) /\ Len(UnitData(u)) <= 1
<1>1. CASE u.k = "data"
  <2>1. <<u.t, u.x>> \in Given
    BY <1>1 DEF Units, Given
  <2> QED BY <1>1, <2>1 DEF UnitData
<1>2. CASE u.k # "data"
  BY <1>2 DEF UnitData
<1> QED BY <1>1, <1>2

\* A block of one unit more has the data of that unit behind its own.
LEMMA DataInAppend ==
    ASSUME NEW b \in Seq(Units), NEW u \in Units
    PROVE  /\ DataIn(b) \in Seq(Given)
           /\ DataIn(Append(b, u)) = DataIn(b) \o UnitData(u)
<1> DEFINE c == Append(b, u)
           F == [n \in DOMAIN b |-> UnitData(b[n])]
           G == [n \in DOMAIN c |-> UnitData(c[n])]
<1>1. /\ Len(b) \in Nat /\ DOMAIN b = 1 .. Len(b) /\ c \in Seq(Units)
      /\ DOMAIN c = 1 .. Len(b) + 1 /\ Len(c) = Len(b) + 1
      /\ \A n \in 1 .. Len(b) : c[n] = b[n] /\ b[n] \in Units
      /\ c[Len(b) + 1] = u
  BY AppendProperties, LenProperties, ElementOfSeq
<1>2. DataIn(b) = FlattenSeq(F) /\ DataIn(c) = FlattenSeq(G)
  BY DEF DataIn, UnitData
<1> HIDE DEF c
<1>3. F \in Seq(Seq(Given)) /\ Len(F) = Len(b)
  BY <1>1, UnitDataType
<1>4. UnitData(u) \in Seq(Given)
  BY UnitDataType
<1>5. G = Append(F, UnitData(u))
  <2>1. \A n \in 1 .. Len(b) : G[n] = F[n]
    BY <1>1
  <2>2. G[Len(b) + 1] = UnitData(u)
    BY <1>1
  <2> DEFINE H == Append(F, UnitData(u))
  <2>3. /\ DOMAIN H = 1 .. Len(b) + 1 /\ H[Len(b) + 1] = UnitData(u)
        /\ \A n \in 1 .. Len(b) : H[n] = F[n]
        /\ H = [n \in DOMAIN H |-> H[n]]
    BY <1>1, <1>3, <1>4, AppendProperties, LenProperties
  <2>4. G = [n \in 1 .. Len(b) + 1 |-> G[n]]
    BY <1>1
  <2> HIDE DEF F, G, H
  <2>5. \A n \in 1 .. Len(b) + 1 : n \in 1 .. Len(b) \/ n = Len(b) + 1
    BY <1>1
  <2>6. \A n \in 1 .. Len(b) + 1 : G[n] = H[n]
    BY <2>1, <2>2, <2>3, <2>5
  <2>7. G = H
    BY <2>3, <2>4, <2>6
  <2> QED BY <2>7 DEF H
<1> HIDE DEF F, G
<1> QED BY <1>2, <1>3, <1>4, <1>5, FlattenAppend DEF c

\* A block has no more data than units.
LEMMA DataInBounded ==
    ASSUME NEW b \in Seq(Units)
    PROVE  Len(DataIn(b)) <= Len(b)
<1> DEFINE S == {n \in Nat : \A c \in Seq(Units) : Len(c) = n => Len(DataIn(c)) <= n}
<1>1. 0 \in S
  <2> SUFFICES ASSUME NEW c \in Seq(Units), Len(c) = 0 PROVE Len(DataIn(c)) <= 0
    OBVIOUS
  <2>1. c = <<>>
    BY EmptySeq
  <2>2. DataIn(<<>>) = <<>>
    BY FlattenEmpty DEF DataIn
  <2> QED BY <2>1, <2>2
<1>2. ASSUME NEW n \in Nat, n \in S
      PROVE  n + 1 \in S
  <2> SUFFICES ASSUME NEW c \in Seq(Units), Len(c) = n + 1
               PROVE  Len(DataIn(c)) <= n + 1
    OBVIOUS
  <2> DEFINE d == SubSeq(c, 1, n)
             u == c[n + 1]
  <2>1. d \in Seq(Units) /\ Len(d) = n /\ u \in Units
    BY ElementOfSeq
  <2>2. c = Append(d, u)
    OBVIOUS
  <2> HIDE DEF d, u
  <2>3. DataIn(d) \in Seq(Given) /\ DataIn(c) = DataIn(d) \o UnitData(u)
    BY <2>1, <2>2, DataInAppend
  <2>4. Len(DataIn(d)) <= n
    BY <1>2, <2>1
  <2>5. UnitData(u) \in Seq(Given) /\ Len(UnitData(u)) <= 1
    BY <2>1, UnitDataType
  <2>6. Len(DataIn(c)) = Len(DataIn(d)) + Len(UnitData(u))
    BY <2>3, <2>5, ConcatProperties
  <2>7. Len(DataIn(d)) \in Nat /\ Len(UnitData(u)) \in Nat
    BY <2>3, <2>5, LenProperties
  <2> QED BY <2>4, <2>5, <2>6, <2>7
<1>3. Nat \subseteq S
  <2> HIDE DEF S
  <2> QED BY <1>1, <1>2, SetInduction
<1>4. Len(b) \in Nat
  BY LenProperties
<1> QED BY <1>3, <1>4

\* A frame has data for the writer to be given.
LEMMA FrameDataType ==
    ASSUME NEW f \in Frames
    PROVE  FrameData(f) \in Seq(Given)
<1>1. f.body \in Seq(Units)
  BY DEF Frames
<1>2. \A b \in Seq(Units) : DataIn(b) \in Seq(Given)
  <2> TAKE b \in Seq(Units)
  <2>1. Junk \in Units
    BY DEF Junk, Units
  <2> QED BY <2>1, DataInAppend
<1>3. <<>> \in Seq(Given)
  BY EmptySeq
<1> QED BY <1>1, <1>2, <1>3 DEF FrameData

\* A file of one frame more has the data of that frame behind its own.
LEMMA DataOfAppend ==
    ASSUME NEW d \in Seq(Frames), NEW f \in Frames
    PROVE  /\ DataOf(d) \in Seq(Given)
           /\ DataOf(Append(d, f)) = DataOf(d) \o FrameData(f)
<1> DEFINE e == Append(d, f)
           F == [n \in DOMAIN d |-> FrameData(d[n])]
           G == [n \in DOMAIN e |-> FrameData(e[n])]
<1>1. /\ Len(d) \in Nat /\ DOMAIN d = 1 .. Len(d) /\ e \in Seq(Frames)
      /\ DOMAIN e = 1 .. Len(d) + 1 /\ Len(e) = Len(d) + 1
      /\ \A n \in 1 .. Len(d) : e[n] = d[n] /\ d[n] \in Frames
      /\ e[Len(d) + 1] = f
  BY AppendProperties, LenProperties, ElementOfSeq
<1>2. DataOf(d) = FlattenSeq(F) /\ DataOf(e) = FlattenSeq(G)
  BY DEF DataOf
<1> HIDE DEF e
<1>3. F \in Seq(Seq(Given)) /\ Len(F) = Len(d)
  BY <1>1, FrameDataType
<1>4. FrameData(f) \in Seq(Given)
  BY FrameDataType
<1>5. G = Append(F, FrameData(f))
  <2>1. \A n \in 1 .. Len(d) : G[n] = F[n]
    BY <1>1
  <2>2. G[Len(d) + 1] = FrameData(f)
    BY <1>1
  <2> DEFINE H == Append(F, FrameData(f))
  <2>3. /\ DOMAIN H = 1 .. Len(d) + 1 /\ H[Len(d) + 1] = FrameData(f)
        /\ \A n \in 1 .. Len(d) : H[n] = F[n]
        /\ H = [n \in DOMAIN H |-> H[n]]
    BY <1>1, <1>3, <1>4, AppendProperties, LenProperties
  <2>4. G = [n \in 1 .. Len(d) + 1 |-> G[n]]
    BY <1>1
  <2> HIDE DEF F, G, H
  <2>5. \A n \in 1 .. Len(d) + 1 : n \in 1 .. Len(d) \/ n = Len(d) + 1
    BY <1>1
  <2>6. \A n \in 1 .. Len(d) + 1 : G[n] = H[n]
    BY <2>1, <2>2, <2>3, <2>5
  <2>7. G = H
    BY <2>3, <2>4, <2>6
  <2> QED BY <2>7 DEF H
<1> HIDE DEF F, G
<1> QED BY <1>2, <1>3, <1>4, <1>5, FlattenAppend DEF e

\* No frame, and one frame.
LEMMA DataOfShort ==
    /\ DataOf(<<>>) = <<>> /\ DataIn(<<>>) = <<>>
    /\ \A f \in Frames : DataOf(<<f>>) = FrameData(f)
    /\ \A u \in Units : DataIn(<<u>>) = UnitData(u)
<1>1. DataOf(<<>>) = <<>> /\ DataIn(<<>>) = <<>>
  BY FlattenEmpty DEF DataOf, DataIn
<1>2. ASSUME NEW f \in Frames
      PROVE  DataOf(<<f>>) = FrameData(f)
  <2>1. <<f>> = Append(<<>>, f) /\ <<>> \in Seq(Frames)
    OBVIOUS
  <2>2. DataOf(<<f>>) = <<>> \o FrameData(f)
    BY <1>1, <2>1, DataOfAppend
  <2> QED BY <2>2, FrameDataType, ConcatEmptySeq
<1>3. ASSUME NEW u \in Units
      PROVE  DataIn(<<u>>) = UnitData(u)
  <2>1. <<u>> = Append(<<>>, u) /\ <<>> \in Seq(Units)
    OBVIOUS
  <2>2. DataIn(<<u>>) = <<>> \o UnitData(u)
    BY <1>1, <2>1, DataInAppend
  <2> QED BY <2>2, UnitDataType, ConcatEmptySeq
<1> QED BY <1>1, <1>2, <1>3

-----------------------------------------------------------------------------
(* Files with one more frame *)

\* The front of a file with one more frame is a front of the file.
LEMMA FrontOfAppend ==
    ASSUME NEW d \in Seq(Frames), NEW f \in Frames
    PROVE  /\ \A k \in 1 .. Len(d) : SubSeq(d \o <<f>>, 1, k) = SubSeq(d, 1, k)
           /\ SubSeq(d \o <<f>>, 1, Len(d) + 1) = d \o <<f>>
           /\ d \o <<f>> = Append(d, f)
  OBVIOUS

\* What is sent in one more block is behind what was sent, whether the block can be
\* reached or not.
LEMMA CarriesAppend ==
    ASSUME NEW d \in Seq(Frames), NEW f \in Frames, NEW sent \in Seq(Given),
           Carries(d, sent)
    PROVE  /\ sent \o FrameData(f) \in Seq(Given)
           /\ Carries(d \o <<f>>, sent \o FrameData(f))
<1> DEFINE e == d \o <<f>>
           more == sent \o FrameData(f)
<1>1. FrameData(f) \in Seq(Given) /\ more \in Seq(Given)
  BY FrameDataType, ConcatProperties
<1>2. Extendable(d) => DataOf(e) = more
  BY FrontOfAppend, DataOfAppend DEF Carries
<1>3. ASSUME NEW k \in Reachable(e)
      PROVE  IsPrefix(DataOf(SubSeq(e, 1, k)), more)
  <2>1. CASE k \in Reachable(d)
    <3>1. k \in 1 .. Len(d) /\ SubSeq(e, 1, k) = SubSeq(d, 1, k)
      BY <2>1, FrontOfAppend DEF Reachable
    <3>2. SubSeq(d, 1, k) \in Seq(Frames)
      BY <3>1
    <3>3. DataOf(SubSeq(d, 1, k)) \in Seq(Given)
      BY <3>2, DataOfAppend
    <3>4. IsPrefix(DataOf(SubSeq(d, 1, k)), sent)
      BY <2>1 DEF Carries
    <3>5. IsPrefix(DataOf(SubSeq(d, 1, k)), more)
      BY <1>1, <3>3, <3>4, PrefixExtends
    <3> QED BY <3>1, <3>5
  <2>2. CASE k = Len(d) + 1 /\ Extendable(d)
    <3>1. DataOf(SubSeq(e, 1, k)) = more
      BY <1>2, <2>2, FrontOfAppend
    <3>2. IsPrefix(more, more \o <<>>) /\ more \o <<>> = more
      BY <1>1, PrefixOfConcat, EmptySeq, ConcatEmptySeq
    <3> QED BY <3>1, <3>2
  <2> QED BY <1>3, <2>1, <2>2, ReachableAppend
<1>4. Extendable(e) => DataOf(e) = more
  BY <1>2, ReachableAppend
<1> HIDE DEF e, more
<1>5. Carries(e, more)
  BY <1>3, <1>4 DEF Carries
<1> QED BY <1>1, <1>5 DEF e, more

\* Of a torn block, nothing is read.
LEMMA CarriesTorn ==
    ASSUME TypeOK, NEW d \in Seq(Frames), NEW f \in Frames, NEW s \in Torn(f),
           NEW sent \in Seq(Given), Carries(d, sent)
    PROVE  Carries(d \o s, sent)
<1>1. CASE s = <<>>
  <2>1. d \o s = d
    BY <1>1
  <2> QED BY <2>1
<1>2. CASE s # <<>>
  <2>1. PICK g \in Frames : s = <<g>> /\ ~Whole(g)
    BY <1>2, FrameTypes
  <2>2. FrameData(g) = <<>> /\ sent \o <<>> = sent
    BY <2>1, ConcatEmptySeq DEF FrameData
  <2>3. Carries(d \o <<g>>, sent \o FrameData(g))
    BY CarriesAppend
  <2> QED BY <2>1, <2>2, <2>3
<1> QED BY <1>1, <1>2

\* Of a header or a description, no data is read.
LEMMA CarriesOther ==
    ASSUME NEW d \in Seq(Frames), NEW f \in Frames, f.type # "data",
           NEW sent \in Seq(Given), Carries(d, sent)
    PROVE  Carries(d \o <<f>>, sent)
<1>1. FrameData(f) = <<>> /\ sent \o <<>> = sent
  BY ConcatEmptySeq DEF FrameData
<1>2. Carries(d \o <<f>>, sent \o FrameData(f))
  BY CarriesAppend
<1> QED BY <1>1, <1>2

-----------------------------------------------------------------------------
(* What the steps send *)

\* A new file has nothing of nothing.
LEMMA NothingAccounted == Accounted(<<>>, <<>>, <<>>)
<1>1. Reachable(<<>>) = {}
  BY DEF Reachable
<1>2. Carries(<<>>, <<>>)
  BY <1>1, DataOfShort DEF Carries
<1>3. <<>> \in Seq(Given) /\ <<>> \o <<>> = <<>>
  BY EmptySeq, ConcatEmptySeq
<1> QED BY <1>2, <1>3 DEF Accounted

\* EdfFlushDataBlock: what was pending has been sent.
LEMMA FlushAccounts ==
    ASSUME TypeOK, Accounted(disk, DataIn(Block), given)
    PROVE  Accounted(disk \o DataFrames, <<>>, given)
<1>0. disk \in Seq(Frames) /\ BlkSeq \in Nat /\ Block \in Seq(Units)
  BY SeqSpanAssumption DEF TypeOK
<1>1. PICK sent \in Seq(Given) : given = sent \o DataIn(Block) /\ Carries(disk, sent)
  BY DEF Accounted
<1>2. CASE Block = <<>>
  <2>1. DataFrames = <<>> /\ disk \o <<>> = disk
    BY <1>0, <1>2 DEF DataFrames
  <2>2. DataIn(Block) = <<>>
    BY <1>2, DataOfShort
  <2> QED BY <2>1, <2>2
<1>3. CASE Block # <<>>
  <2> DEFINE f == Frame("data", BlkSeq, Block)
  <2>1. DataFrames = <<f>> /\ f \in Frames
    BY <1>0, <1>3, FrameTypes DEF DataFrames
  <2>2. FrameData(f) = DataIn(Block)
    BY DEF FrameData, Frame, Whole
  <2> HIDE DEF f
  <2>3. /\ sent \o FrameData(f) \in Seq(Given)
        /\ Carries(disk \o <<f>>, sent \o FrameData(f))
    BY <1>0, <1>1, <2>1, CarriesAppend
  <2>4. given \in Seq(Given) /\ Carries(disk \o <<f>>, given)
    BY <1>1, <2>2, <2>3
  <2>5. given = given \o <<>>
    BY <2>4, ConcatEmptySeq
  <2> QED BY <2>1, <2>4, <2>5 DEF Accounted
<1> QED BY <1>2, <1>3

\* A torn block, a header or a description changes nothing of that.
LEMMA OtherAccounts ==
    ASSUME TypeOK, NEW d \in Seq(Frames), NEW p, NEW g, Accounted(d, p, g), NEW f \in Frames
    PROVE  /\ \A s \in Torn(f) : Accounted(d \o s, p, g)
           /\ f.type # "data" => Accounted(d \o <<f>>, p, g)
<1>1. PICK sent \in Seq(Given) : g = sent \o p /\ Carries(d, sent)
  BY DEF Accounted
<1>2. \A s \in Torn(f) : Carries(d \o s, sent)
  BY <1>1, CarriesTorn
<1>3. f.type # "data" => Carries(d \o <<f>>, sent)
  BY <1>1, CarriesOther
<1> QED BY <1>1, <1>2, <1>3 DEF Accounted

\* One more primitive is given, and pending.
LEMMA UnitAccounts ==
    ASSUME NEW d, NEW b \in Seq(Units), NEW u \in Units, NEW g, Accounted(d, DataIn(b), g)
    PROVE  Accounted(d, DataIn(Append(b, u)), g \o UnitData(u))
<1>1. PICK sent \in Seq(Given) : g = sent \o DataIn(b) /\ Carries(d, sent)
  BY DEF Accounted
<1>2. DataIn(b) \in Seq(Given) /\ UnitData(u) \in Seq(Given)
      /\ DataIn(Append(b, u)) = DataIn(b) \o UnitData(u)
  BY DataInAppend, UnitDataType
<1>3. (sent \o DataIn(b)) \o UnitData(u) = sent \o (DataIn(b) \o UnitData(u))
  BY <1>2, ConcatAssociative
<1> QED BY <1>1, <1>2, <1>3 DEF Accounted

\* What is left in Block of another block is no data, and there is room for it.
LEMMA JunkIsNoData ==
    /\ Junk \in Units /\ DataIn(<<Junk>>) = <<>> /\ DataIn(<<>>) = <<>>
    /\ Len(<<Junk>>) <= BlockCap /\ Len(<<>>) <= BlockCap
<1>1. Junk \in Units /\ UnitData(Junk) = <<>>
  BY DEF Junk, Units, UnitData
<1> QED BY <1>1, DataOfShort, BlockCapAssumption

-----------------------------------------------------------------------------
(* The steps *)

\* Nothing has been given to begin with.
LEMMA InitR == Init => RInv
<1> SUFFICES ASSUME Init PROVE RInv
  OBVIOUS
<1>1. /\ disk = <<>> /\ given = <<>> /\ mode = "shut"
  BY DEF Init
<1> QED BY <1>1, NothingAccounted, EmptySeq DEF RInv, Pending, NothingYet

\* "wb" empties the file, and the history with it.
LEMMA OpenWriteR == IInv /\ RInv /\ OpenWrite => RInv'
<1> SUFFICES ASSUME IInv, RInv, OpenWrite PROVE RInv'
  OBVIOUS
<1>1. /\ disk' = <<>> /\ given' = <<>> /\ mode' = "write" /\ Block' = <<>> /\ t' = NoType
  BY DEF IInv, OpenWrite
<1>2. DataIn(Block') = <<>> /\ Len(Block') <= BlockCap
  BY <1>1, JunkIsNoData
<1>3. Pending' = <<>>
  BY <1>1, <1>2 DEF Pending
<1>4. Accounted(disk', Pending', given') /\ given' \in Seq(Given)
  BY <1>1, <1>3, NothingAccounted, EmptySeq
<1> QED BY <1>1, <1>2, <1>4 DEF RInv, NothingYet

\* "ab" leaves no data in Block, only what SeekEnd read last.
LEMMA OpenAppendR == IInv /\ RInv /\ OpenAppend => RInv'
<1> SUFFICES ASSUME IInv, RInv, OpenAppend PROVE RInv'
  OBVIOUS
<1>1. /\ mode = "shut" /\ mode' = "write" /\ t' = NoType
      /\ UNCHANGED <<disk, given, failed>>
  BY DEF OpenAppend
<1>2. Block' \in {<<>>, <<Junk>>}
  BY DEF OpenAppend, Leftover
<1>3. DataIn(Block') = <<>> /\ Len(Block') <= BlockCap
  BY <1>2, JunkIsNoData
<1>4. Pending' = Pending
  BY <1>1, <1>3 DEF Pending
<1> QED BY <1>1, <1>3, <1>4 DEF RInv, NothingYet

\* "rb" takes nothing from the file.
LEMMA OpenReadR == IInv /\ RInv /\ OpenRead => RInv'
<1> SUFFICES ASSUME IInv, RInv, OpenRead PROVE RInv'
  OBVIOUS
<1>1. mode = "shut" /\ mode' = "read" /\ UNCHANGED <<disk, given, failed>>
  BY DEF OpenRead
<1>2. Pending' = Pending
  BY <1>1 DEF Pending
<1> QED BY <1>1, <1>2 DEF RInv, NothingYet

\* A step of an open writer that a block is not lost in.
LEMMA WriterR ==
    ASSUME mode' = "write", given' \in Seq(Given), Len(Block') <= BlockCap,
           "lost" \notin failed' => /\ disk' = <<>> => t' = NoType /\ DataIn(Block') = <<>>
                                    /\ Accounted(disk', DataIn(Block'), given')
    PROVE  RInv'
  BY DEF RInv, NothingYet, Pending

\* EdfWriteHeader: the file is empty, so that nothing was sent or is pending.
LEMMA HeaderR ==
    ASSUME NEW c \in CrcChoices, IInv, RInv,
           WriteHeader(c) \/ WriteHeaderFails(c) \/ WriteHeaderLost(c)
    PROVE  RInv'
<1>1. /\ TypeOK /\ mode = "write" /\ mode' = "write" /\ disk = <<>> /\ given' = given
      /\ t' = t /\ given \in Seq(Given) /\ disk \in Seq(Frames)
      /\ disk' = <<HeaderFrame(c)>> \/ disk' \in Torn(HeaderFrame(c))
      /\ Block' \in {<<>>, <<Junk>>} /\ ("lost" \notin failed' => "lost" \notin failed)
  BY DEF IInv, RInv, TypeOK, WriteHeader, WriteHeaderFails, WriteHeaderLost, Writing, Fail
<1>2. DataIn(Block') = <<>> /\ Len(Block') <= BlockCap
  BY <1>1, JunkIsNoData
<1>3. HeaderFrame(c) \in Frames /\ HeaderFrame(c).type # "data"
  BY <1>1, FrameTypes DEF HeaderFrame, Frame
<1>4. ASSUME "lost" \notin failed'
      PROVE  /\ t' = NoType
             /\ Accounted(disk', <<>>, given')
  <2>1. t = NoType /\ DataIn(Block) = <<>> /\ Accounted(disk, <<>>, given)
    BY <1>1, <1>4 DEF RInv, NothingYet, Pending
  <2>2. disk \o <<HeaderFrame(c)>> = <<HeaderFrame(c)>>
        /\ \A s \in Torn(HeaderFrame(c)) : disk \o s = s
    BY <1>1 DEF Torn
  <2>3. /\ Accounted(disk \o <<HeaderFrame(c)>>, <<>>, given)
        /\ \A s \in Torn(HeaderFrame(c)) : Accounted(disk \o s, <<>>, given)
    BY <1>1, <1>3, <2>1, OtherAccounts
  <2>4. Accounted(disk', <<>>, given)
    BY <1>1, <2>2, <2>3
  <2> QED BY <1>1, <2>1, <2>4
<1> QED BY <1>1, <1>2, <1>4, WriterR

\* EdfWriteInfo: what was pending is sent, then something without data.
LEMMA InfoR ==
    ASSUME NEW i \in Infos, IInv, RInv,
           WriteInfo(i) \/ WriteInfoFails(i) \/ WriteInfoLost(i)
    PROVE  RInv'
<1> DEFINE f == InfoFrame(SeqAfterFlush, i)
           d == disk \o DataFrames
<1>1. /\ TypeOK /\ mode = "write" /\ mode' = "write" /\ given' = given
      /\ given \in Seq(Given) /\ Block' \in {<<>>, <<Junk>>}
      /\ ("lost" \notin failed' => "lost" \notin failed)
  BY DEF IInv, RInv, WriteInfo, WriteInfoFails, WriteInfoLost, Writing, Fail
<1>2. DataIn(Block') = <<>> /\ Len(Block') <= BlockCap
  BY <1>1, JunkIsNoData
<1>3. d \in Seq(Frames) /\ SeqAfterFlush \in Nat
  BY <1>1, FlushKeeps, SeqSpanAssumption
<1>4. f \in Frames /\ f.type # "data"
  BY <1>1, <1>3, FrameTypes DEF InfoFrame, Frame
<1>5. DataFrames \in Seq(Frames) /\ \A s \in Torn(f) : s \in Seq(Frames)
  <2>1. Block # <<>> => Frame("data", BlkSeq, Block) \in Frames
    BY <1>1, FrameTypes, SeqSpanAssumption DEF TypeOK
  <2>2. DataFrames \in Seq(Frames)
    BY <2>1 DEF DataFrames
  <2>3. \A g \in Frames : <<g>> \in Seq(Frames)
    OBVIOUS
  <2>4. \A s \in Torn(f) : s = <<>> \/ \E g \in Frames : s = <<g>>
    BY <1>1, <1>4, FrameTypes
  <2>5. \A s \in Torn(f) : s \in Seq(Frames)
    BY <2>3, <2>4, EmptySeq
  <2> QED BY <2>2, <2>5
<1>6. disk' = d \o <<f>> \/ \E s \in Torn(f) : disk' = d \o s
  <2>1. disk \in Seq(Frames)
    BY <1>1 DEF TypeOK
  <2>2. \A s \in Seq(Frames) : (disk \o DataFrames) \o s = disk \o (DataFrames \o s)
    BY <1>5, <2>1, ConcatAssociative
  <2>3. \/ disk' = disk \o (DataFrames \o <<f>>)
        \/ \E s \in Torn(f) : disk' = disk \o (DataFrames \o s)
    <3>1. CASE WriteInfo(i)
      <4>1. disk' = disk \o DataFrames \o <<f>>
        BY <3>1 DEF WriteInfo
      <4>2. <<f>> \in Seq(Frames)
        BY <1>4
      <4> QED BY <2>2, <4>1, <4>2
    <3>2. CASE WriteInfoFails(i) \/ WriteInfoLost(i)
      <4>1. \E s \in Torn(f) : disk' = disk \o DataFrames \o s
        BY <3>2 DEF WriteInfoFails, WriteInfoLost
      <4> QED BY <1>5, <2>2, <4>1
    <3> QED BY <3>1, <3>2
  <2>4. <<f>> \in Seq(Frames)
    BY <1>4
  <2> HIDE DEF f
  <2> QED BY <1>5, <2>2, <2>3, <2>4
<1>7. ASSUME "lost" \notin failed'
      PROVE  Accounted(disk', <<>>, given')
  <2>1. Accounted(disk, DataIn(Block), given)
    BY <1>1, <1>7 DEF RInv, Pending
  <2>2. Accounted(d, <<>>, given)
    BY <1>1, <2>1, FlushAccounts
  <2> HIDE DEF d, f
  <2>3. /\ Accounted(d \o <<f>>, <<>>, given)
        /\ \A s \in Torn(f) : Accounted(d \o s, <<>>, given)
    BY <1>1, <1>3, <1>4, <2>2, OtherAccounts
  <2> QED BY <1>1, <1>6, <2>3
<1>8. ASSUME "lost" \notin failed', disk' = <<>>
      PROVE  t' = NoType
  <2>1. d = <<>>
    <3> HIDE DEF d
    <3>1. \A s \in Seq(Frames) : d \o s = <<>> => d = <<>>
      BY <1>3, ConcatEqualIffEmpty
    <3>2. <<f>> \in Seq(Frames)
      BY <1>4
    <3> QED BY <1>5, <1>6, <1>8, <3>1, <3>2
  <2>2. disk = <<>>
    BY <1>1, <1>5, <2>1, ConcatEqualIffEmpty DEF TypeOK
  <2>3. t = NoType
    BY <1>1, <1>8, <2>2 DEF RInv, NothingYet
  <2>4. CASE WriteInfo(i)
    <3>1. disk' # <<>>
      BY <1>3, <1>5, <2>4 DEF WriteInfo
    <3> QED BY <1>8, <3>1
  <2>5. CASE WriteInfoFails(i)
    BY <2>3, <2>5 DEF WriteInfoFails
  <2>6. CASE WriteInfoLost(i)
    BY <1>8, <2>6 DEF WriteInfoLost, Fail
  <2> QED BY <2>4, <2>5, <2>6
<1> QED BY <1>1, <1>2, <1>7, <1>8, WriterR

\* EdfWriteDataBlock: one primitive more is pending, after a flush if Block was full.
LEMMA DataR ==
    ASSUME NEW x \in Values, IInv, RInv, WriteData(x)
    PROVE  RInv'
<1> DEFINE u == [k |-> "data", t |-> t, x |-> x]
<1>1. /\ TypeOK /\ mode = "write" /\ mode' = "write" /\ t # NoType /\ t' = t
      /\ failed' = failed /\ given' = Append(given, <<t, x>>) /\ given \in Seq(Given)
  BY DEF IInv, RInv, WriteData, Writing
<1>2. u \in Units /\ Block \in Seq(Units) /\ t \in Infos /\ disk \in Seq(Frames)
  BY <1>1 DEF Units, TypeOK
<1>3. UnitData(u) = <<<<t, x>>>>
  BY DEF UnitData
<1>4. given' \in Seq(Given) /\ given' = given \o UnitData(u)
  <2>1. <<t, x>> \in Given
    BY <1>2 DEF Given
  <2>2. \A e \in Given : Append(given, e) \in Seq(Given) /\ Append(given, e) = given \o <<e>>
    BY <1>1
  <2> QED BY <1>1, <1>3, <2>1, <2>2
<1>5. ASSUME "lost" \notin failed'
      PROVE  disk # <<>> /\ Accounted(disk, DataIn(Block), given)
  BY <1>1, <1>5 DEF RInv, NothingYet, Pending
<1>6. CASE Len(Block) >= BlockCap
  <2>1. DataFrames # <<>>
    BY <1>6, BlockCapAssumption DEF DataFrames
  <2>2. disk' = disk \o DataFrames /\ Block' = <<u>>
    BY <1>6, <2>1 DEF WriteData
  <2> HIDE DEF u
  <2>3. Len(Block') <= BlockCap /\ Block' = Append(<<>>, u)
    BY <2>2, BlockCapAssumption
  <2>4. ASSUME "lost" \notin failed'
        PROVE  Accounted(disk', DataIn(Block'), given')
    <3>1. Accounted(disk', DataIn(<<>>), given)
      BY <1>1, <1>5, <2>2, <2>4, FlushAccounts, DataOfShort
    <3>2. <<>> \in Seq(Units)
      BY EmptySeq
    <3>3. Accounted(disk', DataIn(Append(<<>>, u)), given \o UnitData(u))
      BY <1>2, <3>1, <3>2, UnitAccounts
    <3> QED BY <1>4, <2>3, <3>3
  <2>5. "lost" \notin failed' => disk' # <<>>
    <3>1. disk' \in Seq(Frames) /\ (disk # <<>> => disk' # <<>>)
      BY <1>1, <2>2, FlushKeeps
    <3> QED BY <1>5, <3>1
  <2> QED BY <1>1, <1>4, <2>3, <2>4, <2>5, WriterR
<1>7. CASE ~(Len(Block) >= BlockCap)
  <2>1. disk' = disk \o <<>> /\ Block' = Append(Block, u)
    BY <1>7 DEF WriteData
  <2> HIDE DEF u
  <2>2. disk' = disk
    BY <1>2, <2>1
  <2>3. Len(Block') <= BlockCap
    BY <1>2, <1>7, <2>1, BlockCapAssumption
  <2>4. ASSUME "lost" \notin failed'
        PROVE  Accounted(disk', DataIn(Block'), given')
    <3>1. Accounted(disk, DataIn(Append(Block, u)), given \o UnitData(u))
      BY <1>2, <1>5, <2>4, UnitAccounts
    <3> QED BY <1>4, <2>1, <2>2, <3>1
  <2> QED BY <1>1, <1>4, <1>5, <2>2, <2>3, <2>4, WriterR
<1> QED BY <1>6, <1>7

\* EdfFlushDataBlock by itself.
LEMMA FlushR == IInv /\ RInv /\ Flush => RInv'
<1> SUFFICES ASSUME IInv, RInv, Flush PROVE RInv'
  OBVIOUS
<1>1. /\ TypeOK /\ mode = "write" /\ mode' = "write" /\ disk' = disk \o DataFrames
      /\ Block' = <<>> /\ UNCHANGED <<t, given, failed>> /\ given \in Seq(Given)
  BY DEF IInv, RInv, Flush, Writing
<1>2. DataIn(Block') = <<>> /\ Len(Block') <= BlockCap
  BY <1>1, JunkIsNoData
<1>3. disk # <<>> => disk' # <<>>
  BY <1>1, FlushKeeps
<1>4. ASSUME "lost" \notin failed'
      PROVE  /\ disk' = <<>> => t' = NoType
             /\ Accounted(disk', <<>>, given')
  <2>1. Accounted(disk, DataIn(Block), given) /\ (disk = <<>> => t = NoType)
    BY <1>1, <1>4 DEF RInv, NothingYet, Pending
  <2>2. Accounted(disk \o DataFrames, <<>>, given)
    BY <1>1, <2>1, FlushAccounts
  <2> QED BY <1>1, <1>3, <2>1, <2>2
<1> QED BY <1>1, <1>2, <1>4, WriterR

\* The same, refused: what was pending stays so.
LEMMA FlushFailsR == IInv /\ RInv /\ FlushFails => RInv'
<1> SUFFICES ASSUME IInv, RInv, FlushFails PROVE RInv'
  OBVIOUS
<1>1. /\ TypeOK /\ mode = "write" /\ mode' = "write" /\ Block # <<>>
      /\ UNCHANGED <<Block, t, given>> /\ given \in Seq(Given) /\ disk \in Seq(Frames)
      /\ Len(Block) <= BlockCap /\ ("lost" \notin failed' => "lost" \notin failed)
  BY DEF IInv, RInv, TypeOK, FlushFails, Writing, Fail
<1>2. PICK s \in Torn(DataFrames[1]) : disk' = disk \o s
  BY DEF FlushFails
<1> DEFINE f == Frame("data", BlkSeq, Block)
<1>3. f \in Frames /\ DataFrames[1] = f
  BY <1>1, FrameTypes, SeqSpanAssumption DEF TypeOK, DataFrames
<1> HIDE DEF f
<1>4. ASSUME "lost" \notin failed'
      PROVE  /\ Accounted(disk', DataIn(Block'), given')
             /\ disk = <<>> => t = NoType /\ DataIn(Block) = <<>>
  <2>1. /\ Accounted(disk, DataIn(Block), given)
        /\ disk = <<>> => t = NoType /\ DataIn(Block) = <<>>
    BY <1>1, <1>4 DEF RInv, NothingYet, Pending
  <2>2. Accounted(disk \o s, DataIn(Block), given)
    BY <1>1, <1>2, <1>3, <2>1, OtherAccounts
  <2> QED BY <1>1, <1>2, <2>1, <2>2
<1>5. disk' = <<>> => disk = <<>>
  <2>1. \A r \in Torn(f) : r = <<>> \/ \E g \in Frames : r = <<g>>
    BY <1>1, <1>3, FrameTypes
  <2>2. \A g \in Frames : disk \o <<g>> # <<>>
    BY <1>1
  <2>3. disk \o <<>> = disk
    BY <1>1
  <2> QED BY <1>2, <1>3, <2>1, <2>2, <2>3
<1> QED BY <1>1, <1>4, <1>5, WriterR

\* A step that a block is lost in.
LEMMA FlushLostR == IInv /\ RInv /\ FlushLost => RInv'
<1> SUFFICES ASSUME IInv, RInv, FlushLost PROVE RInv'
  OBVIOUS
<1>1. /\ mode' = "write" /\ Block' = <<>> /\ given' = given /\ given \in Seq(Given)
      /\ "lost" \in failed'
  BY DEF RInv, FlushLost, Writing, Fail
<1>2. Len(Block') <= BlockCap
  BY <1>1, JunkIsNoData
<1> QED BY <1>1, <1>2, WriterR

\* EdfClose: nothing is pending any more.
LEMMA CloseWriteR == IInv /\ RInv /\ CloseWrite => RInv'
<1> SUFFICES ASSUME IInv, RInv, CloseWrite PROVE RInv'
  OBVIOUS
<1>1. /\ TypeOK /\ mode = "write" /\ mode' = "shut" /\ disk' = disk \o DataFrames
      /\ UNCHANGED <<given, failed>> /\ given \in Seq(Given)
  BY DEF IInv, RInv, CloseWrite, Writing, Shut
<1>2. ASSUME "lost" \notin failed'
      PROVE  Accounted(disk', <<>>, given')
  <2>1. Accounted(disk, DataIn(Block), given)
    BY <1>1, <1>2 DEF RInv, Pending
  <2> QED BY <1>1, <2>1, FlushAccounts
<1> QED BY <1>1, <1>2 DEF RInv, NothingYet, Pending

\* Reading changes neither the file nor what was given.
LEMMA ReadR == IInv /\ RInv /\ (ReadWhole \/ ReadEnd \/ CloseRead) => RInv'
<1> SUFFICES ASSUME IInv, RInv, ReadWhole \/ ReadEnd \/ CloseRead PROVE RInv'
  OBVIOUS
<1>1. mode = "read" /\ mode' \in {"read", "shut"} /\ UNCHANGED <<disk, given, failed>>
  BY DEF ReadWhole, ReadEnd, CloseRead, Shut
<1>2. Pending' = Pending
  BY <1>1 DEF Pending
<1> QED BY <1>1, <1>2 DEF RInv, NothingYet

-----------------------------------------------------------------------------
(* The crash *)

\* Torn blocks have no data.
LEMMA TornData ==
    ASSUME TypeOK, NEW f \in Frames, NEW s \in Torn(f)
    PROVE  /\ s = <<>> \/ \E g \in Frames : s = <<g>> /\ FrameData(g) = <<>>
           /\ s \in Seq(Frames) /\ DataOf(s) = <<>>
<1>1. s = <<>> \/ \E g \in Frames : s = <<g>> /\ ~Whole(g)
  BY FrameTypes
<1>2. \A g \in Frames : <<g>> \in Seq(Frames) /\ (~Whole(g) => FrameData(g) = <<>>)
  BY DEF FrameData
<1>3. \A g \in Frames : ~Whole(g) => DataOf(<<g>>) = <<>>
  BY <1>2, DataOfShort
<1> QED BY <1>1, <1>2, <1>3, DataOfShort, EmptySeq

\* The pending block has the data of Block.
LEMMA PendingFrames ==
    ASSUME TypeOK
    PROVE  DataFrames \in Seq(Frames) /\ DataOf(DataFrames) = DataIn(Block)
<1>0. BlkSeq \in Nat /\ Block \in Seq(Units)
  BY SeqSpanAssumption DEF TypeOK
<1>1. CASE Block = <<>>
  BY <1>1, DataOfShort, EmptySeq DEF DataFrames
<1>2. CASE Block # <<>>
  <2> DEFINE f == Frame("data", BlkSeq, Block)
  <2>1. DataFrames = <<f>> /\ f \in Frames
    BY <1>0, <1>2, FrameTypes DEF DataFrames
  <2>2. FrameData(f) = DataIn(Block)
    BY DEF FrameData, Frame, Whole
  <2> HIDE DEF f
  <2>3. <<f>> \in Seq(Frames)
    BY <2>1
  <2> QED BY <2>1, <2>2, <2>3, DataOfShort
<1> QED BY <1>1, <1>2

\* What is in flight in a crash has no data and changes nothing of what was sent, or
\* it is the pending block and something without data.
Unsent(s) ==
    /\ s \in Seq(Frames) /\ DataOf(s) = <<>>
    /\ \A p, g : Accounted(disk, p, g) => Accounted(disk \o s, p, g)
Sent(s) ==
    /\ s \in Seq(Frames) /\ DataOf(s) = DataOf(DataFrames)
    /\ \A p, g : Accounted(disk \o DataFrames, p, g) => Accounted(disk \o s, p, g)

\* Each way a block can be in flight is one of the two.
LEMMA InFlightData ==
    ASSUME IInv, mode = "write", NEW s \in InFlight
    PROVE  Unsent(s) \/ Sent(s)
<1>1. TypeOK /\ disk \in Seq(Frames) /\ Block \in Seq(Units) /\ BlkSeq \in Nat
  BY SeqSpanAssumption DEF IInv, TypeOK
<1>2. ASSUME NEW f \in Frames, s \in Torn(f)
      PROVE  Unsent(s)
  <2>1. s \in Seq(Frames) /\ DataOf(s) = <<>>
    BY <1>1, <1>2, TornData
  <2>2. \A p, g : Accounted(disk, p, g) => Accounted(disk \o s, p, g)
    BY <1>1, <1>2, OtherAccounts
  <2> QED BY <2>1, <2>2 DEF Unsent
<1>3. CASE s = <<>>
  <2>1. disk \o s = disk
    BY <1>1, <1>3
  <2> QED BY <1>3, <2>1, DataOfShort, EmptySeq DEF Unsent
<1>4. CASE Block # <<>> /\ s \in Torn(DataFrames[1])
  <2>1. DataFrames[1] = Frame("data", BlkSeq, Block)
    BY <1>4 DEF DataFrames
  <2>2. DataFrames[1] \in Frames
    BY <1>1, <2>1, FrameTypes
  <2> QED BY <1>2, <1>4, <2>2
<1>5. ASSUME NEW c \in CrcChoices, s \in Torn(HeaderFrame(c))
      PROVE  Unsent(s)
  BY <1>1, <1>2, <1>5, FrameTypes
<1>6. ASSUME NEW i \in Infos, NEW u \in Torn(InfoFrame(SeqAfterFlush, i)),
             s = DataFrames \o u
      PROVE  Sent(s)
  <2> DEFINE f == InfoFrame(SeqAfterFlush, i)
             d == disk \o DataFrames
  <2>1. d \in Seq(Frames) /\ SeqAfterFlush \in Nat
    BY <1>1, FlushKeeps, SeqSpanAssumption
  <2>2. f \in Frames
    BY <1>1, <2>1, FrameTypes
  <2>3. /\ u = <<>> \/ \E g \in Frames : u = <<g>> /\ FrameData(g) = <<>>
        /\ u \in Seq(Frames)
    BY <1>1, <1>6, <2>2, TornData
  <2>4. DataFrames \in Seq(Frames)
    BY <1>1, PendingFrames
  <2>5. d \o u = disk \o s
    BY <1>1, <1>6, <2>3, <2>4, ConcatAssociative
  <2> HIDE DEF d, f
  <2>6. \A p, g : Accounted(d, p, g) => Accounted(d \o u, p, g)
    BY <1>1, <1>6, <2>1, <2>2, OtherAccounts DEF f
  <2>7. DataOf(s) = DataOf(DataFrames)
    <3>1. CASE u = <<>>
      BY <1>6, <2>4, <3>1, ConcatEmptySeq
    <3>2. ASSUME NEW g \in Frames, u = <<g>>, FrameData(g) = <<>>
          PROVE  DataOf(s) = DataOf(DataFrames)
      <4>1. s = Append(DataFrames, g)
        BY <1>6, <2>4, <3>2
      <4>2. DataOf(s) = DataOf(DataFrames) \o <<>> /\ DataOf(DataFrames) \in Seq(Given)
        BY <2>4, <3>2, <4>1, DataOfAppend
      <4> QED BY <4>2, ConcatEmptySeq
    <3> QED BY <2>3, <3>1, <3>2
  <2>8. s \in Seq(Frames)
    BY <1>6, <2>3, <2>4, ConcatProperties
  <2> QED BY <2>5, <2>6, <2>7, <2>8 DEF Sent, d
<1> QED BY <1>3, <1>4, <1>5, <1>6 DEF InFlight

\* What a crash leaves of what was given: a front, without the last primitives.
LEMMA CrashKeeps ==
    ASSUME IInv, RInv, mode = "write", NEW s \in InFlight,
           NEW g, g = SubSeq(given, 1, Len(given) + Len(DataOf(s)) - Len(DataOf(DataFrames)))
    PROVE  /\ g \in Seq(Given) /\ IsPrefix(g, given)
           /\ Len(given) - Len(g) <= BlockCap
           /\ Sent(s) => g = given
<1> DEFINE p == Len(DataOf(DataFrames))
           q == Len(DataOf(s))
           m == Len(given) + q - p
<1>1. /\ TypeOK /\ Block \in Seq(Units) /\ given \in Seq(Given) /\ Len(Block) <= BlockCap
      /\ Len(given) \in Nat /\ BlockCap \in Nat
  BY BlockCapAssumption DEF IInv, TypeOK, RInv
<1>2. p \in Nat /\ p <= BlockCap
  <2>1. DataIn(Block) \in Seq(Given) /\ Len(DataIn(Block)) <= Len(Block)
    BY <1>1, DataInBounded, DataInAppend, JunkIsNoData
  <2>2. p = Len(DataIn(Block))
    BY <1>1, PendingFrames
  <2> QED BY <1>1, <2>1, <2>2
<1>3. q = 0 \/ q = p
  BY InFlightData DEF Unsent, Sent
<1>4. Sent(s) => q = p
  BY DEF Sent
<1> HIDE DEF p, q
<1>5. m \in Int /\ m <= Len(given) /\ Len(given) - m <= BlockCap /\ (Sent(s) => m = Len(given))
  BY <1>1, <1>2, <1>3, <1>4
<1>6. g = SubSeq(given, 1, m)
  BY DEF p, q
<1> HIDE DEF m
<1>7. /\ g \in Seq(Given) /\ Len(g) = IF 1 <= m THEN m ELSE 0
      /\ \A i \in 1 .. Len(g) : g[i] = given[i]
  BY <1>1, <1>5, <1>6
<1>8. IsPrefix(g, given)
  <2>1. Len(g) <= Len(given)
    BY <1>1, <1>5, <1>7
  <2>2. SubSeq(g, 1, Len(g)) = SubSeq(given, 1, Len(g))
    BY <1>1, <1>7, <2>1
  <2> QED BY <2>1, <2>2 DEF IsPrefix
<1>9. Len(given) - Len(g) <= BlockCap
  BY <1>1, <1>5, <1>7
<1>10. m = Len(given) => g = given
  BY <1>1, <1>6
<1> QED BY <1>5, <1>7, <1>8, <1>9, <1>10

\* The device stops: what was sent is what was given, less what Block had and did not
\* reach the file.
LEMMA CrashR == IInv /\ RInv /\ Crash => RInv'
<1> SUFFICES ASSUME IInv, RInv, Crash PROVE RInv'
  OBVIOUS
<1>1. /\ TypeOK /\ mode = "write" /\ mode' = "shut" /\ failed' = failed
      /\ given \in Seq(Given) /\ disk \in Seq(Frames) /\ Block \in Seq(Units)
  BY DEF IInv, RInv, TypeOK, Crash, Shut
<1>2. PICK s \in InFlight :
         /\ disk' = disk \o s
         /\ given' = SubSeq(given, 1, Len(given) + Len(DataOf(s)) - Len(DataOf(DataFrames)))
  BY DEF Crash
<1>3. given' \in Seq(Given)
  BY <1>1, <1>2, CrashKeeps
<1>4. ASSUME "lost" \notin failed'
      PROVE  Accounted(disk', <<>>, given')
  <2>1. Accounted(disk, DataIn(Block), given)
    BY <1>1, <1>4 DEF RInv, Pending
  <2>2. CASE Sent(s)
    <3>1. given' = given
      BY <1>1, <1>2, <2>2, CrashKeeps
    <3>2. Accounted(disk \o DataFrames, <<>>, given)
      BY <1>1, <2>1, FlushAccounts
    <3> QED BY <1>2, <2>2, <3>1, <3>2 DEF Sent
  <2>3. CASE Unsent(s)
    <3>1. PICK sent \in Seq(Given) : given = sent \o DataIn(Block) /\ Carries(disk, sent)
      BY <2>1 DEF Accounted
    <3>2. DataIn(Block) \in Seq(Given) /\ DataOf(DataFrames) = DataIn(Block)
      BY <1>1, PendingFrames, DataInAppend, JunkIsNoData
    <3>3. Len(DataOf(s)) = 0
      BY <2>3 DEF Unsent
    <3>4. given' = sent
      <4>1. given' = SubSeq(given, 1, Len(given) + 0 - Len(DataIn(Block)))
        BY <1>2, <3>2, <3>3
      <4>2. \A a, b \in Seq(Given) :
               SubSeq(a \o b, 1, Len(a \o b) + 0 - Len(b)) = a
        OBVIOUS
      <4> QED BY <3>1, <3>2, <4>1, <4>2
    <3>5. sent = sent \o <<>>
      BY ConcatEmptySeq
    <3>6. Accounted(disk, <<>>, sent)
      BY <3>1, <3>5 DEF Accounted
    <3> QED BY <1>2, <2>3, <3>4, <3>6 DEF Unsent
  <2> QED BY <1>1, <1>2, <2>2, <2>3, InFlightData
<1> QED BY <1>1, <1>3, <1>4 DEF RInv, NothingYet, Pending

-----------------------------------------------------------------------------
(* A file without failures, with CRC *)

\* The first block of a file that met no failure is a header, even a torn one; as
\* long as there is none, the writer has nothing to send.
HeaderFirst ==
    failed = {} =>
        /\ disk # <<>> => disk[1].type = "header" /\ disk[1].crc
        /\ disk = <<>> /\ mode = "write" => ~crcOn /\ BlkSeq = 0 /\ Block = <<>>

\* A reader of a file that can be extended stops at its end.
StopsAtEnd ==
    mode = "read" /\ ret # "ok" /\ "lost" \notin failed /\ Extendable(disk)
        => ret = "eof" /\ cursor = Len(disk)

\* What is written behind the first block leaves it alone.
LEMMA FirstStays ==
    ASSUME NEW d \in Seq(Frames), NEW s \in Seq(Frames), d # <<>>
    PROVE  d \o s # <<>> /\ (d \o s)[1] = d[1]
<1>1. Len(d) \in Nat /\ Len(d) # 0
  BY EmptySeq, LenProperties
<1> QED BY <1>1

\* Opening a file without a block sets the fields of EdfWriter_t to nothing.
LEMMA OpenH == IInv /\ HeaderFirst /\ (OpenWrite \/ OpenAppend \/ OpenRead) => HeaderFirst'
<1> SUFFICES ASSUME IInv, HeaderFirst, OpenWrite \/ OpenAppend \/ OpenRead
             PROVE  HeaderFirst'
  OBVIOUS
<1>1. mode = "shut" /\ ~crcOn /\ BlkSeq = 0 /\ Block = <<>> /\ disk \in Seq(Frames)
  BY DEF IInv, TypeOK, OpenWrite, OpenAppend, OpenRead
<1>2. CASE OpenWrite \/ OpenRead
  BY <1>1, <1>2 DEF HeaderFirst, OpenWrite, OpenRead
<1>3. CASE OpenAppend
  <2>1. disk' = disk /\ failed' = failed
    BY <1>3 DEF OpenAppend
  <2>2. ASSUME disk = <<>>
        PROVE  ~crcOn' /\ BlkSeq' = 0 /\ Block' = <<>>
    <3>1. PICK n \in 0 .. Len(disk) :
             /\ BlkSeq' = n % SeqSpan
             /\ crcOn' = (n > 0 /\ HasCrc(disk))
             /\ Block' \in IF SkewAfter(n) THEN {<<>>, <<Junk>>}
                          ELSE IF n < Len(disk) THEN Leftover(disk[n + 1]) ELSE {<<>>}
      BY <1>3 DEF OpenAppend
    <3>2. n = 0 /\ ~(n < Len(disk)) /\ ~(n > 0)
      BY <2>2
    <3>3. ~SkewAfter(n)
      BY <3>2 DEF SkewAfter
    <3>4. 0 % SeqSpan = 0
      BY SeqSpanAssumption
    <3> HIDE DEF HasCrc
    <3> QED BY <3>1, <3>2, <3>3, <3>4
  <2> QED BY <2>1, <2>2 DEF HeaderFirst
<1> QED BY <1>2, <1>3

\* A writer that only writes to a file that is not empty leaves its header.
LEMMA WriterH ==
    ASSUME IInv, RInv, HeaderFirst, mode = "write", failed' = failed,
           NEW s \in Seq(Frames), disk' = disk \o s,
           failed = {} /\ disk = <<>> => s = <<>> /\ mode' # "write"
    PROVE  HeaderFirst'
<1>1. disk \in Seq(Frames)
  BY DEF IInv, TypeOK
<1>2. CASE disk # <<>>
  <2>1. disk' # <<>> /\ disk'[1] = disk[1]
    BY <1>1, <1>2, FirstStays
  <2> QED BY <1>2, <2>1 DEF HeaderFirst
<1>3. CASE disk = <<>>
  <2>1. failed = {} => disk' = <<>>
    BY <1>1, <1>3
  <2> QED BY <1>3, <2>1 DEF HeaderFirst
<1> QED BY <1>2, <1>3

\* EdfWriteHeader writes the first block.
LEMMA HeaderH ==
    ASSUME NEW c \in CrcChoices, FALSE \notin CrcChoices, IInv, HeaderFirst,
           WriteHeader(c) \/ WriteHeaderFails(c) \/ WriteHeaderLost(c)
    PROVE  HeaderFirst'
<1>1. CASE WriteHeader(c)
  <2>1. c = TRUE
    BY CrcAssumption
  <2>2. disk' = <<HeaderFrame(c)>>
    BY <1>1 DEF WriteHeader
  <2>3. HeaderFrame(c).type = "header" /\ HeaderFrame(c).crc = c
    BY DEF HeaderFrame, Frame
  <2> QED BY <2>1, <2>2, <2>3 DEF HeaderFirst
<1>2. CASE WriteHeaderFails(c) \/ WriteHeaderLost(c)
  <2>1. failed' # {}
    BY <1>2 DEF WriteHeaderFails, WriteHeaderLost, Fail
  <2> QED BY <2>1 DEF HeaderFirst
<1> QED BY <1>1, <1>2

\* EdfWriteInfo comes after a header.
LEMMA InfoH ==
    ASSUME NEW i \in Infos, IInv, RInv, HeaderFirst,
           WriteInfo(i) \/ WriteInfoFails(i) \/ WriteInfoLost(i)
    PROVE  HeaderFirst'
<1>1. CASE WriteInfo(i)
  <2> DEFINE f == InfoFrame(SeqAfterFlush, i)
  <2>1. /\ TypeOK /\ mode = "write" /\ failed' = failed /\ HeaderTried
        /\ disk' = disk \o DataFrames \o <<f>>
    BY <1>1 DEF IInv, WriteInfo, Writing
  <2>2. SeqAfterFlush \in Nat
    BY <2>1, FlushKeeps, SeqSpanAssumption
  <2>3. f \in Frames
    BY <2>1, <2>2, FrameTypes
  <2> HIDE DEF f
  <2>4. DataFrames \in Seq(Frames) /\ <<f>> \in Seq(Frames) /\ disk \in Seq(Frames)
    BY <2>1, <2>3, PendingFrames DEF TypeOK
  <2>5. DataFrames \o <<f>> \in Seq(Frames) /\ disk' = disk \o (DataFrames \o <<f>>)
    BY <2>1, <2>4, ConcatProperties, ConcatAssociative
  <2>6. failed = {} => disk # <<>>
    BY <2>1 DEF HeaderFirst, HeaderTried
  <2> QED BY <2>1, <2>5, <2>6, WriterH
<1>2. CASE WriteInfoFails(i) \/ WriteInfoLost(i)
  <2>1. failed' # {}
    BY <1>2 DEF WriteInfoFails, WriteInfoLost, Fail
  <2> QED BY <2>1 DEF HeaderFirst
<1> QED BY <1>1, <1>2

\* Data comes after a description.
LEMMA DataH ==
    ASSUME NEW x \in Values, IInv, RInv, HeaderFirst, WriteData(x)
    PROVE  HeaderFirst'
<1>1. /\ TypeOK /\ mode = "write" /\ failed' = failed /\ t # NoType
  BY DEF IInv, WriteData, Writing
<1>2. disk' = disk \o DataFrames \/ disk' = disk \o <<>>
  BY DEF WriteData
<1>3. DataFrames \in Seq(Frames) /\ <<>> \in Seq(Frames)
  BY <1>1, PendingFrames, EmptySeq
<1>4. failed = {} => disk # <<>>
  BY <1>1 DEF RInv, NothingYet
<1> QED BY <1>1, <1>2, <1>3, <1>4, WriterH

\* Without a header there is nothing to flush.
LEMMA FlushH ==
    IInv /\ RInv /\ HeaderFirst /\ (Flush \/ FlushFails \/ FlushLost \/ CloseWrite)
        => HeaderFirst'
<1> SUFFICES ASSUME IInv, RInv, HeaderFirst, Flush \/ FlushFails \/ FlushLost \/ CloseWrite
             PROVE  HeaderFirst'
  OBVIOUS
<1>1. TypeOK /\ mode = "write" /\ DataFrames \in Seq(Frames)
  BY PendingFrames DEF IInv, Flush, FlushFails, FlushLost, CloseWrite, Writing
<1>2. CASE Flush
  <2>1. failed' = failed /\ disk' = disk \o DataFrames /\ Block # <<>>
    BY <1>2 DEF Flush
  <2>2. failed = {} => disk # <<>>
    BY <1>1, <2>1 DEF HeaderFirst
  <2> QED BY <1>1, <2>1, <2>2, WriterH
<1>3. CASE FlushFails \/ FlushLost
  <2>1. failed' # {}
    BY <1>3 DEF FlushFails, FlushLost, Fail
  <2> QED BY <2>1 DEF HeaderFirst
<1>4. CASE CloseWrite
  <2>1. failed' = failed /\ disk' = disk \o DataFrames /\ mode' = "shut"
    BY <1>4 DEF CloseWrite, Shut
  <2>2. failed = {} /\ disk = <<>> => DataFrames = <<>>
    BY <1>1 DEF HeaderFirst, DataFrames
  <2> QED BY <1>1, <2>1, <2>2, WriterH
<1> QED BY <1>2, <1>3, <1>4

\* Without a header, only a header can be in flight.
LEMMA CrashH ==
    ASSUME FALSE \notin CrcChoices, IInv, RInv, HeaderFirst, Crash
    PROVE  HeaderFirst'
<1>1. /\ TypeOK /\ mode = "write" /\ mode' = "shut" /\ failed' = failed
      /\ disk \in Seq(Frames)
  BY DEF IInv, TypeOK, Crash, Shut
<1>2. PICK s \in InFlight : disk' = disk \o s
  BY DEF Crash
<1>3. s \in Seq(Frames)
  BY <1>1, InFlightData DEF Sent, Unsent
<1>4. CASE s = <<>> \/ disk # <<>> \/ failed # {}
  BY <1>1, <1>2, <1>3, <1>4, WriterH
<1>5. CASE s # <<>> /\ disk = <<>> /\ failed = {}
  <2>1. Block = <<>> /\ ~HeaderTried
    BY <1>1, <1>5 DEF HeaderFirst, HeaderTried
  <2>2. PICK c \in CrcChoices : s \in Torn(HeaderFrame(c))
    BY <1>5, <2>1 DEF InFlight
  <2>3. PICK p \in {"head", "tail"} : s = <<[HeaderFrame(c) EXCEPT !.part = p]>>
    BY <1>5, <2>2 DEF Torn
  <2>4. c = TRUE
    BY CrcAssumption
  <2>5. /\ [HeaderFrame(c) EXCEPT !.part = p].type = "header"
        /\ [HeaderFrame(c) EXCEPT !.part = p].crc = c
    BY DEF HeaderFrame, Frame
  <2>6. disk' = s
    BY <1>2, <1>3, <1>5, ConcatEmptySeq
  <2> HIDE DEF HeaderFrame
  <2> QED BY <2>3, <2>4, <2>5, <2>6 DEF HeaderFirst
<1> QED BY <1>4, <1>5

\* Reading leaves the header where it is.
LEMMA ReadH ==
    IInv /\ HeaderFirst /\ (ReadWhole \/ ReadEnd \/ CloseRead) => HeaderFirst'
<1> SUFFICES ASSUME IInv, HeaderFirst, ReadWhole \/ ReadEnd \/ CloseRead
             PROVE  HeaderFirst'
  OBVIOUS
<1>1. mode' \in {"read", "shut"} /\ disk' = disk /\ failed' = failed
  BY DEF ReadWhole, ReadEnd, CloseRead, Shut
<1> QED BY <1>1 DEF HeaderFirst

\* A whole block of a file without silent losses is read with code 0.
LEMMA ReadWholeE == IInv /\ ReadWhole => StopsAtEnd'
<1> SUFFICES ASSUME IInv, ReadWhole, "lost" \notin failed PROVE ret' = "ok"
  BY DEF StopsAtEnd, ReadWhole
<1>1. /\ mode = "read" /\ ret = "ok" /\ ~skew /\ cursor < Len(disk) /\ Whole(disk[cursor + 1])
  BY DEF ReadWhole
<1>2. disk[cursor + 1].seq = BlkSeq
  BY <1>1, ReaderMeetsItsNumber
<1> QED BY <1>1, <1>2 DEF ReadWhole

\* In a file that can be extended EdfReadBlock only fails at the end.
LEMMA ReadEndE == IInv /\ ReadEnd => StopsAtEnd'
<1> SUFFICES ASSUME IInv, ReadEnd, Extendable(disk)
             PROVE  ret' = "eof" /\ cursor' = Len(disk')
  BY DEF StopsAtEnd, ReadEnd
<1>1. mode = "read" /\ cursor' = cursor /\ disk' = disk
  BY DEF ReadEnd
<1>2. ReaderOK /\ cursor \in Nat /\ Len(disk) \in Nat /\ cursor <= Len(disk)
  BY <1>1 DEF IInv, TypeOK, ReaderOK
<1>3. ~skew
  <2>1. cursor > 0 => disk # <<>>
    BY <1>2
  <2> QED BY <1>2, <2>1 DEF ReaderOK, Extendable
<1>4. cursor < Len(disk) => Whole(disk[cursor + 1])
  <2>1. cursor < Len(disk) => cursor + 1 \in 1 .. Len(disk)
    BY <1>2
  <2> QED BY <2>1 DEF Extendable
<1>5. cursor >= Len(disk) - 1 /\ ret' = "eof" /\ ~(cursor < Len(disk))
  BY <1>2, <1>3, <1>4 DEF ReadEnd
<1> QED BY <1>1, <1>2, <1>5

\* No other step leaves a reader with a code.
LEMMA OtherE ==
    ASSUME IInv, [Next]_vars, StopsAtEnd
    PROVE  StopsAtEnd'
<1>1. CASE UNCHANGED vars
  BY <1>1 DEF vars, StopsAtEnd
<1>2. CASE OpenWrite \/ OpenAppend \/ CloseRead \/ CloseWrite \/ Crash
  BY <1>2 DEF StopsAtEnd, OpenWrite, OpenAppend, CloseRead, CloseWrite, Crash, Shut
<1>3. CASE OpenRead
  BY <1>3 DEF StopsAtEnd, OpenRead, IInv, reading
<1>4. ASSUME NEW c \in CrcChoices, WriteHeader(c) \/ WriteHeaderFails(c) \/ WriteHeaderLost(c)
      PROVE  StopsAtEnd'
  BY <1>4 DEF StopsAtEnd, WriteHeader, WriteHeaderFails, WriteHeaderLost, Writing
<1>5. ASSUME NEW i \in Infos, WriteInfo(i) \/ WriteInfoFails(i) \/ WriteInfoLost(i)
      PROVE  StopsAtEnd'
  BY <1>5 DEF StopsAtEnd, WriteInfo, WriteInfoFails, WriteInfoLost, Writing
<1>6. ASSUME NEW x \in Values, WriteData(x)
      PROVE  StopsAtEnd'
  BY <1>6 DEF StopsAtEnd, WriteData, Writing
<1>7. CASE Flush \/ FlushFails \/ FlushLost
  BY <1>7 DEF StopsAtEnd, Flush, FlushFails, FlushLost, Writing
<1>8. CASE ReadWhole \/ ReadEnd
  BY <1>8, ReadWholeE, ReadEndE
<1> QED BY <1>1, <1>2, <1>3, <1>4, <1>5, <1>6, <1>7, <1>8 DEF Next

-----------------------------------------------------------------------------
(* The theorems *)

\* Each step keeps the account.
LEMMA StepKeepsR == IInv /\ RInv /\ [Next]_vars => RInv'
<1> SUFFICES ASSUME IInv, RInv, [Next]_vars PROVE RInv'
  OBVIOUS
<1>1. CASE UNCHANGED vars
  BY <1>1 DEF vars, RInv, NothingYet, Pending
<1>2. CASE OpenWrite \/ OpenAppend \/ OpenRead
  BY <1>2, OpenWriteR, OpenAppendR, OpenReadR
<1>3. ASSUME NEW c \in CrcChoices, WriteHeader(c) \/ WriteHeaderFails(c) \/ WriteHeaderLost(c)
      PROVE  RInv'
  BY <1>3, HeaderR
<1>4. ASSUME NEW i \in Infos, WriteInfo(i) \/ WriteInfoFails(i) \/ WriteInfoLost(i)
      PROVE  RInv'
  BY <1>4, InfoR
<1>5. ASSUME NEW x \in Values, WriteData(x)
      PROVE  RInv'
  BY <1>5, DataR
<1>6. CASE Flush \/ FlushFails \/ FlushLost \/ CloseWrite \/ Crash
  BY <1>6, FlushR, FlushFailsR, FlushLostR, CloseWriteR, CrashR
<1>7. CASE ReadWhole \/ ReadEnd \/ CloseRead
  BY <1>7, ReadR
<1> QED BY <1>1, <1>2, <1>3, <1>4, <1>5, <1>6, <1>7 DEF Next

\* Each step leaves the header where it is.
LEMMA StepKeepsH ==
    ASSUME FALSE \notin CrcChoices
    PROVE  IInv /\ RInv /\ HeaderFirst /\ [Next]_vars => HeaderFirst'
<1> SUFFICES ASSUME IInv, RInv, HeaderFirst, [Next]_vars PROVE HeaderFirst'
  OBVIOUS
<1>1. CASE UNCHANGED vars
  BY <1>1 DEF vars, HeaderFirst
<1>2. CASE OpenWrite \/ OpenAppend \/ OpenRead
  BY <1>2, OpenH
<1>3. ASSUME NEW c \in CrcChoices, WriteHeader(c) \/ WriteHeaderFails(c) \/ WriteHeaderLost(c)
      PROVE  HeaderFirst'
  BY <1>3, HeaderH
<1>4. ASSUME NEW i \in Infos, WriteInfo(i) \/ WriteInfoFails(i) \/ WriteInfoLost(i)
      PROVE  HeaderFirst'
  BY <1>4, InfoH
<1>5. ASSUME NEW x \in Values, WriteData(x)
      PROVE  HeaderFirst'
  BY <1>5, DataH
<1>6. CASE Flush \/ FlushFails \/ FlushLost \/ CloseWrite \/ Crash
  BY <1>6, FlushH, CrashH
<1>7. CASE ReadWhole \/ ReadEnd \/ CloseRead
  BY <1>7, ReadH
<1> QED BY <1>1, <1>2, <1>3, <1>4, <1>5, <1>6, <1>7 DEF Next

\* What was given to the writers is what they sent and what is pending, and the file
\* has of it what it carries, in every state in which no block was lost in silence.
THEOREM Accounting == Spec => []RInv
<1>1. Init => RInv
  BY InitR
<1>2. IInv /\ RInv /\ [Next]_vars => RInv'
  BY StepKeepsR
<1> QED BY <1>1, <1>2, Invariance, PTL DEF Spec

\* A reader has been handed a prefix of what was given, after any sequence of sessions,
\* appends, crashes and refused writes, for files of any length.
THEOREM PrefixIsRead == Spec => []ReadsAPrefix
<1>1. IInv /\ RInv => ReadsAPrefix
  <2> SUFFICES ASSUME IInv, RInv, mode = "read", "lost" \notin failed
               PROVE  IsPrefix(DataOf(SubSeq(disk, 1, cursor)), given)
    BY DEF ReadsAPrefix
  <2>1. /\ disk \in Seq(Frames) /\ cursor \in Nat
        /\ cursor > 0 => cursor \in Reachable(disk)
    BY DEF IInv, TypeOK, ReaderOK
  <2>2. PICK sent \in Seq(Given) : given = sent \o <<>> /\ Carries(disk, sent)
    BY DEF RInv, Pending, Accounted
  <2>3. given = sent
    BY <2>2, ConcatEmptySeq
  <2>4. CASE cursor > 0
    BY <2>1, <2>2, <2>3, <2>4 DEF Carries
  <2>5. CASE cursor = 0
    <3>1. SubSeq(disk, 1, cursor) = <<>>
      BY <2>1, <2>5
    <3>2. IsPrefix(<<>>, <<>> \o given) /\ <<>> \o given = given
      BY <2>2, <2>3, EmptySeq, PrefixOfConcat, ConcatEmptySeq
    <3> QED BY <3>1, <3>2, DataOfShort
  <2> QED BY <2>1, <2>4, <2>5
<1> QED BY <1>1, Invariance, Accounting, PTL

\* With CRC, a file that met no failure and ends in no torn block is read to its end
\* and yields all that was given.
THEOREM CleanIsRead ==
    ASSUME FALSE \notin CrcChoices
    PROVE  Spec => []CleanFileReadsBack
<1>1. Init => HeaderFirst /\ StopsAtEnd
  BY DEF Init, HeaderFirst, StopsAtEnd
<1>2. IInv /\ RInv /\ HeaderFirst /\ [Next]_vars => HeaderFirst'
  BY StepKeepsH
<1>3. IInv /\ [Next]_vars /\ StopsAtEnd => StopsAtEnd'
  BY OtherE
<1>4. IInv /\ RInv /\ HeaderFirst /\ StopsAtEnd => CleanFileReadsBack
  <2> SUFFICES ASSUME IInv, RInv, HeaderFirst, StopsAtEnd, mode = "read", ret # "ok",
                      failed = {}, \A n \in 1 .. Len(disk) : Whole(disk[n])
               PROVE  ret = "eof" /\ cursor = Len(disk) /\ DataOf(disk) = given
    BY DEF CleanFileReadsBack
  <2>1. Extendable(disk)
    BY DEF HeaderFirst, Extendable, HasCrc
  <2>2. PICK sent \in Seq(Given) : given = sent \o <<>> /\ Carries(disk, sent)
    BY DEF RInv, Pending, Accounted
  <2>3. DataOf(disk) = given
    BY <2>1, <2>2, ConcatEmptySeq DEF Carries
  <2> QED BY <2>1, <2>3 DEF StopsAtEnd
<1> QED BY <1>1, <1>2, <1>3, <1>4, Invariance, Accounting, PTL DEF Spec

\* A crash takes from what was given only the end, and no more than a block holds,
\* whatever is in flight and whatever was lost before.
THEOREM CrashTakesABlock == Spec => CrashLosesAtMostABlock
<1> DEFINE Keeps == Crash => /\ IsPrefix(given', given)
                             /\ Len(given) - Len(given') <= BlockCap
<1>1. IInv /\ RInv /\ [Next]_vars => [Keeps]_vars
  <2> SUFFICES ASSUME IInv, RInv, Crash
               PROVE  IsPrefix(given', given) /\ Len(given) - Len(given') <= BlockCap
    OBVIOUS
  <2>1. mode = "write"
    BY DEF Crash
  <2>2. PICK s \in InFlight :
          given' = SubSeq(given, 1, Len(given) + Len(DataOf(s)) - Len(DataOf(DataFrames)))
    BY DEF Crash
  <2> QED BY <2>1, <2>2, CrashKeeps
<1>2. [][Keeps]_vars => CrashLosesAtMostABlock
  BY PTL DEF CrashLosesAtMostABlock
<1> QED BY <1>1, <1>2, Invariance, Accounting, PTL DEF Spec
=============================================================================
