---------------------------- MODULE EdfTypeInfo -----------------------------
(***************************************************************************)
(* Type descriptions on their way from a program to a reader: written by   *)
(* the C library (TypeInfo.c) or the .NET one (BinWriter.cs), each in a    *)
(* block of its own, and parsed by BinToText or EdfToDyn in C, into memory *)
(* of BufSize bytes, or by BinToTxtConverter in .NET.  The converters to   *)
(* text write them again.                                                  *)
(*                                                                         *)
(* Blocks are sequences of bytes.  A text is a sequence of tokens: [tok,   *)
(* val].  Blocks reach the reader undamaged.                               *)
(***************************************************************************)
EXTENDS Integers, Sequences, SequencesExt

CONSTANTS
    Recs,       \* the TypeRec_t: [Id, Inf, Name, Desc], where Inf is a tree of
                \* [Type, Dims, Name, Childs] and strings are sequences of bytes
    Null,       \* a string that is not given
    MaxStr,     \* 255
    BlockSize,  \* BLOCK_SIZE
    BufSize,    \* sizeof(Buf) of the reader
    SizeofRec,  \* sizeof(TypeRec_t)
    SizeofInf,  \* sizeof(TypeInfo_t)
    MaxInfos    \* bound on the descriptions of a file

Struct == 0

\* The nodes of a tree.
RECURSIVE Nodes(_)
Nodes(t) == {t} \cup UNION {Nodes(t.Childs[n]) : n \in DOMAIN t.Childs}

\* A Struct without children is written without its count, and read with it: no
\* caller writes one.
ASSUME RecsAssumption ==
    \A r \in Recs : \A t \in Nodes(r.Inf) : t.Type = Struct <=> t.Childs # <<>>

VARIABLES
    by,      \* the library that writes
    given,   \* history: the records written
    file,    \* their blocks
    reader,  \* who reads; "none" before
    Block,   \* the block of the reader
    got,     \* what it made of each: a record or Null
    txt,     \* the text of each, for the converters to text
    pc       \* "run", "end", "thrown"

vars == <<by, given, file, reader, Block, got, txt, pc>>

-----------------------------------------------------------------------------
(* Writing *)

Given(s) == IF s = Null THEN <<>> ELSE s
Cut(s) == SubSeq(s, 1, IF Len(s) < MaxStr THEN Len(s) ELSE MaxStr)

\* StreamWriteString; WriteBin of a string that is not too long for it.
WriteString(s) == <<Len(Cut(Given(s)))>> \o Cut(Given(s))
Word(n) == [k \in 1 .. 4 |-> (n \div (256 ^ (k - 1))) % 256]

\* A mistaken StreamWriteInfoBin: the name comes behind the children.
RECURSIVE InfoBinNameLast(_)
InfoBinNameLast(t) ==
    <<t.Type, Len(t.Dims)>>
    \o FlattenSeq([n \in DOMAIN t.Dims |-> Word(t.Dims[n])])
    \o (IF t.Type = Struct
        THEN <<Len(t.Childs)>>
             \o FlattenSeq([n \in DOMAIN t.Childs |-> InfoBinNameLast(t.Childs[n])])
        ELSE <<>>)
    \o WriteString(t.Name)

\* StreamWriteInfoBin; BinWriter.Write(TypeInf).
RECURSIVE InfoBin(_)
InfoBin(t) ==
    <<t.Type, Len(t.Dims)>>
    \o FlattenSeq([n \in DOMAIN t.Dims |-> Word(t.Dims[n])])
    \o WriteString(t.Name)
    \o (IF t.Type = Struct /\ t.Childs # <<>>
        THEN <<Len(t.Childs)>>
             \o FlattenSeq([n \in DOMAIN t.Childs |-> InfoBin(t.Childs[n])])
        ELSE <<>>)

\* StreamWriteInfBin; BinWriter.Write(TypeRec).
InfBin(r) ==
    Word(r.Id) \o InfoBin(r.Inf) \o WriteString(r.Name) \o WriteString(r.Desc)

\* WriteBin makes room for 254 bytes, and GetBytes throws if they are more.
TooLong(s) == Len(Given(s)) > MaxStr - 1
StringsOf(r) == {r.Name, r.Desc} \cup {t.Name : t \in Nodes(r.Inf)}

\* A mistaken Refuses: one byte more is accepted.
RefusesLate(lib, r) ==
    \/ Len(InfBin(r)) > BlockSize + 1
    \/ lib = "Net" /\ \E s \in StringsOf(r) : TooLong(s)

\* EdfWriteInfo returns a code, Write(TypeRec) throws.
Refuses(lib, r) ==
    \/ Len(InfBin(r)) > BlockSize
    \/ lib = "Net" /\ \E s \in StringsOf(r) : TooLong(s)

-----------------------------------------------------------------------------
(* Text *)

Tok(tok, val) == [tok |-> tok, val |-> val]
\* "%.255s", and in .NET the whole of it.
Str(lib, s) == IF lib = "C" THEN Cut(Given(s)) ELSE Given(s)

\* StreamWriteInfoTxt, TxtWriter.ToString.
RECURSIVE InfoTxt(_, _, _)
InfoTxt(lib, t, noffset) ==
    <<Tok("type", <<noffset, t.Type>>)>>
    \o [n \in DOMAIN t.Dims |-> Tok("dim", <<t.Dims[n]>>)]
    \o (IF Given(t.Name) # <<>> THEN <<Tok("name", Str(lib, t.Name))>> ELSE <<>>)
    \o (IF t.Type = Struct /\ t.Childs # <<>>
        THEN <<Tok("{", <<noffset>>)>>
             \o FlattenSeq([n \in DOMAIN t.Childs |-> InfoTxt(lib, t.Childs[n], noffset + 1)])
             \o <<Tok("}", <<noffset>>)>>
        ELSE <<Tok(";", <<>>)>>)

\* A mistaken InfTxt: .NET looks for null alone, too.
InfTxtOfEmpty(lib, r) ==
    <<Tok("id", <<r.Id>>), Tok("name", Str(lib, r.Name))>>
    \o (IF r.Desc = Null THEN <<>> ELSE <<Tok("desc", Str(lib, r.Desc))>>)
    \o InfoTxt(lib, r.Inf, 0)

\* StreamWriteInfTxt, TxtWriter.Write(TypeRec): C writes an empty Desc, .NET not.
InfTxt(lib, r) ==
    <<Tok("id", <<r.Id>>), Tok("name", Str(lib, r.Name))>>
    \o (IF r.Desc = Null \/ (lib = "Net" /\ r.Desc = <<>>) THEN <<>>
        ELSE <<Tok("desc", Str(lib, r.Desc))>>)
    \o InfoTxt(lib, r.Inf, 0)

-----------------------------------------------------------------------------
(* Parsing *)

Byte(b, p) == IF p \in DOMAIN b THEN b[p] ELSE 0
WordAt(b, p) ==
    FoldLeft(LAMBDA n, k : n + Byte(b, p + k) * 256 ^ k, 0, <<0, 1, 2, 3>>)
StringAt(b, p) == [k \in 1 .. Byte(b, p) |-> Byte(b, p + k)]

\* A mistaken count of memory: an empty string takes a byte.
StringMemAlways(s) == Len(s) + 1

\* What StreamReadString takes from the memory: nothing for an empty string, for
\* another one byte more.
StringMem(s) == IF s = <<>> THEN 0 ELSE Len(s) + 1

\* StreamBinToCBin, BinReader.ParseInf from place p of b: the tree, the place
\* behind it and the memory taken.
RECURSIVE InfoAt(_, _), InfosAt(_, _, _)
InfoAt(b, p) ==
    LET dims == Byte(b, p + 1)
        name == p + 2 + 4 * dims
        childs == name + 1 + Byte(b, name)
        cs == IF Byte(b, p) # Struct THEN [list |-> <<>>, p |-> childs, mem |-> 0]
              ELSE InfosAt(b, childs + 1, Byte(b, childs))
    IN  [t |-> [Type |-> Byte(b, p),
                Dims |-> [k \in 1 .. dims |-> WordAt(b, p + 4 * k - 2)],
                Name |-> StringAt(b, name), Childs |-> cs.list],
         p |-> cs.p,
         mem |-> 4 * dims + StringMem(StringAt(b, name)) + SizeofInf * Len(cs.list) + cs.mem]
InfosAt(b, p, count) ==
    IF count = 0 THEN [list |-> <<>>, p |-> p, mem |-> 0]
    ELSE LET first == InfoAt(b, p)
             rest == InfosAt(b, first.p, count - 1)
         IN  [list |-> <<first.t>> \o rest.list, p |-> rest.p, mem |-> first.mem + rest.mem]

\* StreamWriteBinToCBin, BinReader.ReadInfo: the record, the place behind it, the
\* memory taken.  C has NULL for an empty Desc.
RecAt(lib, b) ==
    LET inf == InfoAt(b, 5)
        name == StringAt(b, inf.p)
        desc == StringAt(b, inf.p + 1 + Len(name))
    IN  [rec |-> [Id |-> WordAt(b, 1), Inf |-> inf.t, Name |-> name,
                  Desc |-> IF lib = "C" /\ desc = <<>> THEN Null ELSE desc],
         p |-> inf.p + 2 + Len(name) + Len(desc),
         mem |-> SizeofRec + inf.mem + StringMem(name) + StringMem(desc)]

-----------------------------------------------------------------------------
Init ==
    /\ by \in {"C", "Net"} /\ given = <<>> /\ file = <<>>
    /\ reader = "none" /\ Block = <<>> /\ got = <<>> /\ txt = <<>> /\ pc = "run"

\* A record that is refused is not in the file.
Write(r) ==
    /\ reader = "none" /\ Len(given) < MaxInfos /\ ~Refuses(by, r)
    /\ given' = Append(given, r) /\ file' = Append(file, InfBin(r))
    /\ UNCHANGED <<by, reader, Block, got, txt, pc>>

Open(who) ==
    /\ reader = "none" /\ given # <<>>
    /\ reader' = who /\ Block' = [k \in 1 .. BlockSize |-> 0]
    /\ UNCHANGED <<by, given, file, got, txt, pc>>

Reading == pc = "run" /\ Len(got) < Len(file)
Current == file[Len(got) + 1]
\* Bytes behind the block are of those read before.
Loaded == Current \o SubSeq(Block, Len(Current) + 1, BlockSize)

Parses == RecAt("C", Current).mem <= BufSize /\ RecAt("C", Current).p - 1 <= Len(Current)

\* BinToText: a description that cannot be parsed ends it.
BinToText ==
    /\ reader = "BinToText" /\ Reading
    /\ Block' = Loaded
    /\ IF Parses THEN /\ got' = Append(got, RecAt("C", Current).rec)
                      /\ txt' = Append(txt, InfTxt("C", RecAt("C", Current).rec)) /\ UNCHANGED pc
       ELSE got' = Append(got, Null) /\ pc' = "end" /\ UNCHANGED txt
    /\ UNCHANGED <<by, given, file, reader>>

\* EdfToDyn: it is passed over, with br.t NULL.
EdfToDyn ==
    /\ reader = "EdfToDyn" /\ Reading
    /\ Block' = Loaded
    /\ got' = Append(got, IF Parses THEN RecAt("C", Current).rec ELSE Null)
    /\ UNCHANGED <<by, given, file, reader, txt, pc>>

\* A mistaken NetThrows: a length of 254 is taken for a fault as well.
NetThrowsEarly(b) ==
    LET p == InfoAt(b, 5).p
    IN  Byte(b, p) >= MaxStr - 1 \/ Byte(b, p + 1 + Byte(b, p)) >= MaxStr - 1

\* ReadBin takes a length of 255, of Name or of Desc, for a fault.
NetThrows(b) ==
    LET p == InfoAt(b, 5).p
    IN  Byte(b, p) = MaxStr \/ Byte(b, p + 1 + Byte(b, p)) = MaxStr

\* BinToTxtConverter.Execute; ReadInfo parses the whole of the buffer.
Execute ==
    /\ reader = "Execute" /\ Reading
    /\ Block' = Loaded
    /\ IF NetThrows(Loaded) THEN pc' = "thrown" /\ UNCHANGED <<got, txt>>
       ELSE /\ got' = Append(got, RecAt("Net", Loaded).rec)
            /\ txt' = Append(txt, InfTxt("Net", RecAt("Net", Loaded).rec)) /\ UNCHANGED pc
    /\ UNCHANGED <<by, given, file, reader>>

Next ==
    \/ \E r \in Recs : Write(r)
    \/ \E who \in {"BinToText", "EdfToDyn", "Execute"} : Open(who)
    \/ BinToText \/ EdfToDyn \/ Execute

Spec == Init /\ [][Next]_vars

-----------------------------------------------------------------------------
(* Properties *)

\* The variables keep their types, and every block its size.
TypeOK ==
    /\ by \in {"C", "Net"} /\ given \in Seq(Recs) /\ Len(given) <= MaxInfos
    /\ Len(file) = Len(given)
    /\ \A n \in DOMAIN file : Len(file[n]) <= BlockSize /\ file[n] \in Seq(0 .. 255)
    /\ reader \in {"none", "BinToText", "EdfToDyn", "Execute"}
    /\ reader # "none" => Len(Block) = BlockSize
    /\ Len(got) <= Len(file) /\ Len(txt) <= Len(got)
    /\ pc \in {"run", "end", "thrown"}

\* A record as a reader should have it: strings as they are written.
RECURSIVE InfoRead(_)
InfoRead(t) ==
    [t EXCEPT !.Name = Cut(Given(@)), !.Childs = [n \in DOMAIN @ |-> InfoRead(@[n])]]
RecRead(r) ==
    [r EXCEPT !.Inf = InfoRead(@), !.Name = Cut(Given(@)), !.Desc = Cut(Given(@))]

\* Either library reads what either has written, nested structures, arrays and
\* names alike, with whatever was in the reader's buffer before.
ParsedIsWritten ==
    \A n \in DOMAIN got :
        got[n] # Null => [got[n] EXCEPT !.Desc = Given(@)] = RecRead(given[n])

\* The memory for the structures of C that stand for a tree, without the root.
RECURSIVE InfoMemory(_)
InfoMemory(t) ==
    4 * Len(t.Dims) + (IF t.Name = <<>> THEN 0 ELSE Len(t.Name) + 1)
    + FoldLeft(LAMBDA m, child : m + SizeofInf + InfoMemory(child), 0, t.Childs)
MemoryFor(r) ==
    LET string(s) == IF s = <<>> THEN 0 ELSE Len(s) + 1
        read == RecRead(r)
    IN  SizeofRec + InfoMemory(read.Inf) + string(read.Name) + string(read.Desc)

\* The C readers refuse a description when, and only when, its structures do not
\* fit the memory, so that one that fits is converted (TypeInfo.c 149-241); the
\* .NET reader refuses none.
RefusedOnlyForRoom ==
    \A n \in DOMAIN got :
        got[n] = Null <=> reader # "Execute" /\ MemoryFor(given[n]) > BufSize

\* The .NET reader throws only at a name or comment of 255 bytes, which only C
\* writes.
ThrowsOnlyAtLongNames ==
    pc = "thrown" =>
        LET r == given[Len(got) + 1]
        IN  by = "C" /\ \E s \in {r.Name, r.Desc} : Len(Given(s)) >= MaxStr

\* The text of a description that was converted is the one either library writes
\* itself, which Test.c 341 and TestStructSerialize.cs 266-269 compare for some:
\* of those with no empty comment, and with strings that no writer cuts.
Plain(r) == r.Desc # <<>> /\ \A s \in StringsOf(r) : Len(Given(s)) < MaxStr
SameText ==
    \A n \in DOMAIN txt : \A lib \in {"C", "Net"} :
        Plain(given[n]) => txt[n] = InfTxt(lib, given[n])
=============================================================================
