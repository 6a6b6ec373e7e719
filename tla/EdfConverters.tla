--------------------------- MODULE EdfConverters ----------------------------
(***************************************************************************)
(* The converters between the older research files and EDF: DatToEdf,      *)
(* DynToEdf, EchoToEdf write a header of variables and a chart; EdfToDat,  *)
(* EdfToDyn, EdfToEcho read them back by their names and ids.              *)
(*                                                                         *)
(* Between the two the file may be what the converter wrote, or that of    *)
(* another program or of a device that stopped: variables in other places, *)
(* twice, missing or unknown, a description that the parser refuses, more  *)
(* points than fit, the end torn off.  Blocks of a chart end anywhere that *)
(* the data writer lets them end.  How blocks are written and read is      *)
(* EdfFile; how values are put into them, EdfDataWriter.                   *)
(*                                                                         *)
(* A variable is one value here.  That of "Position" is the length of the  *)
(* texts of Cluster and Well; a point of a chart of two coordinates is a   *)
(* pair; a record of "OmegaData" is the sequence of its items.             *)
(***************************************************************************)
EXTENDS Integers, Sequences, SequencesExt

CONSTANTS
    Formats,    \* the converters that are run, of "dat", "dyn", "echo"
    Sources,    \* for each, the files to convert: vars, a function, and chart
    ArrayLen,   \* points of the array Data (1000 in DYN_FILE, 3000 in ECHO_FILE)
    MemCap,     \* what msDst holds (776 bytes)
    EditKinds   \* what the file may have become when it is read back

AllEdits == {"none", "move", "copy", "drop", "unknown", "refuse", "more", "tear"}

ASSUME FormatsAssumption == Formats \subseteq {"dat", "dyn", "echo"}
ASSUME EditsAssumption == EditKinds \subseteq AllEdits
\* bDst has room for one of each variable that takes some.
ASSUME SizesAssumption == ArrayLen \in Nat \ {0} /\ MemCap \in Nat /\ MemCap >= 5

VARIABLES
    fmt, src,   \* the converter and its source
    phase,      \* "write", "read", "done" or "crash"
    next,       \* the variable that XToEdf is at; then the point, behind the variables
    px,         \* p.x of DynToEdf, in steps of TravelStep
    file,       \* the blocks
    edit,       \* what became of them
    cursor,     \* blocks read
    t,          \* br.t: the current description, "NULL" if it was refused
    mem,        \* msDst.WPos
    dat,        \* the variables of the structure being filled
    data,       \* its points, or the records written to the .dat file
    part,       \* items between recordBegin and precord
    last,       \* record.x of EdfToDyn
    head,       \* dat, when it was written to the file; before that, Unwritten
    code        \* what the converter returned

srcVars == <<fmt, src>>
writeVars == <<next, px>>
readVars == <<cursor, t, mem, dat, data, part, last, head, code>>
vars == <<srcVars, phase, writeVars, file, edit, readVars>>

-----------------------------------------------------------------------------
(* The variables, in the order of the calls.                               *)

DatNames == <<"FileTypeId", "BeginDateTime", "Position", "PlaceId", "Depth",
              "DevInfo", "RegInfo", "ChartInfo">>

\* A mistaken DynNames: LoadStep is written behind the weights.
DynNamesLate == <<"FileTypeId", "BeginDateTime", "Position", "DevInfo", "RegInfo", "Oper",
                  "TravelStep", "TimeStep", "Rod", "Aperture", "MaxWeight", "MinWeight",
                  "TopWeight", "BotWeight", "LoadStep", "Travel", "BeginPos", "Period",
                  "Cycles", "Pressure", "BufPressure", "LinePressure", "PumpType", "Acc",
                  "Temp", "DynamogrammChartInfo">>

DynNames == <<"FileTypeId", "BeginDateTime", "Position", "DevInfo", "RegInfo", "Oper",
              "TravelStep", "LoadStep", "TimeStep", "Rod", "Aperture", "MaxWeight",
              "MinWeight", "TopWeight", "BotWeight", "Travel", "BeginPos", "Period",
              "Cycles", "Pressure", "BufPressure", "LinePressure", "PumpType", "Acc",
              "Temp", "DynamogrammChartInfo">>

EchoNames == <<"FileTypeId", "BeginDateTime", "Position", "DevInfo", "RegInfo", "Oper",
               "Discrete", "Reflections", "Level", "Pressure", "Table", "Speed",
               "BufPressure", "LinePressure", "Current", "IdleHour", "IdleMin", "Mode",
               "Acc", "Temp", "EchoChartInfo">>

NamesOf(f) == CASE f = "dat" -> DatNames [] f = "dyn" -> DynNames [] f = "echo" -> EchoNames
Chart == [dat |-> "OmegaData", dyn |-> "DynChart", echo |-> "EchoChart"]
\* dat.FileType, set before the loop.
FileType == [dat |-> 11, dyn |-> 6, echo |-> 5]
RecItems == 4
Weights == {"MaxWeight", "MinWeight", "TopWeight", "BotWeight"}
Positions == {"Travel", "BeginPos"}

\* What the structure of a source has in its fields (of FileType the 16 bits that are
\* written), and a record in its chart.
Uint16 == 0 .. 65535
TwoDigits == {16 * d + u : d, u \in 0 .. 9}
ChartInfos == {"ChartInfo", "DynamogrammChartInfo", "EchoChartInfo"}
Points(f) == CASE f = "dat" -> [1 .. RecItems -> Int]
               [] f = "dyn" -> (0 .. 63) \X (0 .. 1023)
               [] f = "echo" -> 0 .. 255
Fields(f, n) ==
    CASE n = "Position" -> 0 .. 6
      [] n \in ChartInfos -> {0}
      [] n = "Reflections" -> TwoDigits
      [] n = "FileTypeId" \/ (f = "dyn" /\ n \in Weights \cup Positions
                                \cup {"Period", "LoadStep", "TimeStep", "TravelStep"}) -> Uint16
      [] n = "Level" -> Uint16
      [] OTHER -> Int

MaxInt == 2147483647

\* What a variable is counted in.
StepOf(n) == CASE n \in Weights -> "LoadStep" [] n = "Period" -> "TimeStep" [] n \in Positions -> "TravelStep"

\* Products are ints, which do not overflow; reflections are two decimal digits; the
\* chart is not longer than the structure's array.
ASSUME SourcesAssumption ==
    \A f \in Formats : \A s \in Sources[f] :
        /\ DOMAIN s.vars = ToSet(NamesOf(f)) \ {"Discrete"}
        /\ \A n \in DOMAIN s.vars : s.vars[n] \in Fields(f, n)
        /\ f = "dyn" => \A n \in Weights \cup Positions \cup {"Period"} :
                            s.vars[n] * s.vars[StepOf(n)] <= MaxInt
        /\ s.chart \in Seq(Points(f))
        /\ f # "dat" => Len(s.chart) <= ArrayLen

(* Values with one decimal: v / 10.0f is a float of 24 bits.  The          *)
(* converters that round get v back; (uint16_t) of ten times the float     *)
(* does, too; of ten times the float taken as a double it may be one less. *)

Pow2 == <<1, 2, 4, 8, 16, 32, 64, 128, 256, 512, 1024, 2048, 4096, 8192, 16384, 32768,
          65536, 131072, 262144, 524288, 1048576, 2097152, 4194304, 8388608, 16777216,
          33554432, 67108864, 134217728>>

\* a / b as a whole number, a tie as the even one.
Nearest(a, b) ==
    LET q == a \div b
        twice == 2 * (a % b)
    IN IF twice > b \/ (twice = b /\ q % 2 = 1) THEN q + 1 ELSE q

\* m / d has 24 bits before its point.
Fits(m, d) == 8388608 * d <= m /\ m < 16777216 * d

\* n / d as a float, m * up / down, with m of 24 bits.
FloatOf(n, d) ==
    IF n = 0 THEN [m |-> 0, up |-> 1, down |-> 1]
    ELSE IF n < 16777216 * d
    THEN LET down == Pow2[CHOOSE k \in 1 .. 28 : Fits(n * Pow2[k], d)]
         IN [m |-> Nearest(n * down, d), up |-> 1, down |-> down]
    ELSE LET up == Pow2[CHOOSE k \in 1 .. 28 : Fits(n \div Pow2[k], d)]
         IN [m |-> Nearest(n, d * up), up |-> up, down |-> 1]

\* An int is made a float, which is still a whole number, before it is divided.
Whole(v) == LET f == FloatOf(v, 1) IN (f.m * f.up) \div f.down
Tenth(v) == FloatOf(Whole(v), 10)
TruncatedTenth(d, step) == (d.m * d.up * 10) \div (d.down * step)

\* ExtractReflections: two decimal digits, each in four bits.
ExtractReflections(v) ==
    LET r == 10 * ((v \div 16) % 16) + (v % 16) IN IF r > 99 THEN 99 ELSE r
\* PackReflections: five digits, of which the uint16_t keeps four.
PackReflections(v) ==
    (v % 10) + 16 * ((v \div 10) % 10) + 256 * ((v \div 100) % 10) + 4096 * ((v \div 1000) % 10)

\* The bit 0x4000 of Level says how long a discrete is.
DiscreteBit(level) == (level \div 16384) % 2

-----------------------------------------------------------------------------
(* XToEdf.  Results of EdfWriteInfRecData are ignored.                     *)

DynWritten(n) ==
    CASE n \in Weights \cup {"Period"} -> src.vars[n] * src.vars[StepOf(n)]
      [] n \in Positions -> Tenth(src.vars[n] * src.vars[StepOf(n)])
      [] OTHER -> src.vars[n]

EchoWritten(n) ==
    CASE n = "Discrete" -> DiscreteBit(src.vars["Level"])
      [] n = "Reflections" -> ExtractReflections(src.vars[n])
      [] n = "Level" -> src.vars[n] - 16384 * DiscreteBit(src.vars[n])
      [] n = "Mode" -> src.vars[n] % 256
      [] OTHER -> src.vars[n]

Written(n) ==
    CASE fmt = "dat" -> src.vars[n] [] fmt = "dyn" -> DynWritten(n) [] fmt = "echo" -> EchoWritten(n)

Info(n) == [k |-> "info", n |-> n]
Data(v) == [k |-> "data", v |-> v]

Init ==
    /\ fmt \in Formats /\ src \in Sources[fmt]
    /\ phase = "write" /\ next = 1 /\ px = 0 /\ edit = "none"
    /\ file = <<[k |-> "header"]>>
    /\ cursor = 0 /\ t = "NULL" /\ mem = 0
    /\ dat = [n \in ToSet(NamesOf(fmt)) |-> IF n = "FileTypeId" THEN FileType[fmt] ELSE 0]
    /\ data = <<>> /\ part = <<>> /\ last = 0
    /\ head = [written |-> FALSE] /\ code = 0

WriteVar ==
    LET names == NamesOf(fmt)
    IN /\ phase = "write" /\ next <= Len(names)
       /\ file' = file \o <<Info(names[next]), Data(Written(names[next]))>>
                       \o (IF next = Len(names) THEN <<Info(Chart[fmt])>> ELSE <<>>)
       /\ next' = next + 1
       /\ UNCHANGED <<srcVars, phase, px, edit, readVars>>

\* What a point of the chart, or a record, is written as.  A travel has six bits
\* with a sign, a weight ten; an amplitude above 127 is negative.
ExtractTravel(number) == IF number > 31 THEN number - 64 ELSE number
Travel(p) == ExtractTravel(p[1]) * src.vars["TravelStep"]
DynPoint(p) == <<[x |-> px + Travel(p), y |-> p[2] * src.vars["LoadStep"]]>>
EchoPoint(p) == <<IF p > 127 THEN -(p - 127) ELSE p>>

\* The units go into the current block up to one of them, and on into a new one.
PutUnits(us) ==
    LET old == Last(file)
    IN \E c \in 0 .. Len(us) :
         /\ old.k # "data" => c = 0
         /\ file' = LET f == IF c = 0 THEN file
                             ELSE [file EXCEPT ![Len(file)].v = @ \o SubSeq(us, 1, c)]
                    IN IF c = Len(us) THEN f ELSE Append(f, Data(SubSeq(us, c + 1, Len(us))))

WritePoint ==
    LET point == next - Len(NamesOf(fmt))
    IN /\ phase = "write" /\ point \in 1 .. Len(src.chart)
       /\ PutUnits(CASE fmt = "dat" -> src.chart[point]
                     [] fmt = "dyn" -> DynPoint(src.chart[point])
                     [] fmt = "echo" -> EchoPoint(src.chart[point]))
       /\ px' = IF fmt = "dyn" THEN px + Travel(src.chart[point]) ELSE px
       /\ next' = next + 1
       /\ UNCHANGED <<srcVars, phase, edit, readVars>>

-----------------------------------------------------------------------------
(* What the file may be when it is read.                                   *)

ChartAt(f) == CHOOSE k \in 1 .. Len(f) : f[k] = Info(Chart[fmt])
Pairs(f) == {k \in 2 .. ChartAt(f) - 1 : f[k].k = "info"}
InsertPair(f, k, i, d) == InsertAt(InsertAt(f, k, d), k, i)
RemovePair(f, k) == RemoveAt(RemoveAt(f, k), k)
Places(f) == {2, ChartAt(f), Len(f) + 1}
ExtraPoint == CASE fmt = "dat" -> <<91, 92, 93, 94>> [] fmt = "dyn" -> <<[x |-> 0, y |-> 0]>> [] fmt = "echo" -> <<0>>

EditedFiles(e) ==
    CASE e = "none" -> {file}
      [] e = "tear" -> {SubSeq(file, 1, k) : k \in 0 .. Len(file) - 1}
      [] e = "refuse" -> {[file EXCEPT ![k] = Info("refused")] : k \in Pairs(file)}
      [] e = "drop" -> {RemovePair(file, k) : k \in Pairs(file)}
      [] e = "copy" -> UNION {{InsertPair(file, p, file[k], file[k + 1]) : p \in Places(file)} : k \in Pairs(file)}
      [] e = "move" -> UNION {LET f == RemovePair(file, k)
                              IN {InsertPair(f, p, file[k], file[k + 1]) : p \in Places(f)} : k \in Pairs(file)}
      [] e = "unknown" -> {InsertPair(file, p, Info("unknown"), Data(0)) : p \in Places(file)}
      [] e = "more" -> {Append(file, Data(ExtraPoint \o ExtraPoint))}

\* The file is closed, and later opened by EdfToX.
Open ==
    /\ phase = "write" /\ next > Len(NamesOf(fmt)) + Len(src.chart)
    /\ phase' = "read"
    /\ edit' \in EditKinds /\ file' \in EditedFiles(edit')
    /\ UNCHANGED <<srcVars, writeVars, readVars>>

-----------------------------------------------------------------------------
(* EdfToX: one step for each block that EdfReadBlock returns.              *)

Reading(kind) == phase = "read" /\ cursor < Len(file) /\ file[cursor + 1].k = kind
Block == file[cursor + 1].v

SkipHeader ==
    /\ Reading("header")
    /\ cursor' = cursor + 1
    /\ UNCHANGED <<srcVars, phase, writeVars, file, edit, t, mem, dat, data, part, last, head, code>>

\* A mistaken ReadInfo: bDst is not taken up again from its start.
ReadInfoOnTop ==
    /\ Reading("info")
    /\ t' = IF file[cursor + 1].n = "refused" THEN "NULL" ELSE file[cursor + 1].n
    /\ mem' = mem
    /\ cursor' = cursor + 1
    /\ UNCHANGED <<srcVars, phase, writeVars, file, edit, dat, data, part, last, head, code>>

\* A description that StreamWriteBinToCBin refuses is ignored, but br.t stays NULL.
\* EdfToDat alone leaves msDst.WPos (and skip, which it never negates) as they were.
ReadInfo ==
    /\ Reading("info")
    /\ t' = IF file[cursor + 1].n = "refused" THEN "NULL" ELSE file[cursor + 1].n
    /\ mem' = IF fmt = "dat" THEN mem ELSE 0
    /\ cursor' = cursor + 1
    /\ UNCHANGED <<srcVars, phase, writeVars, file, edit, dat, data, part, last, head, code>>

\* What EdfReadBin takes from bDst: pointers and strings, or a DeviceInfo_t.
MemNeed(n) == CASE n = "Position" -> 3 [] n \in {"DevInfo", "RegInfo"} -> 1 [] OTHER -> 0

\* Six bytes are copied from the text and what lies behind it: below five
\* characters the rest of the field is not zero, which the sign stands for.
PositionRead(len) == IF len < 5 THEN -len ELSE len

DatRead(n, v) == IF n = "ChartInfo" THEN dat[n] ELSE v

\* The three pressures are looked for under the name "BeginPos" once more.
\* A negative Temp is cast to uint16_t as a float (ConverterDyn.c:306; the step of a
\* travel alike, 316): undefined in C, and taken to keep the low bits, as x86 does.
DynRead(n, v) ==
    CASE n \in Weights \cup {"Period"} -> (v \div dat[StepOf(n)]) % 65536
      [] n \in Positions -> IF dat[StepOf(n)] = 0 THEN 0
                            ELSE TruncatedTenth(v, dat[StepOf(n)]) % 65536
      [] n \in {"Pressure", "BufPressure", "LinePressure", "DynamogrammChartInfo"} -> dat[n]
      [] OTHER -> v

\* A mistaken EchoRead: Level is taken as it is, without the bit of its discrete.
EchoReadNoBit(n, v) ==
    CASE n = "Reflections" -> PackReflections(v)
      [] n \in {"Mode", "EchoChartInfo"} -> dat[n]
      [] OTHER -> v

EchoRead(n, v) ==
    CASE n = "Reflections" -> PackReflections(v)
      [] n = "Level" -> v + 16384 * dat["Discrete"]
      [] n \in {"Mode", "EchoChartInfo"} -> dat[n]
      [] OTHER -> v

Read(n, v) ==
    CASE n = "Position" -> PositionRead(v)
      [] n # "Position" /\ fmt = "dat" -> DatRead(n, v)
      [] n # "Position" /\ fmt = "dyn" -> DynRead(n, v)
      [] n # "Position" /\ fmt = "echo" -> EchoRead(n, v)

\* A NULL pointer is followed, or an integer divided by zero: br.t of a refused
\* description; Cluster or Well of a position without them, which StreamReadString
\* sets to NULL; a step that has not been read.
Crashes ==
    \/ t = "NULL"
    \/ t = "Position" /\ Block = 0
    \/ fmt = "dyn" /\ t \in Weights \cup {"Period"} /\ dat[StepOf(t)] = 0

OtherType == t = "FileTypeId" /\ Block # FileType[fmt]
NoRoom == mem + MemNeed(t) > MemCap

Crash ==
    /\ Reading("data") /\ Crashes /\ ~NoRoom
    /\ phase' = "crash"
    /\ UNCHANGED <<srcVars, writeVars, file, edit, readVars>>

\* Another type of file ends the conversion with 0, a full bDst with 1.
\* Neither closes the files or writes anything.
Leave ==
    /\ Reading("data") /\ (OtherType \/ NoRoom)
    /\ phase' = "done" /\ code' = IF OtherType THEN 0 ELSE 1
    /\ UNCHANGED <<srcVars, writeVars, file, edit, cursor, t, mem, dat, data, part, last, head>>

ReadVar ==
    /\ Reading("data") /\ t # Chart[fmt] /\ ~Crashes /\ ~OtherType /\ ~NoRoom
    /\ mem' = mem + MemNeed(t)
    /\ dat' = IF t \in DOMAIN dat THEN [dat EXCEPT ![t] = Read(t, Block)] ELSE dat
    /\ cursor' = cursor + 1
    /\ UNCHANGED <<srcVars, phase, writeVars, file, edit, t, data, part, last, head, code>>

\* A mistaken Room: the array's last place is not looked at.
Unbounded == Len(Block)
\* The loop stores while recN <= FIELD_ITEMS_COUNT: one point more than the array.
Room == LET left == ArrayLen + 1 - Len(data) IN IF Len(Block) < left THEN Len(Block) ELSE left

\* Steps of travel since the point before, six bits; the mask of the weight is the
\* same, not that of ten bits.
DynStored(dx, y) ==
    << IF dat["TravelStep"] = 0 THEN 0 ELSE (dx \div dat["TravelStep"]) % 64,
       IF dat["LoadStep"] = 0 THEN 0 ELSE (y \div dat["LoadStep"]) % 64 >>
EchoStored(v) == (IF v < 0 THEN (-v) + 127 ELSE v) % 256

ReadPoints ==
    /\ Reading("data") /\ fmt # "dat" /\ t = Chart[fmt]
    /\ LET x(k) == IF k = 0 THEN last ELSE Block[k].x
           stored == [k \in 1 .. Room |->
                        IF fmt = "dyn" THEN DynStored(x(k) - x(k - 1), Block[k].y) ELSE EchoStored(Block[k])]
       IN /\ data' = data \o stored
          /\ last' = IF fmt = "dyn" THEN x(Room) ELSE last
    /\ cursor' = cursor + 1
    /\ UNCHANGED <<srcVars, phase, writeVars, file, edit, t, mem, dat, part, head, code>>

\* A mistaken Pending: precord starts anew in each block.
PendingAnew == Block
\* The items that precord has, and behind them those of the block.
Pending == part \o Block

\* The first block of records writes the header, whatever is still to come.
ReadRecords ==
    /\ Reading("data") /\ fmt = "dat" /\ t = Chart[fmt]
    /\ head' = IF head.written THEN head ELSE [written |-> TRUE, vars |-> dat]
    /\ LET full == Len(Pending) \div RecItems
       IN /\ data' = data \o [k \in 1 .. full |-> SubSeq(Pending, RecItems * (k - 1) + 1, RecItems * k)]
          /\ part' = SubSeq(Pending, RecItems * full + 1, Len(Pending))
    /\ cursor' = cursor + 1
    /\ UNCHANGED <<srcVars, phase, writeVars, file, edit, t, mem, dat, last, code>>

\* A mistaken Finish: the end inside a torn block is not noticed.
FinishWhole ==
    /\ phase = "read" /\ cursor = Len(file) /\ edit # "tear"
    /\ phase' = "done"
    /\ head' = IF fmt = "dat" THEN head ELSE [written |-> TRUE, vars |-> dat]
    /\ UNCHANGED <<srcVars, writeVars, file, edit, cursor, t, mem, dat, data, part, last, code>>

\* EdfReadBlock has returned a code, at the end of the file or in a torn block.
Finish ==
    /\ phase = "read" /\ cursor = Len(file)
    /\ phase' = "done"
    /\ head' = IF fmt = "dat" THEN head ELSE [written |-> TRUE, vars |-> dat]
    /\ UNCHANGED <<srcVars, writeVars, file, edit, cursor, t, mem, dat, data, part, last, code>>

\* A mistaken OutputFails: the result of fwrite is not looked at.
OutputFailsUnnoticed ==
    /\ phase = "read"
    /\ IF fmt = "dat" THEN Reading("data") /\ t = Chart[fmt] ELSE cursor = Len(file)
    /\ phase' = "done" /\ code' = 0
    /\ UNCHANGED <<srcVars, writeVars, file, edit, cursor, t, mem, dat, data, part, last, head>>

\* fwrite of the header, of a record or of the whole structure is refused.
OutputFails ==
    /\ phase = "read"
    /\ IF fmt = "dat" THEN Reading("data") /\ t = Chart[fmt] ELSE cursor = Len(file)
    /\ phase' = "done" /\ code' = -1
    /\ UNCHANGED <<srcVars, writeVars, file, edit, cursor, t, mem, dat, data, part, last, head>>

EdfToX == SkipHeader \/ ReadInfo \/ Crash \/ Leave \/ ReadVar \/ ReadPoints
          \/ ReadRecords \/ Finish \/ OutputFails

Next == WriteVar \/ WritePoint \/ Open \/ EdfToX

Spec == Init /\ [][Next]_vars /\ WF_vars(EdfToX)

-----------------------------------------------------------------------------
(* Properties                                                              *)

TypeOK ==
    /\ phase \in {"write", "read", "done", "crash"}
    /\ next \in Nat \ {0} /\ px \in Int
    /\ edit \in AllEdits
    /\ cursor \in 0 .. Len(file)
    /\ mem \in 0 .. MemCap /\ (fmt # "dat" => mem <= 3)
    /\ Len(part) < RecItems
    /\ head.written \in BOOLEAN
    /\ code \in {-1, 0, 1}

Finished == phase = "done" /\ code = 0 /\ head.written

\* Whether a variable comes behind the records of a .dat file's chart.
Late(n) == \E k \in 1 .. Len(file) - 1 : file[k] = Info(n) /\ k > ChartAt(file)
           /\ ~\E j \in 1 .. ChartAt(file) - 1 : file[j] = Info(n)

\* The values that a variable may have once it has gone through EDF.
Kept(n) ==
    CASE n = "Position" -> {src.vars[n], -src.vars[n]}
      [] fmt = "dyn" /\ n \in Positions ->
            IF src.vars["TravelStep"] = 0 THEN {0} ELSE {src.vars[n], src.vars[n] - 1}
      [] fmt = "dyn" /\ n \in {"Pressure", "BufPressure", "LinePressure"} -> {0}
      [] fmt = "echo" /\ n = "Mode" -> {0}
      [] OTHER -> {src.vars[n]}

\* A conversion that returns 0 has restored each variable of the research,
\* also from a file with others among them, or with some of them twice; the
\* losses are the pressures of a dynamogram, the mode of an echogram, one in a
\* travel and all of a travel whose step is 0, the zeros behind a short text, and
\* in a .dat file what came behind the first record.
RestoresVariables ==
    (Finished /\ (edit \in {"none", "unknown", "copy", "more"} \/ (fmt = "dat" /\ edit = "move"))) =>
        \A n \in DOMAIN src.vars : head.vars[n] \in (IF Late(n) THEN {0, FileType[fmt]} ELSE Kept(n))

\* A point or record as it comes back.
Back(p) ==
    IF fmt = "dyn" THEN <<IF src.vars["TravelStep"] = 0 THEN 0 ELSE p[1], p[2] % 64>> ELSE p

\* However blocks cut a chart, its points come back in their order, and none is
\* left out or shifted; all of them do unless the file was torn.
ChartInOrder ==
    (edit \notin {"drop", "move"} \/ fmt # "dyn") =>
        LET chart == [k \in DOMAIN src.chart |-> Back(src.chart[k])]
            n == IF Len(data) < Len(chart) THEN Len(data) ELSE Len(chart)
        IN /\ SubSeq(data, 1, n) = SubSeq(chart, 1, n)
           /\ Finished /\ edit # "tear" => n = Len(chart)

\* A chart longer than the array overwrites the crc behind it, which is computed
\* afterwards, and nothing else.
NothingBehindCrc == fmt # "dat" => Len(data) <= ArrayLen + 1

\* A block with the value of n has been read.
Seen(n) == \E k \in 2 .. cursor : file[k - 1] = Info(n) /\ file[k].k = "data"

\* A converter crashes only at a variable whose description was refused, at a
\* position without a text, or at a load or period whose step has not come or is 0.
CrashesOnlyFor ==
    phase = "crash" =>
        \/ edit = "refuse" /\ file[cursor] = Info("refused")
        \/ src.vars["Position"] = 0
        \/ fmt = "dyn" /\ \E s \in {"LoadStep", "TimeStep"} :
                src.vars[s] = 0 \/ (edit \in {"drop", "move", "copy"} /\ ~Seen(s))

\* A conversion that returns 0 has written a file, unless the research is of
\* another type or, for .dat, has no record; one copy of each variable never
\* exhausts bDst, and for .dyn and .echo nothing does.
CodeTells ==
    phase = "done" =>
        /\ code = 0 /\ ~head.written =>
              \/ src.vars["FileTypeId"] # FileType[fmt]
              \/ fmt = "dat" /\ ~Seen(Chart[fmt])
        /\ code = 1 => fmt = "dat" /\ edit = "copy"

\* The loop of a converter ends, whatever the file.
ConversionEnds == (phase = "read") ~> (phase \in {"done", "crash"})

\* Test.c 402, 409 and 416: a research that has gone through EDF is the same file.
RoundTrip ==
    (phase \in {"done", "crash"} /\ edit = "none" /\ code # -1
        /\ src.vars["FileTypeId"] = FileType[fmt]) =>
            /\ Finished
            /\ \A n \in DOMAIN src.vars : head.vars[n] = src.vars[n]
            /\ data = src.chart
=============================================================================
