----------------------------- MODULE WriterProofs -----------------------------
(***************************************************************************)
(* Proofs about LogDirectory for any lines, roll size, faults and number   *)
(* of runs.                                                                *)
(***************************************************************************)
EXTENDS LogDirectory, InductionProofs

(* A piece of a line is at least a byte and at most the line. *)
Pieces == {p \in [line : Lines, got : Nat] : p.got \in 1..Width[p.line]}

(* What DirTypeOK says of the disk, which is a function from numbers to     *)
(* sequences.                                                               *)
DiskTyped ==
  /\ disk \in [DOMAIN disk -> Seq(Pieces)]
  /\ DOMAIN disk \subseteq Nat \ {0}

StateTyped ==
  /\ number \in Nat \ {0}
  /\ stream \in {"open", "bad", "closed", "gone"}
  /\ stuck \in {<<>>} \cup {<<l>> : l \in Lines}
  /\ bytes \in 0..RollSize
  /\ opened \in 0..number
  /\ terminal \in Seq(Lines)
  /\ handed \in Seq(Lines)
  /\ run \in 1..MaxRuns
  /\ IsOpen => number \in DOMAIN disk

Typed == DiskTyped /\ StateTyped

LEMMA TypedSuffices == Typed => DirTypeOK
<1>. SUFFICES ASSUME Typed PROVE DirTypeOK
  OBVIOUS
<1>1. ASSUME NEW n \in DOMAIN disk, NEW i \in DOMAIN disk[n]
      PROVE  disk[n][i].line \in Lines /\ disk[n][i].got \in 1..Width[disk[n][i].line]
  <2>1. disk[n] \in Seq(Pieces)
    BY DEF Typed, DiskTyped
  <2>2. disk[n][i] \in Pieces
    BY <2>1
  <2>. QED
    BY <2>2 DEF Pieces
<1>. QED
  BY <1>1 DEF Typed, DiskTyped, StateTyped, DirTypeOK, WriterTypeOK

(* Bytes added to the current file. *)
LEMMA ExtendedTyped ==
  ASSUME DiskTyped, NEW l \in Lines, NEW n \in 0..Width[l]
  PROVE  /\ DOMAIN Extended(l, n) = DOMAIN disk
         /\ Extended(l, n) \in [DOMAIN disk -> Seq(Pieces)]
         /\ \A m \in (DOMAIN disk) \ {number} : Extended(l, n)[m] = disk[m]
         /\ number \in DOMAIN disk => IsPrefix(disk[number], Extended(l, n)[number])
<1>1. n # 0 => Piece(l, n) \in Pieces
  BY WriterAssumption DEF Piece, Pieces
<1>2. CASE n = 0
  <2>1. Extended(l, n) = disk
    BY <1>2 DEF Extended
  <2>2. \A s \in Seq(Pieces) : IsPrefix(s, s)
    BY DEF IsPrefix
  <2>. QED
    BY <2>1, <2>2 DEF DiskTyped
<1>3. CASE n # 0
  <2>1. Extended(l, n) = [disk EXCEPT ![number] = Append(disk[number], Piece(l, n))]
    BY <1>3 DEF Extended
  <2>2. \A s \in Seq(Pieces) :
          Append(s, Piece(l, n)) \in Seq(Pieces) /\ IsPrefix(s, Append(s, Piece(l, n)))
    BY <1>1, <1>3 DEF IsPrefix
  <2>. QED
    BY <2>1, <2>2 DEF DiskTyped
<1>. QED
  BY <1>2, <1>3

(* A file opened, or not. *)
LEMMA OpenedTyped ==
  ASSUME NEW files, NEW n \in Nat \ {0}, files \in [DOMAIN files -> Seq(Pieces)],
         DOMAIN files \subseteq Nat \ {0}, Opened(files, n)
  PROVE  /\ DiskTyped'
         /\ stream' \in {"open", "closed"}
         /\ stream' = "open" => n \in DOMAIN disk'
         /\ opened' \in 0..n
         /\ DOMAIN files \subseteq DOMAIN disk'
         /\ \A m \in (DOMAIN files) \ {n} : disk'[m] = files[m]
<1>1. <<>> \in Seq(Pieces)
  OBVIOUS
<1>2. CASE /\ stream' = "open"
           /\ opened' = n
           /\ disk' = [m \in DOMAIN files \cup {n} |-> IF m = n THEN <<>> ELSE files[m]]
  <2>1. DOMAIN disk' = DOMAIN files \cup {n}
    BY <1>2
  <2>2. \A m \in DOMAIN disk' : disk'[m] = IF m = n THEN <<>> ELSE files[m]
    BY <1>2
  <2>3. \A m \in DOMAIN disk' : disk'[m] \in Seq(Pieces)
    BY <1>1, <2>1, <2>2
  <2>4. disk' \in [DOMAIN disk' -> Seq(Pieces)]
    BY <1>2, <2>3
  <2>. QED
    BY <1>2, <2>1, <2>2, <2>4 DEF DiskTyped
<1>3. CASE stream' = "closed" /\ disk' = files /\ opened' = n - 1
  BY <1>3 DEF DiskTyped
<1>. QED
  BY <1>2, <1>3 DEF Opened

(* The steps of the writer and of its runs. *)
LEMMA TypedInit == DirInit => Typed
<1>. SUFFICES ASSUME DirInit PROVE Typed
  OBVIOUS
<1>1. disk = [n \in {1} |-> <<>>] \/ disk = <<>>
  BY DEF DirInit, Init
<1>2. DiskTyped
  <2>1. CASE disk = [n \in {1} |-> <<>>]
    <3>1. <<>> \in Seq(Pieces)
      OBVIOUS
    <3>. QED
      BY <2>1, <3>1 DEF DiskTyped
  <2>2. CASE disk = <<>>
    BY <2>2 DEF DiskTyped
  <2>. QED
    BY <1>1, <2>1, <2>2
<1>3. StateTyped
  BY WriterAssumption, DirectoryAssumption DEF DirInit, Init, StateTyped, IsOpen
<1>. QED
  BY <1>2, <1>3 DEF Typed

(* What a step does to the disk. *)
Kept ==
  /\ \A n \in (DOMAIN disk) \ {number, number'} : disk'[n] = disk[n]
  /\ stream # "gone" /\ number \in DOMAIN disk =>
       IsPrefix(disk[number], disk'[number])

LEMMA SameIsPrefix == ASSUME DiskTyped, number \in DOMAIN disk
                      PROVE  IsPrefix(disk[number], disk[number])
<1>1. disk[number] \in Seq(Pieces)
  BY DEF DiskTyped
<1>. QED
  BY <1>1 DEF IsPrefix

LEMMA DiskUnchanged == ASSUME DiskTyped, UNCHANGED disk PROVE DiskTyped' /\ Kept
  BY SameIsPrefix DEF DiskTyped, Kept

-------------------------------------------------------------------------------
(* Bytes: the function it defines exists, ... *)
Summed(f, file, n) ==
  f = [i \in 0..n |-> IF i = 0 THEN 0 ELSE f[i - 1] + file[i].got]

LEMMA SummedAt ==
  ASSUME NEW f, NEW file, NEW n \in Nat, Summed(f, file, n), NEW i \in 0..n
  PROVE  f[i] = IF i = 0 THEN 0 ELSE f[i - 1] + file[i].got
  BY DEF Summed

LEMMA SummedExists == ASSUME NEW file, NEW n \in Nat PROVE \E f : Summed(f, file, n)
<1>. DEFINE S == {k \in Nat : \E f : Summed(f, file, k)}
<1>1. 0 \in S
  <2>. DEFINE f == [i \in 0..0 |-> 0]
  <2>1. Summed(f, file, 0)
    BY DEF Summed
  <2>. QED
    BY <2>1
<1>2. ASSUME NEW k \in Nat, k \in S PROVE k + 1 \in S
  <2>1. PICK f : Summed(f, file, k)
    BY <1>2
  <2>. DEFINE g == [i \in 0..(k + 1) |-> IF i = k + 1 THEN f[k] + file[k + 1].got ELSE f[i]]
  <2>2. \A i \in 0..(k + 1) : g[i] = IF i = 0 THEN 0 ELSE g[i - 1] + file[i].got
    <3>. SUFFICES ASSUME NEW i \in 0..(k + 1)
                  PROVE  g[i] = IF i = 0 THEN 0 ELSE g[i - 1] + file[i].got
      OBVIOUS
    <3>1. i # 0 => g[i - 1] = f[i - 1]
      OBVIOUS
    <3>2. CASE i = k + 1
      BY <3>1, <3>2
    <3>3. CASE i # k + 1
      <4>1. i \in 0..k /\ g[i] = f[i]
        BY <3>3
      <4>2. f[i] = IF i = 0 THEN 0 ELSE f[i - 1] + file[i].got
        BY <2>1, <4>1, SummedAt
      <4>. QED
        BY <3>1, <4>1, <4>2
    <3>. QED
      BY <3>2, <3>3
  <2>3. g = [i \in 0..(k + 1) |-> g[i]]
    OBVIOUS
  <2>. HIDE DEF g
  <2>4. Summed(g, file, k + 1)
    BY <2>2, <2>3 DEF Summed
  <2>. QED
    BY <2>4
<1>. HIDE DEF S
<1>3. n \in S
  BY <1>1, <1>2, SetInduction
<1>. QED
  BY <1>3 DEF S

LEMMA BytesIs ==
  ASSUME NEW file, Len(file) \in Nat
  PROVE  \E f : Summed(f, file, Len(file)) /\ Bytes(file) = f[Len(file)]
<1>. DEFINE n == Len(file)
            f == CHOOSE g : Summed(g, file, n)
<1>1. Summed(f, file, n)
  BY SummedExists
<1>2. Bytes(file) = f[n]
  BY DEF Bytes, Summed
<1>. QED
  BY <1>1, <1>2

(* ... it is the same for files that begin in the same way, ... *)
LEMMA SummedUnique ==
  ASSUME NEW f, NEW g, NEW file, NEW other, NEW n \in Nat, NEW m \in Nat, n <= m,
         Summed(f, file, n), Summed(g, other, m),
         \A i \in 1..n : file[i] = other[i]
  PROVE  f[n] = g[n]
<1>. DEFINE S == {k \in Nat : k \in 0..n => f[k] = g[k]}
<1>1. 0 \in S
  <2>1. f[0] = 0 /\ g[0] = 0
    BY SummedAt
  <2>. QED
    BY <2>1
<1>2. ASSUME NEW k \in Nat, k \in S PROVE k + 1 \in S
  <2>. SUFFICES ASSUME k + 1 \in 0..n PROVE f[k + 1] = g[k + 1]
    OBVIOUS
  <2>1. f[k + 1] = IF k + 1 = 0 THEN 0 ELSE f[(k + 1) - 1] + file[k + 1].got
    BY SummedAt
  <2>2. g[k + 1] = IF k + 1 = 0 THEN 0 ELSE g[(k + 1) - 1] + other[k + 1].got
    <3>1. k + 1 \in 0..m
      OBVIOUS
    <3>. QED
      BY <3>1, SummedAt
  <2>3. f[k] = g[k] /\ (k + 1) - 1 = k /\ k + 1 # 0 /\ k + 1 \in 1..n
    BY <1>2
  <2>. QED
    BY <2>1, <2>2, <2>3
<1>. HIDE DEF S
<1>3. n \in S
  BY <1>1, <1>2, SetInduction
<1>. QED
  BY <1>3 DEF S

(* ... and so a file has no bytes at first and then those of its pieces. *)
LEMMA BytesEmpty == Bytes(<<>>) = 0
<1>1. Len(<<>>) = 0 /\ Len(<<>>) \in Nat
  OBVIOUS
<1>2. PICK f : Summed(f, <<>>, 0) /\ Bytes(<<>>) = f[0]
  BY <1>1, BytesIs
<1>3. f[0] = 0
  BY <1>2, SummedAt
<1>. QED
  BY <1>2, <1>3

LEMMA BytesAppend ==
  ASSUME NEW file \in Seq(Pieces), NEW p \in Pieces
  PROVE  Bytes(Append(file, p)) = Bytes(file) + p.got
<1>. DEFINE n == Len(file)
            t == Append(file, p)
<1>1. /\ n \in Nat /\ n + 1 \in Nat /\ n <= n + 1 /\ Len(t) = n + 1 /\ t[n + 1] = p
      /\ \A i \in 1..n : file[i] = t[i]
  OBVIOUS
<1>. HIDE DEF n, t
<1>2. PICK f : Summed(f, file, n) /\ Bytes(file) = f[n]
  BY <1>1, BytesIs DEF n
<1>3. PICK g : Summed(g, t, n + 1) /\ Bytes(t) = g[n + 1]
  BY <1>1, BytesIs
<1>4. g[n + 1] = IF n + 1 = 0 THEN 0 ELSE g[(n + 1) - 1] + t[n + 1].got
  <2>1. n + 1 \in 0..(n + 1)
    BY <1>1
  <2>. QED
    BY <1>1, <1>3, <2>1, SummedAt
<1>5. f[n] = g[n]
  BY <1>1, <1>2, <1>3, SummedUnique
<1>6. (n + 1) - 1 = n /\ n + 1 # 0
  BY <1>1
<1>. QED
  BY <1>1, <1>2, <1>3, <1>4, <1>5, <1>6 DEF t

LEMMA BytesTyped == \A file \in Seq(Pieces) : Bytes(file) \in Nat
<1>. DEFINE T == {k \in Nat : \A file \in Seq(Pieces) : Len(file) = k => Bytes(file) \in Nat}
<1>1. 0 \in T
  <2>1. \A file \in Seq(Pieces) : Len(file) = 0 => file = <<>>
    OBVIOUS
  <2>. QED
    BY <2>1, BytesEmpty
<1>2. ASSUME NEW k \in Nat, k \in T PROVE k + 1 \in T
  <2>. SUFFICES ASSUME NEW file \in Seq(Pieces), Len(file) = k + 1 PROVE Bytes(file) \in Nat
    OBVIOUS
  <2>. DEFINE front == Front(file)
              p == file[Len(file)]
  <2>1. /\ front \in Seq(Pieces) /\ Len(front) = Len(file) - 1
        /\ p \in Pieces /\ file = Append(front, p)
    <3>1. file # <<>>
      OBVIOUS
    <3>. QED
      BY <3>1, SeqIsAppend
  <2>. HIDE DEF front, p
  <2>2. Bytes(front) \in Nat
    BY <1>2, <2>1
  <2>3. Bytes(file) = Bytes(front) + p.got
    BY <2>1, BytesAppend
  <2>4. p.got \in Nat
    BY <2>1 DEF Pieces
  <2>. QED
    BY <2>2, <2>3, <2>4
<1>. HIDE DEF T
<1>3. \A k \in Nat : k \in T
  BY <1>1, <1>2, SetInduction
<1>. QED
  <2>. SUFFICES ASSUME NEW file \in Seq(Pieces) PROVE Bytes(file) \in Nat
    OBVIOUS
  <2>1. Len(file) \in T
    BY <1>3
  <2>. QED
    BY <2>1 DEF T

-------------------------------------------------------------------------------
(* What becomes of the line in the three cases of write(): tellp() has gone *)
(* on by its width, or has failed and counts for nothing, so that a failed   *)
(* stream is never rolled over.                                              *)
GoodWrite(l) ==
  /\ stream = "open"
  /\ IF Due(bytes + Width[l])
       THEN RollFile(Extended(l, Width[l]))
       ELSE /\ disk' = Extended(l, Width[l])
            /\ bytes' = bytes + Width[l]
            /\ UNCHANGED <<number, stream, stuck, opened>>

BadWrite(l) ==
  /\ stream = "open"
  /\ \E n \in 0..(Width[l] - 1) : disk' = Extended(l, n)
  /\ stream' = "bad"
  /\ stuck' = <<l>>
  /\ UNCHANGED <<number, bytes, opened>>

LEMMA Writes ==
  ASSUME Typed, NEW l \in Lines, WriteGood(l) \/ WriteBad(l) \/ WriteIgnored
  PROVE  GoodWrite(l) \/ BadWrite(l) \/ (stream = "bad" /\ UNCHANGED fileVars)
<1>1. bytes \in 0..RollSize /\ RollSize \in Nat /\ Width[l] \in Nat \ {0}
  BY WriterAssumption DEF Typed, StateTyped
<1>2. ASSUME NEW w \in Int, w <= 0, NEW files, NEW s, NEW held, After(files, s, held, w)
      PROVE  disk' = files /\ stream' = s /\ stuck' = held /\ UNCHANGED <<number, bytes, opened>>
  <2>1. Counted(w) = bytes /\ ~Due(bytes)
    BY <1>1, <1>2 DEF Counted, Due
  <2>. QED
    BY <1>2, <2>1 DEF After
<1>3. CASE WriteGood(l)
  <2>1. Counted(Width[l]) = bytes + Width[l]
    BY <1>1 DEF Counted
  <2>. QED
    BY <1>3, <2>1 DEF WriteGood, After, Flushed, GoodWrite
<1>4. CASE WriteBad(l)
  <2>1. PICK n \in 0..(Width[l] - 1) :
          After(Extended(l, n), AfterFailure, <<l>>, NoPosition - Position)
    BY <1>4 DEF WriteBad
  <2>2. disk[number] \in Seq(Pieces)
    BY <1>4 DEF WriteBad, IsOpen, Typed, StateTyped, DiskTyped
  <2>3. Position \in Nat
    BY <2>2, BytesTyped DEF Position
  <2>4. NoPosition - Position \in Int /\ NoPosition - Position <= 0
    BY <2>3 DEF NoPosition
  <2>5. /\ disk' = Extended(l, n) /\ stream' = AfterFailure /\ stuck' = <<l>>
        /\ UNCHANGED <<number, bytes, opened>>
    BY <1>2, <2>1, <2>4
  <2>. QED
    BY <1>4, <2>5 DEF WriteBad, AfterFailure, BadWrite
<1>5. CASE WriteIgnored
  <2>1. NoPosition - NoPosition \in Int /\ NoPosition - NoPosition <= 0
    BY DEF NoPosition
  <2>2. /\ disk' = disk /\ stream' = "bad" /\ stuck' = stuck
        /\ UNCHANGED <<number, bytes, opened>>
    BY <1>2, <1>5, <2>1 DEF WriteIgnored
  <2>. QED
    BY <1>5, <2>2 DEF WriteIgnored, fileVars
<1>. QED
  BY <1>3, <1>4, <1>5

LEMMA WriteGoodStep ==
  ASSUME Typed, NEW l \in Lines, GoodWrite(l)
  PROVE  /\ DiskTyped' /\ Kept
         /\ number' \in Nat \ {0} /\ bytes' \in 0..RollSize /\ opened' \in 0..number'
         /\ stream' \in {"open", "closed"} /\ stuck' = stuck
         /\ stream' = "open" => number' \in DOMAIN disk'
<1>. DEFINE e == Extended(l, Width[l])
<1>. DiskTyped /\ StateTyped
  BY DEF Typed
<1>0. Width[l] \in Nat \ {0} /\ Width[l] \in 0..Width[l]
  BY WriterAssumption
<1>1. /\ DOMAIN e = DOMAIN disk
      /\ e \in [DOMAIN disk -> Seq(Pieces)]
      /\ \A m \in (DOMAIN disk) \ {number} : e[m] = disk[m]
      /\ number \in DOMAIN disk => IsPrefix(disk[number], e[number])
  BY <1>0, ExtendedTyped
<1>2. CASE Due(bytes + Width[l])
  <2>1. number' = number + 1 /\ bytes' = 0 /\ stuck' = stuck /\ Opened(e, number + 1)
    BY <1>2 DEF GoodWrite, RollFile, NextNumber, FreshBytes
  <2>2. number + 1 \in Nat \ {0} /\ DOMAIN e \subseteq Nat \ {0}
    BY <1>1 DEF StateTyped, DiskTyped
  <2>. HIDE DEF e
  <2>3. /\ DiskTyped'
        /\ stream' \in {"open", "closed"}
        /\ stream' = "open" => number + 1 \in DOMAIN disk'
        /\ opened' \in 0..(number + 1)
        /\ \A m \in (DOMAIN e) \ {number + 1} : disk'[m] = e[m]
    BY <1>1, <2>1, <2>2, OpenedTyped
  <2>4. number # number + 1
    BY DEF StateTyped
  <2>5. Kept
    BY <1>1, <2>1, <2>3, <2>4 DEF Kept
  <2>. QED
    BY <2>1, <2>2, <2>3, <2>5, WriterAssumption
<1>3. CASE ~Due(bytes + Width[l])
  <2>1. /\ disk' = e /\ bytes' = bytes + Width[l]
        /\ UNCHANGED <<number, stream, stuck, opened>> /\ stream = "open"
    BY <1>3 DEF GoodWrite
  <2>2. bytes' \in 0..RollSize
    BY <1>0, <1>3, <2>1, WriterAssumption DEF Due, StateTyped
  <2>3. DiskTyped' /\ Kept /\ number' \in DOMAIN disk'
    BY <1>1, <2>1 DEF DiskTyped, Kept, StateTyped, IsOpen
  <2>. QED
    BY <2>1, <2>2, <2>3 DEF StateTyped
<1>. QED
  BY <1>2, <1>3

LEMMA WriteBadStep ==
  ASSUME Typed, NEW l \in Lines, NEW n \in 0..Width[l], disk' = Extended(l, n),
         UNCHANGED number
  PROVE  DiskTyped' /\ Kept /\ DOMAIN disk' = DOMAIN disk
<1>. DiskTyped
  BY DEF Typed
<1>. HIDE DEF Kept
<1>1. /\ DOMAIN disk' = DOMAIN disk
      /\ disk' \in [DOMAIN disk -> Seq(Pieces)]
      /\ \A m \in (DOMAIN disk) \ {number} : disk'[m] = disk[m]
      /\ number \in DOMAIN disk => IsPrefix(disk[number], disk'[number])
  BY ExtendedTyped
<1>. QED
  BY <1>1 DEF DiskTyped, Kept

LEMMA WriteStep ==
  ASSUME Typed, NEW l \in Lines, Log(l)
  PROVE  Typed' /\ Kept
<1>. DiskTyped /\ StateTyped
  BY DEF Typed
<1>1. handed' \in Seq(Lines) /\ terminal' \in Seq(Lines) /\ run' \in 1..MaxRuns
  <2>1. Append(handed, l) \in Seq(Lines) /\ Displayed(l) \in Seq(Lines)
    BY DEF StateTyped, Displayed
  <2>. QED
    BY <2>1 DEF Log, Write, StateTyped
<1>2. CASE GoodWrite(l)
  BY <1>1, <1>2, WriteGoodStep DEF Typed, StateTyped, IsOpen
<1>3. CASE BadWrite(l)
  <2>1. PICK n \in 0..(Width[l] - 1) : disk' = Extended(l, n)
    BY <1>3 DEF BadWrite
  <2>2. n \in 0..Width[l]
    BY WriterAssumption
  <2>3. DiskTyped' /\ Kept /\ DOMAIN disk' = DOMAIN disk
    BY <1>3, <2>1, <2>2, WriteBadStep DEF BadWrite
  <2>. QED
    BY <1>1, <1>3, <2>3 DEF BadWrite, Typed, StateTyped, IsOpen
<1>4. CASE UNCHANGED fileVars
  BY <1>1, <1>4, DiskUnchanged DEF fileVars, Typed, StateTyped, IsOpen
<1>. QED
  BY <1>2, <1>3, <1>4, Writes DEF Log, Write

LEMMA QuitStep == ASSUME Typed, Quit PROVE Typed' /\ Kept
<1>. DiskTyped /\ StateTyped
  BY DEF Typed
<1>1. CASE stuck = <<>>
  BY <1>1, DiskUnchanged DEF Quit, Destroy, Typed, StateTyped, IsOpen
<1>2. CASE stuck # <<>>
  <2>1. stuck[1] \in Lines
    BY <1>2 DEF StateTyped
  <2>2. PICK n \in 0..Width[stuck[1]] : disk' = Extended(stuck[1], n)
    BY <1>2 DEF Quit, Destroy
  <2>3. DiskTyped' /\ Kept
    BY <2>1, <2>2, WriteBadStep DEF Quit, Destroy
  <2>. QED
    BY <2>3 DEF Quit, Destroy, Typed, StateTyped, IsOpen
<1>. QED
  BY <1>1, <1>2

LEMMA CrashStep == ASSUME Typed, Crash PROVE Typed' /\ Kept
  BY DiskUnchanged DEF Crash, Typed, StateTyped, IsOpen

(* A process that dies in a write leaves a part of the line, or nothing. *)
LEMMA CrashWrites ==
  ASSUME Typed, NEW l \in Lines, CrashInWrite(l)
  PROVE  /\ \E n \in 0..Width[l] :
              /\ disk' = Extended(l, n)
              /\ n # 0 => stream = "open" /\ terminal' = Displayed(l)
         /\ terminal' \in {terminal, Displayed(l)}
         /\ stream' = "gone" /\ stuck' = <<>> /\ handed' = Append(handed, l)
         /\ UNCHANGED <<number, bytes, opened, run>>
<1>1. 0 \in 0..Width[l] /\ Extended(l, 0) = disk
  BY WriterAssumption DEF Extended
<1>2. \A n \in 0..0 : n = 0
  OBVIOUS
<1>. QED
  BY <1>1, <1>2 DEF CrashInWrite

LEMMA CrashInWriteStep ==
  ASSUME Typed, NEW l \in Lines, CrashInWrite(l)
  PROVE  Typed' /\ Kept /\ DOMAIN disk' = DOMAIN disk
<1>. DiskTyped /\ StateTyped
  BY DEF Typed
<1>1. PICK n \in 0..Width[l] : disk' = Extended(l, n)
  BY CrashWrites
<1>2. DiskTyped' /\ Kept /\ DOMAIN disk' = DOMAIN disk
  BY <1>1, CrashWrites, WriteBadStep
<1>3. Append(handed, l) \in Seq(Lines) /\ Displayed(l) \in Seq(Lines)
  BY DEF StateTyped, Displayed
<1>4. StateTyped'
  BY <1>3, CrashWrites DEF StateTyped, IsOpen
<1>. QED
  BY <1>2, <1>4 DEF Typed

LEMMA RestartStep == ASSUME Typed, Restart PROVE Typed' /\ Kept
<1>. DiskTyped /\ StateTyped
  BY DEF Typed
<1>1. /\ DiskTyped' /\ stream' \in {"open", "closed"} /\ opened' \in 0..1
      /\ stream' = "open" => 1 \in DOMAIN disk'
      /\ \A m \in (DOMAIN disk) \ {1} : disk'[m] = disk[m]
  BY OpenedTyped DEF Restart, DiskTyped
<1>2. Kept
  BY <1>1 DEF Restart, Kept
<1>3. StateTyped'
  BY <1>1, WriterAssumption, DirectoryAssumption DEF Restart, StateTyped, IsOpen
<1>. QED
  BY <1>1, <1>2, <1>3 DEF Typed

LEMMA TypedNext == Typed /\ [DirNext]_dirVars => Typed' /\ [Kept]_dirVars
<1>. SUFFICES ASSUME Typed, [DirNext]_dirVars PROVE Typed' /\ [Kept]_dirVars
  OBVIOUS
<1>1. CASE DirNext
  BY <1>1, WriteStep, CrashInWriteStep, QuitStep, CrashStep, RestartStep DEF DirNext
<1>2. CASE UNCHANGED dirVars
  BY <1>2 DEF dirVars, vars, fileVars, Typed, DiskTyped, StateTyped, IsOpen
<1>. QED
  BY <1>1, <1>2

(* Type correctness: m_bytesWritten is never above the roll size between    *)
(* two writes, and no number but those from 1 on is used.                   *)
THEOREM DirTypeCorrect == DirSpec => []DirTypeOK
  BY TypedInit, TypedNext, TypedSuffices, PTL DEF DirSpec

(* No step touches a file but the one being written, which only grows, and  *)
(* the next one, whatever fails.                                            *)
THEOREM FilesAreKept == DirSpec => RolledFilesStay
  BY TypedInit, TypedNext, PTL DEF DirSpec, RolledFilesStay, Kept

-------------------------------------------------------------------------------
(* The pieces in the files of this writer. *)
LEMMA OnDiskIs == OnDisk = PiecesIn(disk, opened)
  BY DEF OnDisk, PiecesIn

-------------------------------------------------------------------------------
(* The files of this writer are there, the last is the one being written,   *)
(* and a line is stuck only in a stream that failed.                         *)
Placed ==
  /\ 1..opened \subseteq DOMAIN disk
  /\ stream \in {"open", "bad"} => opened = number
  /\ number - 1 <= opened
  /\ stuck # <<>> => stream = "bad"

(* The first k pieces are the first k lines, and the others of the next.    *)
Aligned(k, pieces, lines) ==
  /\ k \in 0..Len(pieces) /\ k <= Len(lines)
  /\ \A i \in 1..k : pieces[i].line = lines[i] /\ Whole(pieces[i])
  /\ k < Len(pieces) => ~Whole(pieces[k + 1])
  /\ \A i \in (k + 1)..Len(pieces) : k < Len(lines) /\ pieces[i].line = lines[k + 1]

(* A line was handed over; it is written, or a part of it is, at most. *)
LEMMA AlignedHanded ==
  ASSUME NEW k, NEW pieces \in Seq(Pieces), NEW lines \in Seq(Lines), NEW l \in Lines,
         Aligned(k, pieces, lines)
  PROVE  Aligned(k, pieces, Append(lines, l))
  BY DEF Aligned

LEMMA AlignedWhole ==
  ASSUME NEW k, NEW pieces \in Seq(Pieces), NEW lines \in Seq(Lines), NEW p \in Pieces,
         Aligned(k, pieces, lines), k = Len(pieces), k < Len(lines),
         p.line = lines[k + 1], Whole(p)
  PROVE  Aligned(k + 1, Append(pieces, p), lines)
  BY DEF Aligned

LEMMA AlignedPart ==
  ASSUME NEW k, NEW pieces \in Seq(Pieces), NEW lines \in Seq(Lines), NEW p \in Pieces,
         Aligned(k, pieces, lines), k < Len(lines),
         p.line = lines[k + 1], k < Len(pieces) \/ ~Whole(p)
  PROVE  Aligned(k, Append(pieces, p), lines)
  BY DEF Aligned

(* There is one such k: the k of the property. *)
LEMMA AlignedUnique ==
  ASSUME NEW k, NEW pieces \in Seq(Pieces), NEW lines \in Seq(Lines),
         Aligned(k, pieces, lines)
  PROVE  k = CHOOSE j \in 0..Len(pieces) :
               /\ \A i \in 1..j : Whole(pieces[i])
               /\ j < Len(pieces) => ~Whole(pieces[j + 1])
<1>. DEFINE P(j) == /\ \A i \in 1..j : Whole(pieces[i])
                    /\ j < Len(pieces) => ~Whole(pieces[j + 1])
<1>1. k \in 0..Len(pieces) /\ P(k)
  BY DEF Aligned
<1>2. ASSUME NEW j \in 0..Len(pieces), P(j) PROVE j = k
  <2>1. CASE j < k
    <3>1. j + 1 \in 1..k /\ j < Len(pieces)
      BY <1>1, <2>1
    <3>. QED
      BY <1>1, <1>2, <3>1
  <2>2. CASE k < j
    <3>1. k + 1 \in 1..j /\ k < Len(pieces)
      BY <1>1, <2>2
    <3>. QED
      BY <1>1, <1>2, <3>1
  <2>. QED
    BY <1>1, <2>1, <2>2
<1>. QED
  BY <1>1, <1>2

Gapless ==
  \E k \in Nat :
    /\ Aligned(k, OnDisk, handed)
    /\ stream = "open" => k = Len(handed) /\ k = Len(OnDisk)
    /\ stuck # <<>> => k < Len(handed) /\ stuck[1] = handed[k + 1]

Shown ==
  Terminal =>
    /\ IsPrefix(terminal, handed)
    /\ stream \in {"open", "bad"} => terminal = handed
    /\ \A i \in DOMAIN OnDisk : \E j \in DOMAIN terminal :
         terminal[j] = OnDisk[i].line
    /\ stuck # <<>> => \E j \in DOMAIN terminal : terminal[j] = stuck[1]

LEMMA GaplessSuffices ==
  ASSUME Typed, Placed, Gapless PROVE GaplessOnDisk
<1>1. OnDisk \in Seq(Pieces) /\ handed \in Seq(Lines)
  <2>1. \A m \in 1..opened : disk[m] \in Seq(Pieces)
    BY DEF Typed, DiskTyped, Placed
  <2>2. opened \in Nat
    BY DEF Typed, StateTyped
  <2>. QED
    BY <2>1, <2>2, OnDiskIs, PiecesTyped DEF Typed, StateTyped
<1>2. PICK k \in Nat :
        /\ Aligned(k, OnDisk, handed)
        /\ stream = "open" => k = Len(handed) /\ k = Len(OnDisk)
  BY DEF Gapless
<1>. DEFINE c == CHOOSE j \in 0..Len(OnDisk) :
                   /\ \A i \in 1..j : Whole(OnDisk[i])
                   /\ j < Len(OnDisk) => ~Whole(OnDisk[j + 1])
<1>3. k = c
  BY <1>1, <1>2, AlignedUnique
<1>. HIDE DEF c
<1>4. /\ c <= Len(handed)
      /\ \A i \in 1..c : OnDisk[i].line = handed[i]
      /\ \A i \in (c + 1)..Len(OnDisk) :
           c < Len(handed) /\ OnDisk[i].line = handed[c + 1]
      /\ stream = "open" => c = Len(handed) /\ c = Len(OnDisk)
  BY <1>2, <1>3 DEF Aligned
<1>. QED
  BY <1>4 DEF GaplessOnDisk, c

(* What the steps do to the pieces. *)
LEMMA FilesTyped ==
  ASSUME Typed, Placed
  PROVE  /\ opened \in Nat /\ \A m \in 1..opened : disk[m] \in Seq(Pieces)
         /\ OnDisk \in Seq(Pieces)
<1>1. opened \in Nat /\ \A m \in 1..opened : disk[m] \in Seq(Pieces)
  BY DEF Typed, StateTyped, DiskTyped, Placed
<1>. QED
  BY <1>1, OnDiskIs, PiecesTyped

LEMMA ExtendedPieces ==
  ASSUME Typed, Placed, opened = number, NEW l \in Lines, NEW n \in 1..Width[l]
  PROVE  /\ Piece(l, n) \in Pieces /\ Piece(l, n).line = l
         /\ PiecesIn(Extended(l, n), number) = Append(OnDisk, Piece(l, n))
<1>1. Width[l] \in Nat \ {0} /\ n \in Nat \ {0} /\ n \in 0..Width[l]
  BY WriterAssumption
<1>2. Piece(l, n) \in Pieces /\ Piece(l, n).line = l
  BY <1>1 DEF Piece, Pieces
<1>. DEFINE e == Extended(l, n)
<1>3. number \in Nat \ {0} /\ number \in DOMAIN disk
  BY DEF Typed, StateTyped, Placed
<1>4. e[number] = Append(disk[number], Piece(l, n))
  BY <1>1, <1>3 DEF Extended
<1>5. \A m \in 1..(number - 1) : e[m] = disk[m]
  <2>1. \A m \in (DOMAIN disk) \ {number} : e[m] = disk[m]
    BY <1>1, ExtendedTyped DEF Typed
  <2>2. 1..number \subseteq DOMAIN disk
    BY DEF Placed
  <2>. QED
    BY <1>3, <2>1, <2>2
<1>. HIDE DEF e
<1>6. PiecesIn(e, number) = Append(PiecesIn(disk, number), Piece(l, n))
  BY <1>2, <1>3, <1>4, <1>5, FilesTyped, OneMorePiece
<1>. QED
  BY <1>2, <1>6, OnDiskIs DEF e

LEMMA OpenedPieces ==
  ASSUME NEW files, NEW n \in Nat \ {0}, files \in [DOMAIN files -> Seq(Pieces)],
         1..(n - 1) \subseteq DOMAIN files, Opened(files, n)
  PROVE  /\ OnDisk' = PiecesIn(files, n - 1)
         /\ 1..opened' \subseteq DOMAIN disk'
         /\ stream' \in {"open", "closed"} /\ n - 1 <= opened'
         /\ stream' = "open" => opened' = n /\ n \in DOMAIN disk' /\ disk'[n] = <<>>
<1>1. OnDisk' = PiecesIn(disk', opened')
  BY DEF OnDisk, PiecesIn
<1>2. CASE /\ stream' = "open"
           /\ opened' = n
           /\ disk' = [m \in DOMAIN files \cup {n} |-> IF m = n THEN <<>> ELSE files[m]]
  <2>1. /\ disk'[n] = <<>> /\ n \in DOMAIN disk'
        /\ \A m \in 1..(n - 1) : disk'[m] = files[m]
    BY <1>2
  <2>2. 1..opened' \subseteq DOMAIN disk'
    BY <1>2
  <2>. DEFINE k == n - 1
              d == disk'
  <2>3. k \in Nat /\ n = k + 1 /\ \A m \in 1..k : files[m] \in Seq(Pieces)
    OBVIOUS
  <2>4. d[k + 1] = <<>> /\ \A m \in 1..k : d[m] = files[m]
    BY <2>1, <2>3
  <2>. HIDE DEF k, d
  <2>5. PiecesIn(d, k + 1) = PiecesIn(files, k)
    BY <2>3, <2>4, OneMoreFile
  <2>6. PiecesIn(disk', n) = PiecesIn(files, n - 1)
    BY <2>3, <2>5 DEF k, d
  <2>. QED
    BY <1>1, <1>2, <2>1, <2>2, <2>6
<1>3. CASE stream' = "closed" /\ disk' = files /\ opened' = n - 1
  BY <1>1, <1>3
<1>. QED
  BY <1>2, <1>3 DEF Opened

(* The line that was handed over is whole in the files now, or it is stuck. *)
LEMMA WriteGoodPieces ==
  ASSUME Typed, Placed, NEW l \in Lines, GoodWrite(l)
  PROVE  /\ OnDisk' = Append(OnDisk, Piece(l, Width[l]))
         /\ Placed'
<1>. DEFINE w == Width[l]
            e == Extended(l, w)
<1>1. w \in 1..w /\ w \in 0..w /\ number \in Nat \ {0} /\ opened = number
  BY WriterAssumption DEF GoodWrite, Typed, StateTyped, Placed
<1>2. PiecesIn(e, number) = Append(OnDisk, Piece(l, w))
  BY <1>1, ExtendedPieces
<1>3. DOMAIN e = DOMAIN disk /\ e \in [DOMAIN disk -> Seq(Pieces)]
  BY <1>1, ExtendedTyped DEF Typed
<1>4. stuck' = <<>>
  BY DEF GoodWrite, RollFile, Placed
<1>5. CASE Due(bytes + w)
  <2>1. number' = number + 1 /\ Opened(e, number + 1)
    BY <1>5 DEF GoodWrite, RollFile, NextNumber
  <2>. HIDE DEF e
  <2>2. (number + 1) - 1 = number /\ 1..number \subseteq DOMAIN e /\ number + 1 \in Nat \ {0}
    BY <1>1, <1>3 DEF Placed
  <2>3. /\ OnDisk' = PiecesIn(e, number)
        /\ 1..opened' \subseteq DOMAIN disk'
        /\ stream' \in {"open", "closed"} /\ number <= opened'
        /\ stream' = "open" => opened' = number + 1
    BY <1>3, <2>1, <2>2, OpenedPieces
  <2>. QED
    BY <1>1, <1>2, <1>4, <2>1, <2>3 DEF Placed
<1>6. CASE ~Due(bytes + w)
  <2>1. disk' = e /\ opened' = number /\ number' = number /\ stream' = "open"
    BY <1>1, <1>6 DEF GoodWrite
  <2>2. OnDisk' = PiecesIn(e, number)
    BY <2>1 DEF OnDisk, PiecesIn
  <2>. QED
    BY <1>1, <1>2, <1>3, <1>4, <2>1, <2>2 DEF Placed
<1>. QED
  BY <1>5, <1>6

LEMMA WriteBadPieces ==
  ASSUME Typed, Placed, stream \in {"open", "bad"}, NEW l \in Lines, NEW n \in 0..Width[l],
         disk' = Extended(l, n), UNCHANGED <<number, opened>>
  PROVE  /\ OnDisk' = IF n = 0 THEN OnDisk ELSE Append(OnDisk, Piece(l, n))
         /\ 1..opened' \subseteq DOMAIN disk'
<1>1. Width[l] \in Nat /\ opened = number /\ DOMAIN disk' = DOMAIN disk
  BY WriterAssumption, ExtendedTyped DEF Placed, Typed
<1>2. OnDisk' = PiecesIn(disk', opened')
  BY DEF OnDisk, PiecesIn
<1>3. CASE n = 0
  BY <1>1, <1>2, <1>3, OnDiskIs DEF Extended, Placed
<1>4. CASE n # 0
  <2>1. n \in 1..Width[l]
    BY <1>1, <1>4
  <2>2. PiecesIn(Extended(l, n), number) = Append(OnDisk, Piece(l, n))
    BY <1>1, <2>1, ExtendedPieces
  <2>. QED
    BY <1>1, <1>2, <1>4, <2>2 DEF Placed
<1>. QED
  BY <1>3, <1>4

(* What a write does to what is shown. *)
LEMMA ShownWritten ==
  ASSUME Typed, Placed, Shown, NEW l \in Lines, stream \in {"open", "bad"},
         OnDisk' = OnDisk \/ \E p \in Pieces : p.line = l /\ OnDisk' = Append(OnDisk, p),
         stuck' = stuck \/ stuck' = <<l>>,
         handed' = Append(handed, l),
         terminal' = IF Terminal THEN Append(terminal, l) ELSE terminal
  PROVE  Shown'
<1>. SUFFICES ASSUME Terminal
              PROVE  /\ IsPrefix(terminal', handed') /\ terminal' = handed'
                     /\ \A i \in DOMAIN OnDisk' : \E j \in DOMAIN terminal' :
                          terminal'[j] = OnDisk'[i].line
                     /\ stuck' # <<>> => \E j \in DOMAIN terminal' : terminal'[j] = stuck'[1]
  BY DEF Shown
<1>1. terminal = handed /\ terminal \in Seq(Lines) /\ handed \in Seq(Lines) /\ OnDisk \in Seq(Pieces)
  BY FilesTyped DEF Typed, StateTyped, Shown
<1>2. terminal' = Append(terminal, l) /\ handed' = Append(terminal, l)
  BY <1>1
<1>3. /\ Len(terminal) + 1 \in DOMAIN terminal' /\ terminal'[Len(terminal) + 1] = l
      /\ \A j \in DOMAIN terminal : j \in DOMAIN terminal' /\ terminal'[j] = terminal[j]
  BY <1>1, <1>2
<1>4. terminal' = handed' /\ IsPrefix(terminal', handed')
  <2>1. \A s \in Seq(Lines) : IsPrefix(s, s)
    BY DEF IsPrefix
  <2>2. Append(terminal, l) \in Seq(Lines)
    BY <1>1
  <2>. QED
    BY <1>2, <2>1, <2>2
<1>5. ASSUME NEW i \in DOMAIN OnDisk'
      PROVE  \E j \in DOMAIN terminal' : terminal'[j] = OnDisk'[i].line
  <2>1. CASE i \in DOMAIN OnDisk /\ OnDisk'[i] = OnDisk[i]
    BY <1>3, <2>1 DEF Shown
  <2>2. CASE OnDisk'[i].line = l
    BY <1>3, <2>2
  <2>3. CASE \E p \in Pieces : p.line = l /\ OnDisk' = Append(OnDisk, p)
    <3>1. PICK p \in Pieces : p.line = l /\ OnDisk' = Append(OnDisk, p)
      BY <2>3
    <3>2. i \in 1..(Len(OnDisk) + 1) /\ DOMAIN OnDisk = 1..Len(OnDisk)
      BY <1>1, <3>1
    <3>3. \A s \in Seq(Pieces) : \A m \in 1..(Len(s) + 1) :
            Append(s, p)[m] = IF m = Len(s) + 1 THEN p ELSE s[m]
      OBVIOUS
    <3>4. OnDisk'[i] = IF i = Len(OnDisk) + 1 THEN p ELSE OnDisk[i]
      BY <1>1, <3>1, <3>2, <3>3
    <3>5. CASE i = Len(OnDisk) + 1
      BY <2>2, <3>1, <3>4, <3>5
    <3>6. CASE i # Len(OnDisk) + 1
      <4>1. i \in DOMAIN OnDisk
        BY <1>1, <3>2, <3>6
      <4>. QED
        BY <2>1, <3>4, <3>6, <4>1
    <3>. QED
      BY <3>5, <3>6
  <2>. QED
    BY <2>1, <2>3
<1>6. ASSUME stuck' # <<>> PROVE \E j \in DOMAIN terminal' : terminal'[j] = stuck'[1]
  <2>1. CASE stuck' = stuck
    BY <1>3, <1>6, <2>1 DEF Shown
  <2>2. CASE stuck' = <<l>>
    BY <1>3, <2>2
  <2>. QED
    BY <2>1, <2>2
<1>. QED
  BY <1>4, <1>5, <1>6

(* The invariant, of which the two properties are parts. *)
Whereabouts == Typed /\ Placed /\ Gapless /\ Shown

LEMMA LogWhereabouts ==
  ASSUME Whereabouts, Typed', NEW l \in Lines, Log(l) PROVE Whereabouts'
<1>. Typed /\ Placed /\ Gapless /\ Shown
  BY DEF Whereabouts
<1>1. /\ OnDisk \in Seq(Pieces) /\ handed \in Seq(Lines)
      /\ handed' = Append(handed, l) /\ handed' \in Seq(Lines)
  BY FilesTyped DEF Log, Write, Typed, StateTyped
<1>2. PICK k \in Nat :
        /\ Aligned(k, OnDisk, handed)
        /\ stream = "open" => k = Len(handed) /\ k = Len(OnDisk)
        /\ stuck # <<>> => k < Len(handed) /\ stuck[1] = handed[k + 1]
  BY DEF Gapless
<1>3. Aligned(k, OnDisk, handed')
  BY <1>1, <1>2, AlignedHanded
<1>4. /\ Len(handed') = Len(handed) + 1 /\ handed'[Len(handed) + 1] = l
      /\ \A i \in 1..Len(handed) : handed'[i] = handed[i]
  BY <1>1
<1>5. CASE GoodWrite(l)
  <2>. DEFINE p == Piece(l, Width[l])
  <2>1. OnDisk' = Append(OnDisk, p) /\ Placed' /\ k = Len(handed) /\ k = Len(OnDisk)
    BY <1>2, <1>5, WriteGoodPieces DEF GoodWrite
  <2>2. p \in Pieces /\ p.line = l /\ Whole(p)
    BY WriterAssumption DEF Piece, Pieces, Whole
  <2>3. stream = "open" /\ stuck = <<>> /\ stuck' = <<>>
    BY <1>5 DEF GoodWrite, RollFile, Placed
  <2>4. terminal' = IF Terminal THEN Append(terminal, l) ELSE terminal
    BY <1>5, <2>3 DEF Log, Write, Displayed, IsOpen
  <2>5. Shown'
    <3>. HIDE DEF p
    <3>. QED
      BY <1>1, <2>1, <2>2, <2>3, <2>4, ShownWritten
  <2>6. Aligned(k + 1, OnDisk', handed')
    <3>. HIDE DEF p
    <3>1. k < Len(handed') /\ p.line = handed'[k + 1]
      BY <1>1, <1>4, <2>1, <2>2
    <3>2. Aligned(k + 1, Append(OnDisk, p), handed')
      BY <1>1, <1>3, <2>1, <2>2, <3>1, AlignedWhole
    <3>. QED
      BY <2>1, <3>2
  <2>7. k + 1 = Len(handed') /\ k + 1 = Len(OnDisk')
    BY <1>1, <1>4, <2>1
  <2>8. Gapless'
    BY <2>3, <2>6, <2>7 DEF Gapless
  <2>. QED
    BY <2>1, <2>5, <2>8 DEF Whereabouts
<1>6. CASE BadWrite(l)
  <2>1. PICK n \in 0..(Width[l] - 1) : disk' = Extended(l, n)
    BY <1>6 DEF BadWrite
  <2>. DEFINE p == Piece(l, n)
  <2>2. n \in 0..Width[l] /\ p.line = l /\ ~Whole(p) /\ (n # 0 => p \in Pieces)
    BY WriterAssumption DEF Piece, Pieces, Whole
  <2>3. /\ stream = "open" /\ stream' = "bad" /\ stuck' = <<l>>
        /\ UNCHANGED <<number, opened>>
    BY <1>6 DEF BadWrite
  <2>4. /\ OnDisk' = IF n = 0 THEN OnDisk ELSE Append(OnDisk, p)
        /\ 1..opened' \subseteq DOMAIN disk'
    BY <2>1, <2>2, <2>3, WriteBadPieces
  <2>. HIDE DEF p
  <2>5. Placed'
    BY <2>3, <2>4 DEF Placed
  <2>6. terminal' = IF Terminal THEN Append(terminal, l) ELSE terminal
    BY <2>3 DEF Log, Write, Displayed, IsOpen
  <2>7. Shown'
    BY <1>1, <2>2, <2>3, <2>4, <2>6, ShownWritten
  <2>8. k = Len(handed) /\ k < Len(handed') /\ handed'[k + 1] = l
    BY <1>2, <1>4, <2>3
  <2>9. Aligned(k, OnDisk', handed')
    BY <1>1, <1>3, <2>2, <2>4, <2>8, AlignedPart
  <2>10. Gapless'
    BY <2>3, <2>8, <2>9 DEF Gapless
  <2>. QED
    BY <2>5, <2>7, <2>10 DEF Whereabouts
<1>7. CASE UNCHANGED fileVars /\ stream # "open"
  <2>1. OnDisk' = OnDisk /\ Placed'
    BY <1>7 DEF fileVars, Placed, OnDisk
  <2>2. Gapless'
    BY <1>1, <1>2, <1>3, <1>4, <1>7, <2>1 DEF Gapless, fileVars
  <2>3. Shown'
    <3>1. CASE IsOpen
      <4>1. stream \in {"open", "bad"}
        BY <3>1 DEF IsOpen
      <4>2. terminal' = IF Terminal THEN Append(terminal, l) ELSE terminal
        BY <3>1 DEF Log, Write, Displayed
      <4>. QED
        BY <1>1, <1>7, <2>1, <4>1, <4>2, ShownWritten DEF fileVars
    <3>2. CASE ~IsOpen
      <4>1. terminal' = terminal /\ stream' \notin {"open", "bad"}
        BY <1>7, <3>2 DEF Log, Write, IsOpen, fileVars
      <4>2. IsPrefix(terminal, handed) => IsPrefix(terminal', handed')
        BY <1>1, <4>1 DEF IsPrefix, Typed, StateTyped
      <4>. QED
        BY <1>7, <2>1, <4>1, <4>2 DEF Shown, fileVars
    <3>. QED
      BY <3>1, <3>2
  <2>. QED
    BY <2>1, <2>2, <2>3 DEF Whereabouts
<1>. QED
  <2>1. IsOpen \/ (UNCHANGED fileVars /\ stream # "open")
    BY DEF Log, Write, IsOpen
  <2>2. IsOpen => GoodWrite(l) \/ BadWrite(l) \/ (stream = "bad" /\ UNCHANGED fileVars)
    BY Writes DEF Log, Write
  <2>. QED
    BY <1>5, <1>6, <1>7, <2>1, <2>2

LEMMA QuitWhereabouts ==
  ASSUME Whereabouts, Typed', Quit PROVE Whereabouts'
<1>. Typed /\ Placed /\ Gapless /\ Shown
  BY DEF Whereabouts
<1>1. OnDisk \in Seq(Pieces) /\ handed \in Seq(Lines)
  BY FilesTyped DEF Typed, StateTyped
<1>2. PICK k \in Nat :
        /\ Aligned(k, OnDisk, handed)
        /\ stream = "open" => k = Len(handed) /\ k = Len(OnDisk)
        /\ stuck # <<>> => k < Len(handed) /\ stuck[1] = handed[k + 1]
  BY DEF Gapless
<1>3. /\ stream' = "gone" /\ stuck' = <<>>
      /\ UNCHANGED <<number, opened, terminal, handed>>
  BY DEF Quit, Destroy
<1>4. CASE stuck = <<>>
  <2>1. UNCHANGED disk
    BY <1>4 DEF Quit, Destroy
  <2>2. OnDisk' = OnDisk /\ Placed'
    BY <1>3, <2>1 DEF OnDisk, Placed
  <2>3. Gapless'
    BY <1>2, <1>3, <2>2 DEF Gapless
  <2>4. Shown'
    BY <1>3, <2>2 DEF Shown
  <2>. QED
    BY <2>2, <2>3, <2>4 DEF Whereabouts
<1>5. CASE stuck # <<>>
  <2>. DEFINE l == stuck[1]
  <2>1. l \in Lines /\ stream = "bad" /\ k < Len(handed) /\ l = handed[k + 1]
    BY <1>2, <1>5 DEF Typed, StateTyped, Placed
  <2>2. PICK n \in 0..Width[l] : disk' = Extended(l, n)
    BY <1>5 DEF Quit, Destroy
  <2>. DEFINE p == Piece(l, n)
  <2>3. n # 0 => p \in Pieces /\ p.line = l
    BY <2>1, WriterAssumption DEF Piece, Pieces
  <2>. HIDE DEF l
  <2>4. /\ OnDisk' = IF n = 0 THEN OnDisk ELSE Append(OnDisk, p)
        /\ 1..opened' \subseteq DOMAIN disk'
    BY <1>3, <2>1, <2>2, WriteBadPieces
  <2>. HIDE DEF p
  <2>5. Placed'
    BY <1>3, <2>4 DEF Placed
  <2>6. \E j \in Nat : Aligned(j, OnDisk', handed')
    <3>1. CASE n = 0
      BY <1>2, <1>3, <2>4, <3>1
    <3>2. CASE n # 0 /\ (k < Len(OnDisk) \/ ~Whole(p))
      <4>1. Aligned(k, Append(OnDisk, p), handed)
        BY <1>1, <1>2, <2>1, <2>3, <3>2, AlignedPart
      <4>. QED
        BY <1>3, <2>4, <3>2, <4>1
    <3>3. CASE n # 0 /\ ~(k < Len(OnDisk)) /\ Whole(p)
      <4>1. k = Len(OnDisk)
        BY <1>1, <1>2, <3>3 DEF Aligned
      <4>2. Aligned(k + 1, Append(OnDisk, p), handed)
        BY <1>1, <1>2, <2>1, <2>3, <3>3, <4>1, AlignedWhole
      <4>. QED
        BY <1>3, <2>4, <3>3, <4>2
    <3>. QED
      BY <3>1, <3>2, <3>3
  <2>7. Gapless'
    BY <1>3, <2>6 DEF Gapless
  <2>8. Shown'
    <3>. SUFFICES ASSUME Terminal, NEW i \in DOMAIN OnDisk'
                  PROVE  \E j \in DOMAIN terminal : terminal[j] = OnDisk'[i].line
      BY <1>3 DEF Shown
    <3>1. CASE n = 0
      BY <2>4, <3>1 DEF Shown
    <3>2. CASE n # 0
      <4>1. i \in 1..(Len(OnDisk) + 1)
        BY <1>1, <2>3, <2>4, <3>2
      <4>2. OnDisk'[i] = IF i = Len(OnDisk) + 1 THEN p ELSE OnDisk[i]
        BY <1>1, <2>3, <2>4, <3>2, <4>1
      <4>3. CASE i = Len(OnDisk) + 1
        BY <1>5, <2>3, <3>2, <4>2, <4>3 DEF Shown, l
      <4>4. CASE i # Len(OnDisk) + 1
        BY <1>1, <4>1, <4>2, <4>4 DEF Shown
      <4>. QED
        BY <4>3, <4>4
    <3>. QED
      BY <3>1, <3>2
  <2>. QED
    BY <2>5, <2>7, <2>8 DEF Whereabouts
<1>. QED
  BY <1>4, <1>5

LEMMA CrashWhereabouts ==
  ASSUME Whereabouts, Typed', Crash PROVE Whereabouts'
<1>1. OnDisk' = OnDisk
  BY DEF Crash, OnDisk
<1>. QED
  BY <1>1 DEF Whereabouts, Crash, Placed, Gapless, Shown

LEMMA CrashInWriteWhereabouts ==
  ASSUME Whereabouts, Typed', NEW l \in Lines, CrashInWrite(l) PROVE Whereabouts'
<1>. Typed /\ Placed /\ Gapless /\ Shown
  BY DEF Whereabouts
<1>1. /\ OnDisk \in Seq(Pieces) /\ handed \in Seq(Lines) /\ terminal \in Seq(Lines)
      /\ IsOpen /\ stream' = "gone" /\ stuck' = <<>> /\ handed' = Append(handed, l)
      /\ terminal' \in {terminal, Displayed(l)}
      /\ UNCHANGED <<number, opened>>
  BY FilesTyped, CrashWrites DEF Typed, StateTyped, CrashInWrite
<1>2. PICK n \in 0..Width[l] :
        /\ disk' = Extended(l, n)
        /\ n # 0 => stream = "open" /\ terminal' = Displayed(l)
  BY CrashWrites
<1>. DEFINE p == Piece(l, n)
<1>3. n # 0 => p \in Pieces /\ p.line = l
  BY WriterAssumption DEF Piece, Pieces
<1>4. /\ OnDisk' = IF n = 0 THEN OnDisk ELSE Append(OnDisk, p)
      /\ 1..opened' \subseteq DOMAIN disk'
  BY <1>1, <1>2, WriteBadPieces DEF IsOpen
<1>. HIDE DEF p
<1>5. Placed'
  BY <1>1, <1>4 DEF Placed
<1>6. PICK k \in Nat :
        /\ Aligned(k, OnDisk, handed)
        /\ stream = "open" => k = Len(handed) /\ k = Len(OnDisk)
  BY DEF Gapless
<1>7. Aligned(k, OnDisk, handed') /\ handed' \in Seq(Lines)
  BY <1>1, <1>6, AlignedHanded
<1>8. \E j \in Nat : Aligned(j, OnDisk', handed')
  <2>1. CASE n = 0
    BY <1>4, <1>7, <2>1
  <2>2. CASE n # 0
    <3>1. k = Len(OnDisk) /\ k < Len(handed') /\ p.line = handed'[k + 1]
      BY <1>1, <1>2, <1>3, <1>6, <2>2
    <3>2. CASE Whole(p)
      <4>1. Aligned(k + 1, Append(OnDisk, p), handed')
        BY <1>1, <1>3, <1>7, <2>2, <3>1, <3>2, AlignedWhole
      <4>. QED
        BY <1>4, <2>2, <4>1
    <3>3. CASE ~Whole(p)
      <4>1. Aligned(k, Append(OnDisk, p), handed')
        BY <1>1, <1>3, <1>7, <2>2, <3>1, <3>3, AlignedPart
      <4>. QED
        BY <1>4, <2>2, <4>1
    <3>. QED
      BY <3>2, <3>3
  <2>. QED
    BY <2>1, <2>2
<1>9. Gapless'
  BY <1>1, <1>8 DEF Gapless
<1>10. Shown'
  <2>. SUFFICES ASSUME Terminal
                PROVE  /\ IsPrefix(terminal', handed')
                       /\ \A i \in DOMAIN OnDisk' : \E j \in DOMAIN terminal' :
                            terminal'[j] = OnDisk'[i].line
    BY <1>1 DEF Shown
  <2>1. terminal = handed /\ Displayed(l) = Append(terminal, l)
    BY <1>1 DEF Shown, Displayed, IsOpen
  <2>2. IsPrefix(terminal', handed')
    <3>1. \A s \in Seq(Lines) : IsPrefix(s, Append(s, l)) /\ IsPrefix(Append(s, l), Append(s, l))
      BY DEF IsPrefix
    <3>. QED
      BY <1>1, <2>1, <3>1
  <2>3. \A j \in DOMAIN terminal : j \in DOMAIN terminal' /\ terminal'[j] = terminal[j]
    BY <1>1, <2>1
  <2>4. ASSUME NEW i \in DOMAIN OnDisk'
        PROVE  \E j \in DOMAIN terminal' : terminal'[j] = OnDisk'[i].line
    <3>1. CASE i \in DOMAIN OnDisk /\ OnDisk'[i] = OnDisk[i]
      BY <2>3, <3>1 DEF Shown
    <3>2. CASE n # 0
      <4>1. /\ i \in 1..(Len(OnDisk) + 1)
            /\ OnDisk'[i] = IF i = Len(OnDisk) + 1 THEN p ELSE OnDisk[i]
        BY <1>1, <1>3, <1>4, <2>4, <3>2
      <4>2. CASE i = Len(OnDisk) + 1
        <5>1. Len(terminal) + 1 \in DOMAIN terminal' /\ terminal'[Len(terminal) + 1] = l
          BY <1>1, <1>2, <2>1, <3>2
        <5>. QED
          BY <1>3, <3>2, <4>1, <4>2, <5>1
      <4>3. CASE i # Len(OnDisk) + 1
        BY <1>1, <3>1, <4>1, <4>3
      <4>. QED
        BY <4>2, <4>3
    <3>. QED
      BY <1>4, <2>4, <3>1, <3>2
  <2>. QED
    BY <2>2, <2>4
<1>. QED
  BY <1>5, <1>9, <1>10 DEF Whereabouts

(* A writer that begins has no pieces and no lines. *)
LEMMA Fresh == Aligned(0, <<>>, <<>>) /\ IsPrefix(<<>>, <<>>) /\ Len(<<>>) = 0
  BY DEF Aligned, IsPrefix

LEMMA RestartWhereabouts ==
  ASSUME Whereabouts, Typed', Restart PROVE Whereabouts'
<1>1. /\ disk \in [DOMAIN disk -> Seq(Pieces)] /\ Opened(disk, 1)
      /\ number' = 1 /\ stuck' = <<>> /\ handed' = <<>> /\ terminal' = <<>>
  BY DEF Whereabouts, Typed, DiskTyped, Restart
<1>2. /\ OnDisk' = PiecesIn(disk, 1 - 1)
      /\ 1..opened' \subseteq DOMAIN disk'
      /\ stream' \in {"open", "closed"} /\ 1 - 1 <= opened'
      /\ stream' = "open" => opened' = 1
  <2>1. 1..(1 - 1) \subseteq DOMAIN disk /\ 1 \in Nat \ {0}
    OBVIOUS
  <2>. QED
    BY <1>1, <2>1, OpenedPieces
<1>3. OnDisk' = <<>>
  BY <1>2, NoFiles
<1>4. Placed'
  BY <1>1, <1>2 DEF Placed
<1>5. Gapless' /\ Shown'
  BY <1>1, <1>3, Fresh DEF Gapless, Shown
<1>. QED
  BY <1>4, <1>5 DEF Whereabouts

LEMMA InitWhereabouts == DirInit => Whereabouts
<1>. SUFFICES ASSUME DirInit PROVE Whereabouts
  OBVIOUS
<1>1. /\ number = 1 /\ stuck = <<>> /\ terminal = <<>> /\ handed = <<>>
      /\ \/ stream = "open" /\ disk = [n \in {1} |-> <<>>] /\ opened = 1
         \/ stream = "closed" /\ disk = <<>> /\ opened = 0
  BY DEF DirInit, Init
<1>2. Placed
  <2>1. DOMAIN [n \in {1} |-> <<>>] = {1} /\ 1..1 = {1} /\ 1..0 = {}
    OBVIOUS
  <2>. QED
    BY <1>1, <2>1 DEF Placed
<1>3. OnDisk = <<>>
  <2>1. CASE opened = 0
    BY <2>1, OnDiskIs, NoFiles
  <2>2. CASE opened = 1 /\ disk = [n \in {1} |-> <<>>]
    <3>1. PiecesIn(disk, 0 + 1) = PiecesIn(disk, 0)
      <4>1. disk[0 + 1] = <<>> /\ 0 \in Nat /\ \A m \in 1..0 : disk[m] \in Seq(Pieces)
        BY <2>2
      <4>. QED
        BY <4>1, OneMoreFile
    <3>. QED
      BY <2>2, <3>1, OnDiskIs, NoFiles
  <2>. QED
    BY <1>1, <2>1, <2>2
<1>4. Gapless /\ Shown
  BY <1>1, <1>3, Fresh DEF Gapless, Shown
<1>. QED
  BY <1>2, <1>4, TypedInit DEF Whereabouts

LEMMA WhereaboutsNext == Whereabouts /\ [DirNext]_dirVars => Whereabouts'
<1>. SUFFICES ASSUME Whereabouts, [DirNext]_dirVars PROVE Whereabouts'
  OBVIOUS
<1>1. Typed'
  BY TypedNext DEF Whereabouts
<1>2. CASE DirNext
  BY <1>1, <1>2, LogWhereabouts, CrashInWriteWhereabouts, QuitWhereabouts,
     CrashWhereabouts, RestartWhereabouts
     DEF DirNext
<1>3. CASE UNCHANGED dirVars
  <2>1. OnDisk' = OnDisk
    BY <1>3 DEF dirVars, vars, fileVars, OnDisk
  <2>. QED
    BY <1>1, <1>3, <2>1 DEF dirVars, vars, fileVars, Whereabouts, Placed, Gapless, Shown
<1>. QED
  BY <1>2, <1>3

(* The files of a run hold the first of its lines, whole and in order, and  *)
(* nothing but pieces of the next one after them, whatever fails.           *)
THEOREM GaplessFiles == DirSpec => []GaplessOnDisk
<1>1. Whereabouts => GaplessOnDisk
  BY GaplessSuffices DEF Whereabouts
<1>. QED
  BY InitWhereabouts, WhereaboutsNext, <1>1, PTL DEF DirSpec

(* The terminal is not behind the files. *)
THEOREM TerminalNotBehind == DirSpec => []TerminalAhead
<1>1. Whereabouts => TerminalAhead
  BY DEF Whereabouts, Shown, TerminalAhead
<1>. QED
  BY InitWhereabouts, WhereaboutsNext, <1>1, PTL DEF DirSpec

-------------------------------------------------------------------------------
(* What RollsWhenDue says of the files that were left and of the current,   *)
(* which ends in a whole line as long as the stream is good.                 *)
EndsWhole == stream = "open" => Complete(disk[number]) = disk[number]

RollsInv == RollsWhenDue /\ EndsWhole

LEMMA CompleteEmpty == Complete(<<>>) = <<>>
  BY DEF Complete

LEMMA CompleteAppend ==
  ASSUME NEW file \in Seq(Pieces), NEW p \in Pieces
  PROVE  Complete(Append(file, p)) = IF Whole(p) THEN Append(file, p) ELSE file
<1>1. /\ Append(file, p) # <<>> /\ Append(file, p)[Len(Append(file, p))] = p
  OBVIOUS
<1>. QED
  BY <1>1, FrontOfAppend DEF Complete, Last

LEMMA GoodRolls ==
  ASSUME Typed, Typed', Placed, Placed', RollsInv, NEW l \in Lines, GoodWrite(l)
  PROVE  RollsInv'
<1>. DEFINE w == Width[l]
            e == Extended(l, w)
            old == disk[number]
<1>1. /\ w \in 0..w /\ w \in 1..w /\ w \in Nat /\ number \in Nat \ {0} /\ opened = number
      /\ bytes \in 0..RollSize /\ RollSize \in Nat /\ stream = "open"
  BY WriterAssumption DEF GoodWrite, Typed, StateTyped, Placed
<1>2. number \in DOMAIN disk /\ old \in Seq(Pieces) /\ Piece(l, w) \in Pieces /\ Piece(l, w).got = w
  BY <1>1, WriterAssumption DEF Placed, Typed, DiskTyped, Piece, Pieces
<1>3. /\ DOMAIN e = DOMAIN disk /\ e \in [DOMAIN disk -> Seq(Pieces)]
      /\ \A m \in (DOMAIN disk) \ {number} : e[m] = disk[m]
  BY <1>1, ExtendedTyped DEF Typed
<1>4. e[number] = Append(old, Piece(l, w))
  BY <1>1, <1>2 DEF Extended
<1>5. bytes = Bytes(old)
  BY <1>1 DEF RollsInv, RollsWhenDue
<1>6. /\ Bytes(e[number]) = bytes + w /\ Front(e[number]) = old
      /\ Complete(e[number]) = e[number]
  <2>. HIDE DEF old, e
  <2>1. Bytes(Append(old, Piece(l, w))) = Bytes(old) + w
    BY <1>2, BytesAppend
  <2>2. Front(Append(old, Piece(l, w))) = old
    BY <1>2, FrontOfAppend
  <2>3. Whole(Piece(l, w))
    BY DEF Whole, Piece
  <2>4. Complete(Append(old, Piece(l, w))) = Append(old, Piece(l, w))
    BY <1>2, <2>3, CompleteAppend
  <2>. QED
    BY <1>4, <1>5, <2>1, <2>2, <2>4
<1>. HIDE DEF e, old
<1>7. \A n \in 1..(number - 1) :
        /\ n \in DOMAIN disk /\ e[n] = disk[n]
        /\ Bytes(disk[n]) > RollSize /\ Bytes(Front(disk[n])) <= RollSize
  BY <1>1, <1>3 DEF RollsInv, RollsWhenDue
<1>8. CASE Due(bytes + w)
  <2>1. number' = number + 1 /\ bytes' = 0 /\ Opened(e, number + 1)
    BY <1>8 DEF GoodWrite, RollFile, NextNumber, FreshBytes, e
  <2>2. number + 1 \in Nat \ {0} /\ DOMAIN e \subseteq Nat \ {0} /\ number # number + 1
    BY <1>1, <1>3 DEF Typed, DiskTyped
  <2>3. /\ DOMAIN e \subseteq DOMAIN disk'
        /\ \A m \in (DOMAIN e) \ {number + 1} : disk'[m] = e[m]
    BY <1>3, <2>1, <2>2, OpenedTyped
  <2>4. stream' # "bad" /\ (stream' = "open" => disk'[number + 1] = <<>>)
    BY <2>1 DEF Opened
  <2>5. \A n \in 1..number : n \in DOMAIN disk' /\ disk'[n] = e[n]
    <3>1. 1..number \subseteq DOMAIN e
      BY <1>1, <1>3 DEF Placed
    <3>2. \A n \in 1..number : n # number + 1
      BY <1>1
    <3>. QED
      BY <2>3, <3>1, <3>2
  <2>6. Bytes(e[number]) > RollSize /\ Bytes(Front(e[number])) <= RollSize
    BY <1>1, <1>5, <1>6, <1>8 DEF Due
  <2>7. ASSUME NEW n \in 1..(number' - 1)
        PROVE  /\ n \in DOMAIN disk'
               /\ Bytes(disk'[n]) > RollSize /\ Bytes(Front(disk'[n])) <= RollSize
    <3>1. n \in 1..number /\ (n = number \/ n \in 1..(number - 1))
      BY <1>1, <2>1
    <3>. QED
      BY <1>7, <2>5, <2>6, <3>1
  <2>8. stream' = "open" => bytes' = Bytes(disk'[number'])
    BY <2>1, <2>4, BytesEmpty
  <2>9. EndsWhole'
    BY <2>1, <2>4, CompleteEmpty DEF EndsWhole
  <2>. QED
    BY <2>4, <2>7, <2>8, <2>9 DEF RollsInv, RollsWhenDue
<1>9. CASE ~Due(bytes + w)
  <2>1. disk' = e /\ bytes' = bytes + w /\ number' = number /\ stream' = stream
    BY <1>9 DEF GoodWrite, e
  <2>. QED
    BY <1>1, <1>3, <1>6, <1>7, <2>1 DEF RollsInv, RollsWhenDue, EndsWhole
<1>. QED
  BY <1>8, <1>9

(* A step that rolls no file over and leaves no good stream. *)
LEMMA OtherRolls ==
  ASSUME Typed, RollsInv, number' = number, stream' # "open", Kept,
         DOMAIN disk' = DOMAIN disk,
         stream' = "bad" => bytes' = Bytes(Complete(disk'[number']))
  PROVE  RollsInv'
<1>1. \A n \in 1..(number - 1) : n # number
  BY DEF Typed, StateTyped
<1>. QED
  BY <1>1 DEF RollsInv, RollsWhenDue, EndsWhole, Kept

LEMMA BadRolls ==
  ASSUME Typed, RollsInv, NEW l \in Lines, BadWrite(l), Kept
  PROVE  RollsInv'
<1>1. PICK n \in 0..(Width[l] - 1) : disk' = Extended(l, n)
  BY DEF BadWrite
<1>2. n \in 0..Width[l] /\ n # Width[l]
  BY WriterAssumption
<1>3. DOMAIN disk' = DOMAIN disk
  BY <1>1, <1>2, ExtendedTyped DEF Typed
<1>4. /\ number \in DOMAIN disk /\ disk[number] \in Seq(Pieces)
      /\ bytes = Bytes(disk[number]) /\ Complete(disk[number]) = disk[number]
      /\ stream' = "bad" /\ UNCHANGED <<number, bytes>>
  BY DEF BadWrite, Typed, StateTyped, DiskTyped, IsOpen, RollsInv, RollsWhenDue, EndsWhole
<1>5. Complete(disk'[number]) = disk[number]
  <2>1. CASE n = 0
    BY <1>1, <1>4, <2>1 DEF Extended
  <2>2. CASE n # 0
    <3>. DEFINE p == Piece(l, n)
    <3>1. p \in Pieces /\ ~Whole(p)
      BY <1>2, <2>2, WriterAssumption DEF Piece, Pieces, Whole
    <3>2. disk'[number] = Append(disk[number], p)
      BY <1>1, <1>4, <2>2 DEF Extended
    <3>. HIDE DEF p
    <3>. QED
      BY <1>4, <3>1, <3>2, CompleteAppend
  <2>. QED
    BY <2>1, <2>2
<1>. QED
  BY <1>3, <1>4, <1>5, OtherRolls

LEMMA RollsNext ==
  ASSUME Whereabouts, Whereabouts', RollsInv, [DirNext]_dirVars PROVE RollsInv'
<1>. Typed /\ Placed /\ Typed' /\ Placed'
  BY DEF Whereabouts
<1>1. ASSUME NEW l \in Lines, Log(l) PROVE RollsInv'
  <2>1. Kept
    BY <1>1, WriteStep
  <2>2. CASE GoodWrite(l)
    BY <2>2, GoodRolls
  <2>3. CASE BadWrite(l)
    BY <2>1, <2>3, BadRolls
  <2>4. CASE UNCHANGED fileVars
    BY <2>4 DEF fileVars, RollsInv, RollsWhenDue, EndsWhole
  <2>. QED
    BY <1>1, <2>2, <2>3, <2>4, Writes DEF Log, Write
<1>2. ASSUME NEW l \in Lines, CrashInWrite(l) PROVE RollsInv'
  <2>1. Kept /\ DOMAIN disk' = DOMAIN disk /\ stream' = "gone" /\ number' = number
    BY <1>2, CrashInWriteStep, CrashWrites
  <2>. QED
    BY <2>1, OtherRolls
<1>3. CASE Quit
  <2>1. Kept
    BY <1>3, QuitStep
  <2>2. DOMAIN disk' = DOMAIN disk
    <3>1. CASE stuck = <<>>
      BY <1>3, <3>1 DEF Quit, Destroy
    <3>2. CASE stuck # <<>>
      <4>1. stuck[1] \in Lines
        BY <3>2 DEF Typed, StateTyped
      <4>. QED
        BY <1>3, <3>2, <4>1, ExtendedTyped DEF Quit, Destroy, Typed
    <3>. QED
      BY <3>1, <3>2
  <2>. QED
    BY <1>3, <2>1, <2>2, OtherRolls DEF Quit, Destroy
<1>4. CASE Crash
  BY <1>4 DEF Crash, RollsInv, RollsWhenDue, EndsWhole
<1>5. CASE Restart
  <2>1. number' = 1 /\ bytes' = 0 /\ Opened(disk, 1)
    BY <1>5 DEF Restart
  <2>2. stream' # "bad" /\ (stream' = "open" => disk'[1] = <<>>)
    BY <2>1 DEF Opened
  <2>3. \A n \in 1..(number' - 1) : FALSE
    BY <2>1
  <2>. QED
    BY <2>1, <2>2, <2>3, BytesEmpty, CompleteEmpty DEF RollsInv, RollsWhenDue, EndsWhole
<1>6. CASE UNCHANGED dirVars
  BY <1>6 DEF dirVars, vars, fileVars, RollsInv, RollsWhenDue, EndsWhole
<1>. QED
  BY <1>1, <1>2, <1>3, <1>4, <1>5, <1>6 DEF DirNext

(* A file is left exactly when a line took it past the roll size, and what  *)
(* m_bytesWritten counts is what the current file holds.                    *)
THEOREM RollsExactlyWhenDue == DirSpec => []RollsWhenDue
<1>1. DirInit => RollsInv
  <2>1. \A n \in 1..(1 - 1) : FALSE
    OBVIOUS
  <2>2. [n \in {1} |-> <<>>][1] = <<>>
    OBVIOUS
  <2>. QED
    BY <2>1, <2>2, BytesEmpty, CompleteEmpty
       DEF DirInit, Init, RollsInv, RollsWhenDue, EndsWhole
<1>2. Whereabouts /\ RollsInv /\ [DirNext]_dirVars => (Whereabouts /\ RollsInv)'
  BY WhereaboutsNext, RollsNext
<1>3. RollsInv => RollsWhenDue
  BY DEF RollsInv
<1>. QED
  BY InitWhereabouts, <1>1, <1>2, <1>3, PTL DEF DirSpec
===============================================================================
