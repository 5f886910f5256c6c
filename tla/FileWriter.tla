------------------------------- MODULE FileWriter -------------------------------
(***************************************************************************)
(* The writer of a logger (filewriter.h): numbered files of one name, the  *)
(* next one opened when the current one has grown past RollSize.  It is    *)
(* used by one thread, the worker, so each of its functions is one action. *)
(* What surrounds it may fail: a file that cannot be opened, a disk that   *)
(* is full in the middle of a line, a process that dies and is started     *)
(* again over the files of its last run.                                   *)
(*                                                                         *)
(* A file is a sequence of pieces, a line and how many bytes of it are     *)
(* there.  Every line ends in std::endl (logline.cpp:314), which flushes,  *)
(* so between two writes a good stream holds nothing back.                 *)
(***************************************************************************)
EXTENDS Integers, SequencesExt

CONSTANTS
  Lines,     \* the lines that may be written
  Width,     \* Width[l]: the bytes of l when formatted
  RollSize,  \* m_rollSize
  Terminal,  \* m_terminalOutput
  Faults     \* what may fail: "open" a file, write to a "stream"

ASSUME WriterAssumption ==
  /\ Width \in [Lines -> Nat \ {0}]
  /\ RollSize \in Nat
  /\ Terminal \in BOOLEAN
  /\ Faults \subseteq {"open", "stream"}

VARIABLES
  disk,      \* the files of this name there are, by number
  number,    \* m_fileNumber
  stream,    \* m_os: "open", "bad" (open, but failed), "closed" (could not be
             \* opened), or "gone" with the writer
  stuck,     \* the line a failed stream still holds, in a sequence, or <<>>
  bytes,     \* m_bytesWritten
  opened,    \* history: the number of the last file this writer could open
  terminal,  \* the lines written to std::cout
  handed     \* history: the lines handed to write()

fileVars == <<disk, number, stream, stuck, bytes, opened>>
vars == <<fileVars, terminal, handed>>

Piece(l, n) == [line |-> l, got |-> n]
Whole(p) == p.got = Width[p.line]

-------------------------------------------------------------------------------
(* Slips that the properties below catch.  No action uses them: to put one   *)
(* in the place of the definition it is named after shows that the property  *)
(* named with it is violated.                                                *)

(* HandedIsSaved: a line ends in "\n", and stays in the stream's buffer. *)
FlushedNever(l) == 0

(* RollsWhenDue: what was written is added without a look at its sign. *)
CountedSigned(written) == bytes + written

(* RolledFilesStay: the number is not incremented before it is used. *)
NextNumberStays == IF number = 0 THEN 1 ELSE number

(* DirTypeOK: the size is compared before the line is counted. *)
DueBefore(b) == bytes > RollSize

(* GaplessOnDisk: the error state is cleared and writing goes on. *)
AfterFailureCleared == "open"

(* TerminalAhead: write() returns early for a failed stream, too. *)
IsOpenAndGood == stream = "open"

-------------------------------------------------------------------------------
(* rollFile() leaves the file and opens the next one, emptying it if it      *)
(* exists.  `files' are those that there are by then.                        *)
NextNumber == number + 1
FreshBytes == 0

Opened(files, n) ==
  \/ /\ stream' = "open"
     /\ opened' = n
     /\ disk' = [m \in DOMAIN files \cup {n} |-> IF m = n THEN <<>> ELSE files[m]]
  \/ /\ "open" \in Faults
     /\ stream' = "closed"
     /\ disk' = files
     /\ opened' = n - 1

RollFile(files) ==
  /\ number' = NextNumber
  /\ bytes' = FreshBytes
  /\ Opened(files, NextNumber)
  /\ UNCHANGED stuck

Init ==
  /\ \/ stream = "open" /\ disk = [n \in {1} |-> <<>>] /\ opened = 1
     \/ "open" \in Faults /\ stream = "closed" /\ disk = <<>> /\ opened = 0
  /\ number = 1
  /\ stuck = <<>>
  /\ bytes = 0
  /\ terminal = <<>>
  /\ handed = <<>>

IsOpen == stream \in {"open", "bad"}
Due(b) == b > RollSize
AfterFailure == "bad"

(* The current file with n more bytes, those of line l. *)
Extended(l, n) ==
  IF n = 0 THEN disk ELSE [disk EXCEPT ![number] = Append(@, Piece(l, n))]

(* LogLine::stringify: what of l has reached the file when it returns. *)
Flushed(l) == Width[l]

(* tellp() of a good stream; NoPosition is that of a failed one. *)
Bytes(file) ==
  LET sum[i \in 0..Len(file)] == IF i = 0 THEN 0 ELSE sum[i - 1] + file[i].got
  IN  sum[Len(file)]
Position == Bytes(disk[number])
NoPosition == -1

(* The end of write(): what tellp() has advanced by is counted, and the file *)
(* rolled over if it is full now.  Up to there the line has left `files', a  *)
(* stream in state s and what it holds.                                      *)
Counted(written) == IF written > 0 THEN bytes + written ELSE bytes

After(files, s, held, written) ==
  LET b == Counted(written) IN
  IF Due(b)
    THEN RollFile(files)
    ELSE /\ disk' = files
         /\ stream' = s
         /\ stuck' = held
         /\ bytes' = b
         /\ UNCHANGED <<number, opened>>

(* The line gets through, ... *)
WriteGood(l) ==
  /\ stream = "open"
  /\ After(Extended(l, Flushed(l)), "open", stuck, Width[l])

(* ... or a part of it does, at most, and tellp() fails from then on, ... *)
WriteBad(l) ==
  /\ stream = "open"
  /\ "stream" \in Faults
  /\ \E n \in 0..(Width[l] - 1) :
       After(Extended(l, n), AfterFailure, <<l>>, NoPosition - Position)

(* ... or nothing, on a stream that has failed. *)
WriteIgnored ==
  /\ stream = "bad"
  /\ After(disk, "bad", stuck, NoPosition - NoPosition)

Displayed(l) == IF Terminal THEN Append(terminal, l) ELSE terminal

(* FileWriter::write *)
Write(l) ==
  /\ stream # "gone"
  /\ handed' = Append(handed, l)
  /\ IF IsOpen
       THEN /\ WriteGood(l) \/ WriteBad(l) \/ WriteIgnored
            /\ terminal' = Displayed(l)
       ELSE UNCHANGED <<fileVars, terminal>>

(* FileWriter::~FileWriter.  close() tries once more to write what a failed *)
(* stream still holds.                                                      *)
Destroy ==
  /\ stream # "gone"
  /\ stream' = "gone"
  /\ IF stuck = <<>>
       THEN UNCHANGED disk
       ELSE \E n \in 0..Width[stuck[1]] : disk' = Extended(stuck[1], n)
  /\ stuck' = <<>>
  /\ UNCHANGED <<number, bytes, opened, terminal, handed>>

-------------------------------------------------------------------------------
(* The type of the variables; a file that is full was left at once. *)
WriterTypeOK ==
  /\ number \in Nat \ {0}
  /\ DOMAIN disk \subseteq Nat \ {0}
  /\ \A n \in DOMAIN disk : \A i \in DOMAIN disk[n] :
       disk[n][i].line \in Lines /\ disk[n][i].got \in 1..Width[disk[n][i].line]
  /\ stream \in {"open", "bad", "closed", "gone"}
  /\ stuck \in {<<>>} \cup {<<l>> : l \in Lines}
  /\ bytes \in 0..RollSize
  /\ opened \in 0..number
  /\ terminal \in Seq(Lines)
  /\ handed \in Seq(Lines)

(* What this writer has left in its files, in the order of their numbers. *)
OnDisk == FlattenSeq([n \in 1..opened |-> disk[n]])
===============================================================================
