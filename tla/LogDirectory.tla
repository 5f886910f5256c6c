------------------------------ MODULE LogDirectory ------------------------------
(***************************************************************************)
(* The log files of one name over several runs of the program: each run    *)
(* makes a FileWriter of that name, which numbers its files from 1 and     *)
(* empties those it opens; the run ends with the writer's destructor, or   *)
(* the process dies, between two calls of the writer or inside write().    *)
(* No other logger has that name.  A line is its width and its place among *)
(* the lines of the run.                                                   *)
(***************************************************************************)
EXTENDS FileWriter

CONSTANTS
  Widths,     \* the widths of lines
  MaxWrites,  \* bound: the lines a run hands to the writer
  MaxRuns     \* bound: the number of runs

ASSUME DirectoryAssumption ==
  /\ Lines = Widths \X (1..MaxWrites)
  /\ \A l \in Lines : Width[l] = l[1]
  /\ MaxWrites \in Nat
  /\ MaxRuns \in Nat \ {0}

VARIABLE run   \* the number of this run

dirVars == <<vars, run>>

DirInit == Init /\ run = 1

(* The worker hands a line to the writer. *)
IsNext(l) == l[2] = Len(handed) + 1

Log(l) ==
  /\ IsNext(l)
  /\ Write(l)
  /\ UNCHANGED run

Quit == Destroy /\ UNCHANGED run

(* The process dies; what a stream holds back is lost with it. *)
Crash ==
  /\ stream # "gone"
  /\ stream' = "gone"
  /\ stuck' = <<>>
  /\ UNCHANGED <<disk, number, bytes, opened, terminal, handed, run>>

(* It dies in the middle of a write: before the terminal shows the line, or  *)
(* after it does, with any part of the line in a file whose stream was good. *)
CrashInWrite(l) ==
  /\ IsNext(l)
  /\ IsOpen
  /\ handed' = Append(handed, l)
  /\ \/ UNCHANGED <<terminal, disk>>
     \/ /\ terminal' = Displayed(l)
        /\ \E n \in 0..(IF stream = "open" THEN Width[l] ELSE 0) : disk' = Extended(l, n)
  /\ stream' = "gone"
  /\ stuck' = <<>>
  /\ UNCHANGED <<number, bytes, opened, run>>

(* The next run's FileWriter::FileWriter: m_fileNumber(0), and rollFile(). *)
Restart ==
  /\ stream = "gone"
  /\ run < MaxRuns
  /\ run' = run + 1
  /\ number' = 1
  /\ bytes' = 0
  /\ stuck' = <<>>
  /\ terminal' = <<>>
  /\ handed' = <<>>
  /\ Opened(disk, 1)

DirNext ==
  \/ \E l \in Lines : Log(l) \/ CrashInWrite(l)
  \/ Quit \/ Crash \/ Restart

DirSpec == DirInit /\ [][DirNext]_dirVars

-------------------------------------------------------------------------------
(* Type invariant. *)
DirTypeOK == WriterTypeOK /\ run \in 1..MaxRuns

(* What is on disk of the lines of this run are the first ones handed to    *)
(* write(), in order, whole, none twice and none missing, across all its    *)
(* files and whatever failed; all of them while the stream is good, so that *)
(* a process that dies loses no line that write() has returned from.  After *)
(* a failure the only pieces that follow are of the line it hit.            *)
GaplessOnDisk ==
  LET pieces == OnDisk
      k == CHOOSE j \in 0..Len(pieces) :
             /\ \A i \in 1..j : Whole(pieces[i])
             /\ j < Len(pieces) => ~Whole(pieces[j + 1])
  IN /\ k <= Len(handed)
     /\ \A i \in 1..k : pieces[i].line = handed[i]
     /\ \A i \in (k + 1)..Len(pieces) :
          k < Len(handed) /\ pieces[i].line = handed[k + 1]
     /\ stream = "open" => k = Len(handed) /\ k = Len(pieces)

(* A file is left for the next one exactly when its last line took it past  *)
(* the roll size, and m_bytesWritten is the size of the file being written:  *)
(* of its whole lines, once the stream has failed.                           *)
Complete(file) ==
  IF file # <<>> /\ ~Whole(Last(file)) THEN Front(file) ELSE file
RollsWhenDue ==
  /\ \A n \in 1..(number - 1) :
       /\ n \in DOMAIN disk
       /\ Bytes(disk[n]) > RollSize
       /\ Bytes(Front(disk[n])) <= RollSize
  /\ stream = "open" => bytes = Bytes(disk[number])
  /\ stream = "bad" => bytes = Bytes(Complete(disk[number]))

(* A step adds to the file being written or opens the next one: files that *)
(* were rolled over are never touched again in that run, and a restart     *)
(* destroys the files of earlier runs only one by one, as it reaches their *)
(* number.                                                                 *)
RolledFilesStay ==
  [][/\ \A n \in (DOMAIN disk) \ {number, number'} : disk'[n] = disk[n]
     /\ stream # "gone" /\ number \in DOMAIN disk =>
          IsPrefix(disk[number], disk'[number])]_dirVars

(* The terminal shows what was handed to write() up to the first file that  *)
(* could not be opened, also the lines a failed stream has dropped: nothing *)
(* is in the files of this run that was not shown.                          *)
TerminalAhead ==
  Terminal =>
    /\ IsPrefix(terminal, handed)
    /\ stream \in {"open", "bad"} => terminal = handed
    /\ \A i \in DOMAIN OnDisk : \E j \in DOMAIN terminal :
         terminal[j] = OnDisk[i].line
===============================================================================
