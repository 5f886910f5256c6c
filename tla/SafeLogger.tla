------------------------------- MODULE SafeLogger -------------------------------
(***************************************************************************)
(* A logger in Safe mode: AsyncLogger between a QueueBuffer and a          *)
(* FileWriter, from its construction to the end of its destructor.  The    *)
(* producers log while the logger lives; the worker is the consumer of the *)
(* queue and the only user of the writer, whose files cannot fail here.    *)
(***************************************************************************)
EXTENDS QueueBuffer

CONSTANT RollSize   \* of the writer, in lines

ASSUME SafeAssumption == RollSize \in Nat

VARIABLES
  state, wpc, dtor, file,                                \* see AsyncLogger
  disk, number, stream, stuck, bytes, opened, terminal   \* see FileWriter

Logger == INSTANCE AsyncLogger WITH
  adding <- \E p \in Producers : pc[p] # "idle"

Writer == INSTANCE FileWriter WITH
  Width <- [l \in Lines |-> 1], Terminal <- FALSE, Faults <- {}, handed <- file

writerVars == <<disk, number, stream, stuck, bytes, opened, terminal>>
loggerVars == <<state, wpc, dtor, file, writerVars>>
safeVars == <<vars, loggerVars>>

SafeInit == Init /\ Logger!Init /\ Writer!Init

(* AsyncLogger::add, on a logger that was constructed and whose destructor *)
(* has not begun.                                                          *)
Add(p) ==
  /\ state = "READY"
  /\ Claim(p)
  /\ UNCHANGED loggerVars

AddStep(p) == PushStep(p) /\ UNCHANGED loggerVars

ConsumerStep == TryPop /\ UNCHANGED loggerVars

(* The logger's own threads stop with the process. *)
QueueUnchanged ==
  /\ "fault" \notin damage
  /\ UNCHANGED <<bufferVars, producerVars, readBuffer, readIndex, popped, damage, failed>>

WorkerStep ==
  /\ \/ Logger!Poll /\ UNCHANGED writerVars
     \/ Logger!WriteLine /\ Writer!Write(out)
  /\ QueueUnchanged

LoggerReady == Logger!Construct /\ QueueUnchanged /\ UNCHANGED writerVars
LoggerShutdown == Logger!Shutdown /\ QueueUnchanged /\ UNCHANGED writerVars

(* After m_thread, m_writer is destroyed. *)
LoggerJoin == Logger!Join /\ QueueUnchanged /\ Writer!Destroy

SafeNext ==
  \/ \E p \in Producers : Add(p) \/ AddStep(p)
  \/ ConsumerStep \/ WorkerStep
  \/ LoggerReady \/ LoggerShutdown \/ LoggerJoin

(* Threads keep running.  Logging and destroying the logger are up to the   *)
(* user.  m_flag is free again and again while the consumer looks for a     *)
(* Buffer to read, which it does in between sleeps of 50 us; and a producer *)
(* that waits for the index to be reset sees it below Size.                 *)
SafeFairness ==
  /\ \A p \in Producers :
       /\ WF_safeVars(AddStep(p))
       /\ SF_safeVars((WaitOver(p) \/ SetupLock(p)) /\ UNCHANGED loggerVars)
  /\ WF_safeVars(ConsumerStep)
  /\ WF_safeVars(WorkerStep)
  /\ WF_safeVars(LoggerReady)
  /\ WF_safeVars(LoggerJoin)

SafeSpec == SafeInit /\ [][SafeNext]_safeVars /\ SafeFairness

-------------------------------------------------------------------------------
(* Type invariant. *)
SafeTypeOK ==
  /\ TypeOK
  /\ Logger!TypeOK
  /\ Writer!WriterTypeOK

(* README.md:8 and :15:  the Safe mode never loses a line.  When the        *)
(* destructor is through, the worker's two loops have handed every line that *)
(* was logged to the writer, wherever SHUTDOWN caught them, each once, and   *)
(* the lines of a thread in the order it logged them.                        *)
ShutdownKeepsAll ==
  dtor = "joined" =>
    /\ Range(file) = Logged
    /\ IsInjective(file)
    /\ \A i, j \in DOMAIN file :
         i < j /\ file[i][1] = file[j][1] => file[i][2] < file[j][2]

(* The files hold the lines that were handed to the writer, whole and in     *)
(* that order, across their roll-overs: at every moment, so that a line that *)
(* write() has returned from needs no destructor, and at the end.            *)
Saved == [i \in DOMAIN Writer!OnDisk |-> Writer!OnDisk[i].line]
HandedIsSaved ==
  /\ Saved = file
  /\ \A i \in DOMAIN Saved : Writer!Whole(Writer!OnDisk[i])

(* A line that was logged reaches the disk while the logger is running,     *)
(* until an allocation has failed; once it has been published it does even *)
(* then.                                                                   *)
EventuallyWritten ==
  \A l \in Lines :
    /\ l \in Logged ~> l \in Range(Saved) \/ failed
    /\ l \in Stored ~> l \in Range(Saved)

(* add() returns: no producer spins for ever on a full Buffer or the lock. *)
(* When an allocation has failed, the only ones that do are those that wait *)
(* for the Buffer nobody will install.                                     *)
AddReturns ==
  \A p \in Producers :
    pc[p] # "idle" ~> pc[p] = "idle" \/ (failed /\ pc[p] = "waiting")

(* The destructor returns. *)
ShutdownEnds == dtor = "joining" ~> dtor = "joined"
===============================================================================
