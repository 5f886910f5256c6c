------------------------------ MODULE QuickLogger ------------------------------
(***************************************************************************)
(* A logger in Quick mode: AsyncLogger over a RingBuffer, from its         *)
(* construction to the end of its destructor.  The producers log while the *)
(* logger lives; the worker is the consumer of the ring.                   *)
(***************************************************************************)
EXTENDS RingBuffer

VARIABLES state, wpc, dtor, file

Logger == INSTANCE AsyncLogger WITH
  adding <- \E p \in Producers : pc[p] # "idle"

loggerVars == <<state, wpc, dtor, file>>
quickVars == <<vars, loggerVars>>

QuickInit == Init /\ Logger!Init

(* AsyncLogger::add, on a logger that was constructed and whose destructor *)
(* has not begun.                                                          *)
Add(p) ==
  /\ state = "READY"
  /\ Claim(p)
  /\ UNCHANGED loggerVars

AddStep(p) ==
  /\ PushLock(p) \/ PushMove(p) \/ PushMark(p) \/ PushUnlock(p)
  /\ UNCHANGED loggerVars

ConsumerStep == TryPop /\ UNCHANGED loggerVars

RingUnchanged ==
  UNCHANGED <<writeIndex, readIndex, flag, written, logline, producerVars,
              item, popped, overwritten>>

WorkerStep == Logger!Worker /\ RingUnchanged
LoggerReady == Logger!Construct /\ RingUnchanged
LoggerShutdown == Logger!Shutdown /\ RingUnchanged
LoggerJoin == Logger!Join /\ RingUnchanged

QuickNext ==
  \/ \E p \in Producers : Add(p) \/ AddStep(p)
  \/ ConsumerStep \/ WorkerStep
  \/ LoggerReady \/ LoggerShutdown \/ LoggerJoin

(* Threads keep running.  Logging and destroying the logger are up to the   *)
(* user.  The lock of an item is free again and again while the consumer    *)
(* polls it; a producer that spins on it gets it because the worker sleeps  *)
(* 50 us, outside the lock, after each unsuccessful poll.                   *)
QuickFairness ==
  /\ \A p \in Producers :
       /\ WF_quickVars(AddStep(p))
       /\ SF_quickVars(PushLock(p) /\ UNCHANGED loggerVars)
  /\ WF_quickVars(ConsumerStep)
  /\ WF_quickVars(WorkerStep)
  /\ WF_quickVars(LoggerReady)
  /\ WF_quickVars(LoggerJoin)

QuickSpec == QuickInit /\ [][QuickNext]_quickVars /\ QuickFairness

-------------------------------------------------------------------------------
(* Type invariant. *)
QuickTypeOK ==
  /\ TypeOK
  /\ Logger!TypeOK
  /\ file \in Seq(Lines)

(* When the destructor is through, every line that was logged is in the     *)
(* file, in the order of the fetch_adds, if the reader was never lapped:    *)
(* the worker's two loops leave no line behind, wherever SHUTDOWN catches   *)
(* them.                                                                    *)
ShutdownKeepsAllUnlessLapped == dtor = "joined" /\ ~lapped => file = claimed

(* Every line taken from the ring is written to the file, once and in order, *)
(* before the logger is gone: the worker drops no line between the buffer    *)
(* and the file.                                                             *)
PoppedIsWritten == dtor = "joined" => file = popped

(* While the reader has not been lapped, a line that was logged reaches the *)
(* file without any further line being logged.                              *)
EventuallyWrittenUnlessLapped ==
  \A l \in Lines : l \in Logged ~> (l \in Range(file) \/ lapped)

(* add() returns, whatever the worker and the other producers do. *)
AddReturns == \A p \in Producers : pc[p] # "idle" ~> pc[p] = "idle"

(* The destructor returns: join() waits for the rest of the ring at most. *)
ShutdownEnds == dtor = "joining" ~> dtor = "joined"

(* README.md:15: the destructor drains the lines left in the buffer. *)
ShutdownDrains == dtor = "joined" => Stored = {}
===============================================================================
