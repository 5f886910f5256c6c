------------------------------ MODULE AsyncLogger ------------------------------
(***************************************************************************)
(* The asynchronous logger (asynclogger.cpp) seen without its buffer: the  *)
(* constructor and destructor, run by the owner of the logger, and the     *)
(* worker thread, which calls tryPop() of the buffer and hands each line   *)
(* to FileWriter::write.  QuickLogger and SafeLogger put a buffer under it *)
(* and substitute `adding' by "some thread is inside add()".               *)
(***************************************************************************)
EXTENDS Sequences

VARIABLES
  state,   \* m_state
  wpc,     \* where the worker is in pop()
  dtor,    \* how far the destructor has come
  file,    \* the lines handed to m_writer.write, in order
  pop,     \* the buffer's tryPop(): "called", or its result
  out,     \* the worker's local logline
  adding   \* a thread is inside add()

ownerVars == <<state, dtor>>
workerVars == <<wpc, file>>

Init ==
  /\ state = "INIT"
  /\ wpc = "init"
  /\ dtor = "none"
  /\ file = <<>>

-------------------------------------------------------------------------------
(* Slips that the properties of QuickLogger and SafeLogger catch.  No action *)
(* uses them: to put one in the place of the definition it is named after    *)
(* shows that the property named with it is violated.                        *)

(* ShutdownEnds: the worker waits for READY, which may already be over. *)
StartWhenReady ==
  /\ wpc = "init"
  /\ state = "READY"
  /\ wpc' = "main"
  /\ UNCHANGED <<ownerVars, file, pop, out>>

(* ShutdownKeepsAll, ShutdownKeepsAllUnlessLapped: no drain. *)
MainEndLeaves ==
  /\ wpc = "main"
  /\ state # "READY"
  /\ wpc' = "exited"
  /\ UNCHANGED <<ownerVars, file, pop, out>>

(* PoppedIsWritten: the state is looked at again between the buffer and the *)
(* file.                                                                    *)
WriteWhenReady(here, there) ==
  /\ wpc = here
  /\ pop = "true"
  /\ file' = IF state = "READY" THEN Append(file, out) ELSE file
  /\ pop' = "ready"
  /\ wpc' = there
  /\ UNCHANGED <<ownerVars, out>>

(* EventuallyWritten, EventuallyWrittenUnlessLapped: the worker leaves at the *)
(* first empty poll.                                                          *)
EmptyLeaves(here, there) ==
  /\ wpc = here
  /\ pop = "false"
  /\ pop' = "ready"
  /\ wpc' = "exited"
  /\ UNCHANGED <<ownerVars, file, out>>

-------------------------------------------------------------------------------
(* The owner. *)

(* The constructor's body, after m_thread was started. *)
Construct ==
  /\ state = "INIT"
  /\ state' = "READY"
  /\ UNCHANGED <<dtor, workerVars, pop, out>>

(* The destructor stores SHUTDOWN.  It runs when the last shared_ptr to the *)
(* logger is released, and a thread inside add() holds one.                 *)
Shutdown ==
  /\ state = "READY"
  /\ ~adding
  /\ state' = "SHUTDOWN"
  /\ dtor' = "joining"
  /\ UNCHANGED <<workerVars, pop, out>>

(* m_thread.join(), and then the members are destroyed. *)
Join ==
  /\ dtor = "joining"
  /\ wpc = "exited"
  /\ dtor' = "joined"
  /\ UNCHANGED <<state, workerVars, pop, out>>

-------------------------------------------------------------------------------
(* The worker, AsyncLogger::pop. *)

(* It polls until the constructor is done. *)
Start ==
  /\ wpc = "init"
  /\ state # "INIT"
  /\ wpc' = "main"
  /\ UNCHANGED <<ownerVars, file, pop, out>>

CallTryPop(here, there) ==
  /\ wpc = here
  /\ wpc' = there
  /\ pop' = "called"
  /\ UNCHANGED <<ownerVars, file, out>>

(* while (m_state.load() == READY) *)
MainTry == state = "READY" /\ CallTryPop("main", "mainPop")

MainEnd ==
  /\ wpc = "main"
  /\ state # "READY"
  /\ wpc' = "drain"
  /\ UNCHANGED <<ownerVars, file, pop, out>>

(* while (m_buffer->tryPop(logline)) *)
DrainTry == CallTryPop("drain", "drainPop")

(* tryPop() returned true: m_writer.write(logline), and on with the loop. *)
Write(here, there) ==
  /\ wpc = here
  /\ pop = "true"
  /\ file' = Append(file, out)
  /\ pop' = "ready"
  /\ wpc' = there
  /\ UNCHANGED <<ownerVars, out>>

(* tryPop() returned false: sleep and poll again, or leave. *)
Empty(here, there) ==
  /\ wpc = here
  /\ pop = "false"
  /\ pop' = "ready"
  /\ wpc' = there
  /\ UNCHANGED <<ownerVars, file, out>>

Poll ==
  \/ Start \/ MainTry \/ MainEnd \/ DrainTry
  \/ Empty("mainPop", "main") \/ Empty("drainPop", "exited")
WriteLine == Write("mainPop", "main") \/ Write("drainPop", "drain")

Worker == Poll \/ WriteLine

TypeOK ==
  /\ state \in {"INIT", "READY", "SHUTDOWN"}
  /\ wpc \in {"init", "main", "mainPop", "drain", "drainPop", "exited"}
  /\ dtor \in {"none", "joining", "joined"}
  /\ adding \in BOOLEAN
===============================================================================
