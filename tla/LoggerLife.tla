------------------------------- MODULE LoggerLife -------------------------------
(***************************************************************************)
(* What AsyncLogger relies on and the users of loggers promise: a logger   *)
(* is made once, threads are inside its add() only while it lives, and its *)
(* destructor runs once, when nobody is inside add() any more.  QuickLogger *)
(* and SafeLogger assume it (`adding' of AsyncLogger); Registry is shown   *)
(* to implement it.                                                        *)
(***************************************************************************)
CONSTANTS Loggers, Threads

VARIABLES
  phase,   \* phase[l]: "none", "live", "dying" (in its destructor), or "dead"
  inside   \* inside[l]: the threads in Logger::add of l

lifeVars == <<phase, inside>>

Init ==
  /\ phase = [l \in Loggers |-> "none"]
  /\ inside = [l \in Loggers |-> {}]

(* Logger::Logger *)
Make(l) ==
  /\ phase[l] = "none"
  /\ phase' = [phase EXCEPT ![l] = "live"]
  /\ UNCHANGED inside

(* Logger::add, the call and the return. *)
Enter(l, t) ==
  /\ phase[l] = "live"
  /\ inside' = [inside EXCEPT ![l] = @ \cup {t}]
  /\ UNCHANGED phase

Leave(l, t) ==
  /\ t \in inside[l]
  /\ inside' = [inside EXCEPT ![l] = @ \ {t}]
  /\ UNCHANGED phase

(* Logger::~Logger, from its call to its return.  One step may drop several *)
(* loggers.                                                                 *)
Retire(gone) ==
  /\ \A l \in gone : phase[l] = "live" /\ inside[l] = {}
  /\ phase' = [l \in Loggers |-> IF l \in gone THEN "dying" ELSE phase[l]]
  /\ UNCHANGED inside

Destroy(l) ==
  /\ phase[l] = "dying"
  /\ phase' = [phase EXCEPT ![l] = "dead"]
  /\ UNCHANGED inside

Next ==
  \/ \E l \in Loggers : Make(l) \/ Destroy(l)
  \/ \E l \in Loggers, t \in Threads : Enter(l, t) \/ Leave(l, t)
  \/ \E gone \in SUBSET Loggers : Retire(gone)

Spec == Init /\ [][Next]_lifeVars
===============================================================================
