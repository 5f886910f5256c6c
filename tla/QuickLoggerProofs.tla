--------------------------- MODULE QuickLoggerProofs ---------------------------
(***************************************************************************)
(* Proofs about QuickLogger for any number of producers, lines and items:  *)
(* what the worker's loops and the destructor make of what the ring gives. *)
(***************************************************************************)
EXTENDS QuickLogger, RingBufferProofs

(* Every step is one of the ring, or the worker takes the answer of tryPop. *)
Taken == pop \in {"true", "false"} /\ pop' = "ready" /\ out' = out /\ RingUnchanged

LEMMA TakenTyped == ASSUME Typed, Taken PROVE Typed'
<1>1. pop' \in {"ready", "called", "locked", "moved", "cleared", "true", "false"}
  BY DEF Taken
<1>2. UNCHANGED <<writeIndex, readIndex, flag, written, logline, pc, index, ticket, pushed,
                  claimed, lapped, item, out, popped, overwritten>>
  BY DEF Taken, RingUnchanged, producerVars
<1>. QED
  BY <1>1, <1>2 DEF Typed, TypeOK, Started

LEMMA TakenRing == ASSUME RingInv, Taken PROVE RingInv' /\ Quiet
<1>1. UNCHANGED <<writeIndex, readIndex, flag, written, logline, pc, index, ticket, pushed,
                  claimed, lapped, item, out, popped, overwritten>>
  BY DEF Taken, RingUnchanged, producerVars
<1>2. \A s \in Slots : Readable(s)' = Readable(s)
  BY <1>1 DEF Taken, Readable
<1>3. Logged' = Logged /\ InTransit' = InTransit /\ Stored' = Stored
  BY <1>1, <1>2 DEF Logged, InTransit, Stored, Line
<1>4. Exclusive'
  BY <1>1 DEF Taken, RingInv, Exclusive, InItem, PopInItem
<1>5. Distinct'
  BY <1>1, <1>2, <1>3 DEF RingInv, Distinct, ReadableLogged, ReadableOnce, MovedHere,
                          NotYetMoved, MovedOnlyHere, Line
<1>6. Accounted'
  BY <1>1, <1>3 DEF RingInv, Accounted
<1>. QED
  BY <1>1, <1>3, <1>4, <1>5, <1>6, TakenTyped DEF RingInv, Quiet, Pending

LEMMA TakenOrder == ASSUME OrderInv, Taken PROVE OrderInv'
<1>1. UNCHANGED <<writeIndex, readIndex, flag, written, logline, pc, index, ticket, pushed,
                  claimed, lapped, item, out, popped, overwritten>>
  BY DEF Taken, RingUnchanged, producerVars
<1>2. \A s \in Slots : Readable(s)' = Readable(s)
  BY <1>1 DEF Taken, Readable
<1>3. RingInv' /\ SizeDivides'
  BY TakenRing DEF OrderInv, SizeDivides
<1>4. Indices'
  BY <1>1 DEF Taken, OrderInv, Indices
<1>5. Tickets'
  BY <1>1 DEF OrderInv, Tickets, Logged, Line
<1>6. ~lapped' => LastLap'
  BY <1>1, <1>2 DEF OrderInv, LastLap, Waits, Moving
<1>. QED
  BY <1>3, <1>4, <1>5, <1>6 DEF OrderInv

-------------------------------------------------------------------------------
(* Who is where: the worker waits for tryPop() exactly while it is in its     *)
(* two loops' calls, and nobody is inside add() once SHUTDOWN is stored.      *)
Idle == \A p \in Producers : pc[p] = "idle"

Phases ==
  /\ state \in {"INIT", "READY", "SHUTDOWN"}
  /\ wpc \in {"init", "main", "mainPop", "drain", "drainPop", "exited"}
  /\ dtor \in {"none", "joining", "joined"}
  /\ wpc \in {"mainPop", "drainPop"} <=> pop # "ready"
  /\ state # "READY" => Idle
  /\ wpc \in {"drain", "drainPop", "exited"} => state = "SHUTDOWN"
  /\ state = "INIT" => wpc = "init"
  /\ dtor # "none" => state = "SHUTDOWN"
  /\ dtor = "joined" => wpc = "exited"

(* The file is what was popped, up to the line the worker has in its hands.  *)
InHand == pop \in {"moved", "cleared", "true"}

Kept ==
  /\ file \in Seq(Lines)
  /\ ~InHand => popped = file
  /\ InHand => out \in Lines /\ popped = Append(file, out)

QuickInv == RingInv /\ Phases /\ Kept

(* The drain believes the first FALSE. *)
Drained ==
  ~lapped /\ (wpc = "exited" \/ (wpc = "drainPop" /\ pop = "false")) => Stored = {}

DrainInv == QuickInv /\ OrderInv /\ Drained

-------------------------------------------------------------------------------
(* A step of the logger, seen from the ring. *)
LEMMA RingSide ==
  ASSUME Phases, [QuickNext]_quickVars
  PROVE  [Next]_vars \/ Taken
<1>1. ASSUME NEW p \in Producers, Add(p) \/ AddStep(p) PROVE [Next]_vars
  BY <1>1 DEF Add, AddStep, Next, Produce
<1>2. CASE ConsumerStep
  BY <1>2 DEF ConsumerStep, Next
<1>3. CASE WorkerStep
  BY <1>3 DEF WorkerStep, RingUnchanged, Logger!Worker, Logger!Poll, Logger!WriteLine,
     Logger!Start, Logger!MainTry, Logger!DrainTry, Logger!CallTryPop, Logger!MainEnd,
     Logger!Write, Logger!Empty, Phases, Taken, Next, PopCall, vars, consumerVars
<1>4. CASE LoggerReady \/ LoggerShutdown \/ LoggerJoin
  BY <1>4 DEF LoggerReady, LoggerShutdown, LoggerJoin, RingUnchanged, Logger!Construct,
     Logger!Shutdown, Logger!Join, vars, consumerVars
<1>5. CASE UNCHANGED quickVars
  BY <1>5 DEF quickVars
<1>. QED
  BY <1>1, <1>2, <1>3, <1>4, <1>5 DEF QuickNext

(* A line that is moved out of the ring is one that was pushed. *)
LEMMA MovedIsLine == ASSUME RingInv, PopMove PROVE out' \in Lines
<1>1. Readable(item)
  BY DEF PopMove, Readable
<1>2. item \in Slots
  BY DEF RingInv, Typed, TypeOK
<1>3. logline[item] \in Stored
  BY <1>1, <1>2 DEF Stored
<1>. QED
  BY <1>3 DEF RingInv, Accounted, Logged, PopMove

LEMMA QuickInvInit == QuickInit => QuickInv
<1>. SUFFICES ASSUME QuickInit PROVE QuickInv
  OBVIOUS
<1>1. RingInv
  BY RingInvInit DEF QuickInit
<1>2. Phases
  BY DEF QuickInit, Init, Logger!Init, Phases, Idle
<1>3. Kept
  BY DEF QuickInit, Init, Logger!Init, Kept, InHand
<1>. QED
  BY <1>1, <1>2, <1>3 DEF QuickInv

(* The phases, step by step. *)
LEMMA PhasesNext == ASSUME QuickInv, [QuickNext]_quickVars PROVE Phases'
<1>. USE DEF Phases, Idle
<1>. Phases /\ pc \in [Producers -> {"idle", "claimed", "locked", "moved", "marked"}]
  BY DEF QuickInv, RingInv, Typed, TypeOK
<1>1. ASSUME NEW p \in Producers, Add(p) PROVE Phases'
  BY <1>1 DEF Add, Claim, loggerVars, consumerVars
<1>2. ASSUME NEW p \in Producers, AddStep(p) PROVE Phases'
  <2>1. state = "READY" /\ pop' = pop /\ UNCHANGED loggerVars
    BY <1>2 DEF AddStep, PushLock, PushMove, PushMark, PushUnlock, consumerVars
  <2>. QED
    BY <2>1 DEF loggerVars
<1>3. CASE ConsumerStep
  <2>1. pop # "ready" /\ pop' # "ready" /\ pc' = pc /\ UNCHANGED loggerVars
    BY <1>3 DEF ConsumerStep, TryPop, PopLock, PopMove, PopClear, PopTrue, PopFalse, producerVars
  <2>. QED
    BY <2>1 DEF loggerVars
<1>4. CASE WorkerStep
  <2>1. pc' = pc
    BY <1>4 DEF WorkerStep, RingUnchanged, producerVars
  <2>. QED
    BY <1>4, <2>1 DEF WorkerStep, Logger!Worker, Logger!Poll, Logger!WriteLine, Logger!Start,
       Logger!MainTry, Logger!DrainTry, Logger!CallTryPop, Logger!MainEnd, Logger!Write,
       Logger!Empty, Logger!ownerVars
<1>5. CASE LoggerReady \/ LoggerShutdown \/ LoggerJoin
  <2>1. pc' = pc
    BY <1>5 DEF LoggerReady, LoggerShutdown, LoggerJoin, RingUnchanged, producerVars
  <2>. QED
    BY <1>5, <2>1 DEF LoggerReady, LoggerShutdown, LoggerJoin, Logger!Construct,
       Logger!Shutdown, Logger!Join, Logger!workerVars
<1>6. CASE UNCHANGED quickVars
  BY <1>6 DEF quickVars, vars, producerVars, consumerVars, loggerVars
<1>. QED
  BY <1>1, <1>2, <1>3, <1>4, <1>5, <1>6 DEF QuickNext

(* The file follows the lines that come out of the ring. *)
LEMMA KeptNext == ASSUME QuickInv, [QuickNext]_quickVars PROVE Kept'
<1>. USE DEF Kept, InHand
<1>. Kept /\ Phases
  BY DEF QuickInv
<1>1. ASSUME UNCHANGED <<file, popped, out>>, InHand' = InHand PROVE Kept'
  BY <1>1
<1>2. ASSUME NEW p \in Producers, Add(p) \/ AddStep(p) PROVE Kept'
  <2>1. UNCHANGED <<file, popped, out, pop>>
    BY <1>2 DEF Add, AddStep, Claim, PushLock, PushMove, PushMark, PushUnlock, loggerVars,
                consumerVars
  <2>. QED
    BY <2>1, <1>1
<1>3. CASE ConsumerStep
  <2>1. CASE PopMove
    <3>1. out' \in Lines
      BY <2>1, MovedIsLine DEF QuickInv
    <3>. QED
      BY <1>3, <2>1, <3>1 DEF PopMove, ConsumerStep, loggerVars
  <2>2. CASE PopLock \/ PopClear \/ PopTrue \/ PopFalse
    <3>1. UNCHANGED <<file, popped, out>>
      BY <1>3, <2>2 DEF ConsumerStep, PopLock, PopClear, PopTrue, PopFalse, loggerVars
    <3>2. InHand' = InHand
      BY <2>2 DEF PopLock, PopClear, PopTrue, PopFalse
    <3>. QED
      BY <1>1, <3>1, <3>2
  <2>. QED
    BY <1>3, <2>1, <2>2 DEF ConsumerStep, TryPop
<1>4. CASE WorkerStep
  <2>1. popped' = popped
    BY <1>4 DEF WorkerStep, RingUnchanged
  <2>2. CASE Logger!WriteLine
    <3>1. file' = Append(file, out) /\ pop = "true" /\ pop' = "ready"
      BY <2>2 DEF Logger!WriteLine, Logger!Write
    <3>. QED
      BY <2>1, <3>1
  <2>3. CASE Logger!Poll
    <3>1. UNCHANGED <<file, out>>
      BY <2>3 DEF Logger!Poll, Logger!Start, Logger!MainTry, Logger!DrainTry,
         Logger!CallTryPop, Logger!MainEnd, Logger!Empty
    <3>2. ~InHand /\ ~InHand'
      BY <2>3 DEF Logger!Poll, Logger!Start, Logger!MainTry, Logger!DrainTry,
         Logger!CallTryPop, Logger!MainEnd, Logger!Empty, Phases
    <3>. QED
      BY <1>1, <2>1, <3>1, <3>2
  <2>. QED
    BY <1>4, <2>2, <2>3 DEF WorkerStep, Logger!Worker
<1>5. CASE LoggerReady \/ LoggerShutdown \/ LoggerJoin
  <2>1. UNCHANGED <<file, popped, out, pop>>
    BY <1>5 DEF LoggerReady, LoggerShutdown, LoggerJoin, RingUnchanged, Logger!Construct,
       Logger!Shutdown, Logger!Join, Logger!workerVars
  <2>. QED
    BY <1>1, <2>1
<1>6. CASE UNCHANGED quickVars
  BY <1>1, <1>6 DEF quickVars, vars, consumerVars, loggerVars
<1>. QED
  BY <1>2, <1>3, <1>4, <1>5, <1>6 DEF QuickNext

LEMMA QuickInvNext == QuickInv /\ [QuickNext]_quickVars => QuickInv'
<1>. SUFFICES ASSUME QuickInv, [QuickNext]_quickVars PROVE QuickInv'
  OBVIOUS
<1>1. RingInv'
  BY RingSide, RingInvNext, TakenRing DEF QuickInv
<1>. QED
  BY <1>1, PhasesNext, KeptNext DEF QuickInv

(* The logger's variables keep their types. *)
THEOREM QuickTypeCorrect == QuickSpec => []QuickTypeOK
<1>1. QuickInv => QuickTypeOK
  BY DEF QuickInv, RingInv, Typed, Phases, Kept, QuickTypeOK, Logger!TypeOK
<1>. QED
  BY QuickInvInit, QuickInvNext, <1>1, PTL DEF QuickSpec

(* The worker drops no line between the ring and the file, and makes none up. *)
THEOREM EveryPoppedLineIsWritten == QuickSpec => []PoppedIsWritten
<1>1. QuickInv => PoppedIsWritten
  BY DEF QuickInv, Phases, Kept, InHand, PoppedIsWritten
<1>. QED
  BY QuickInvInit, QuickInvNext, <1>1, PTL DEF QuickSpec

-------------------------------------------------------------------------------
(* Once nobody is inside add(), FALSE means that the ring is empty; ...       *)
LEMMA FalseIsEmpty ==
  ASSUME OrderInv, Idle, PopFalse, ~lapped
  PROVE  Stored = {}
<1>1. InTransit = {}
  BY DEF Idle, InTransit
<1>. QED
  BY <1>1, FalseStep

(* ... and nothing fills it again. *)
LEMMA StaysEmpty ==
  ASSUME UNCHANGED <<written, logline>>, Stored = {}, ~(pop = "moved") PROVE Stored' = {}
  BY DEF Stored, Readable

LEMMA DrainedNext == ASSUME DrainInv, [QuickNext]_quickVars PROVE Drained'
<1>. SUFFICES ASSUME ~lapped', wpc' = "exited" \/ (wpc' = "drainPop" /\ pop' = "false")
             PROVE  Stored' = {}
  BY DEF Drained
<1>. Phases /\ Drained /\ OrderInv
  BY DEF DrainInv, QuickInv
<1>1. ASSUME NEW p \in Producers, Add(p) \/ AddStep(p) PROVE FALSE
  <2>1. wpc' = wpc /\ state = "READY"
    BY <1>1 DEF Add, AddStep, PushLock, PushMove, PushMark, PushUnlock, loggerVars, Phases, Idle
  <2>. QED
    BY <2>1 DEF Phases
<1>2. CASE ConsumerStep
  <2>1. wpc' = wpc /\ pop # "ready" /\ lapped' = lapped
    BY <1>2 DEF ConsumerStep, TryPop, PopLock, PopMove, PopClear, PopTrue, PopFalse,
                loggerVars, producerVars
  <2>2. PopFalse /\ Idle
    BY <1>2, <2>1 DEF ConsumerStep, TryPop, PopLock, PopMove, PopClear, PopTrue, Phases
  <2>3. Stored = {}
    BY <2>1, <2>2, FalseIsEmpty
  <2>. QED
    BY <2>2, <2>3, StaysEmpty DEF PopFalse
<1>3. CASE WorkerStep
  <2>1. UNCHANGED <<written, logline, lapped>>
    BY <1>3 DEF WorkerStep, RingUnchanged, producerVars
  <2>2. wpc = "exited" \/ (wpc = "drainPop" /\ pop = "false")
    BY <1>3 DEF WorkerStep, Logger!Worker, Logger!Poll, Logger!WriteLine, Logger!Start,
       Logger!MainTry, Logger!DrainTry, Logger!CallTryPop, Logger!MainEnd, Logger!Write,
       Logger!Empty
  <2>3. pop # "moved"
    BY <2>2 DEF Phases
  <2>. QED
    BY <2>1, <2>2, <2>3, StaysEmpty DEF Drained
<1>4. CASE LoggerReady \/ LoggerShutdown \/ LoggerJoin
  <2>1. UNCHANGED <<written, logline, lapped, wpc, pop>>
    BY <1>4 DEF LoggerReady, LoggerShutdown, LoggerJoin, RingUnchanged, Logger!Construct,
       Logger!Shutdown, Logger!Join, Logger!workerVars, producerVars
  <2>2. pop # "moved"
    BY <2>1 DEF Phases
  <2>. QED
    BY <2>1, <2>2, StaysEmpty DEF Drained
<1>5. CASE UNCHANGED quickVars
  <2>1. UNCHANGED <<written, logline, lapped, wpc, pop>>
    BY <1>5 DEF quickVars, vars, producerVars, consumerVars, loggerVars
  <2>2. pop # "moved"
    BY <2>1 DEF Phases
  <2>. QED
    BY <2>1, <2>2, StaysEmpty DEF Drained
<1>. QED
  BY <1>1, <1>2, <1>3, <1>4, <1>5 DEF QuickNext

LEMMA DrainInvInit == QuickInit /\ SizeDivides => DrainInv
<1>. SUFFICES ASSUME QuickInit, SizeDivides PROVE DrainInv
  OBVIOUS
<1>1. Drained
  BY DEF QuickInit, Logger!Init, Drained
<1>. QED
  BY <1>1, QuickInvInit, OrderInit DEF QuickInit, DrainInv

LEMMA DrainInvNext == DrainInv /\ [QuickNext]_quickVars => DrainInv'
<1>. SUFFICES ASSUME DrainInv, [QuickNext]_quickVars PROVE DrainInv'
  OBVIOUS
<1>1. OrderInv'
  BY RingSide, OrderNext, TakenOrder DEF DrainInv, QuickInv
<1>. QED
  BY <1>1, QuickInvNext, DrainedNext DEF DrainInv

(* A ring with nothing left in it has handed out all that was claimed. *)
LEMMA NothingLeft ==
  ASSUME OrderInv, ~lapped, Stored = {}, Idle
  PROVE  popped = claimed
<1>. TypeOK /\ Accounted /\ LastLap /\ Tickets
  BY DEF OrderInv, RingInv, Typed
<1>1. InTransit = {}
  BY DEF Idle, InTransit
<1>2. Logged = Range(popped)
  BY <1>1 DEF Accounted, LastLap
<1>3. /\ claimed \in Seq(Lines) /\ popped \in Seq(Lines \cup {NoLine})
      /\ Len(popped) \in Nat /\ Len(claimed) \in Nat /\ Len(popped) <= Len(claimed)
      /\ \A i \in 1..Len(popped) : popped[i] = claimed[i]
  BY DEF TypeOK, LastLap
<1>4. DOMAIN claimed = 1..Len(claimed) /\ DOMAIN popped = 1..Len(popped)
  BY <1>3
<1>5. Len(popped) = Len(claimed)
  <2>. SUFFICES ASSUME Len(popped) < Len(claimed) PROVE FALSE
    BY <1>3
  <2>. DEFINE k == Len(popped) + 1
  <2>1. k \in DOMAIN claimed
    BY <1>3, <1>4
  <2>2. claimed[k] \in Range(popped)
    BY <1>2, <2>1 DEF Tickets, Range
  <2>3. PICK i \in 1..Len(popped) : popped[i] = claimed[k]
    BY <1>4, <2>2 DEF Range
  <2>4. i \in DOMAIN claimed /\ claimed[i] = claimed[k] /\ i # k
    BY <1>3, <1>4, <2>3
  <2>. QED
    BY <2>1, <2>4 DEF Tickets, IsInjective
<1>. QED
  BY <1>3, <1>4, <1>5

(* When the destructor is through, all that was ever logged is in the file,  *)
(* in order, if the ring was not lapped, and if its size divides the number  *)
(* of indices.                                                               *)
THEOREM ShutdownIsComplete == SizeDivides => (QuickSpec => []ShutdownKeepsAllUnlessLapped)
<1>1. DrainInv => ShutdownKeepsAllUnlessLapped
  <2>. SUFFICES ASSUME DrainInv, dtor = "joined", ~lapped PROVE file = claimed
    BY DEF ShutdownKeepsAllUnlessLapped
  <2>1. wpc = "exited" /\ pop = "ready" /\ Idle
    BY DEF DrainInv, QuickInv, Phases
  <2>2. Stored = {}
    BY <2>1 DEF DrainInv, Drained
  <2>3. popped = claimed
    BY <2>1, <2>2, NothingLeft DEF DrainInv
  <2>. QED
    BY <2>1, <2>3 DEF DrainInv, QuickInv, Kept, InHand
<1>. QED
  BY DrainInvInit, DrainInvNext, <1>1, PTL DEF QuickSpec

-------------------------------------------------------------------------------
(* For the buffer nothing happens when the worker takes an answer.           *)
LEMMA QuickBaseNext ==
  RingInv /\ Phases /\ [QuickNext]_quickVars => [Base!Next]_(Base!vars)
<1>. SUFFICES ASSUME RingInv, Phases, [QuickNext]_quickVars PROVE [Base!Next]_(Base!vars)
  OBVIOUS
<1>1. CASE [Next]_vars
  BY <1>1, BaseNext
<1>2. CASE Taken
  <2>1. Quiet
    BY <1>2, TakenRing
  <2>2. (InTransit \cup Stored)' = InTransit \cup Stored
    BY <2>1, TakenRing, <1>2 DEF Quiet, Pending, RingInv, Accounted
  <2>. QED
    BY <2>1, <2>2 DEF Quiet, Base!vars
<1>. QED
  BY <1>1, <1>2, RingSide

(* Driven by the worker's two loops, through construction and shutdown, the *)
(* ring still implements the lossy buffer, at any size: a line that is not  *)
(* in the file was overwritten, or is in the ring that is destroyed.        *)
THEOREM QuickBufferImplemented == QuickSpec => ImplementsBufferBase
<1>1. QuickInit => Base!Init
  BY BaseInit DEF QuickInit
<1>2. QuickInv => RingInv /\ Phases
  BY DEF QuickInv
<1>. QED
  BY QuickInvInit, QuickInvNext, QuickBaseNext, <1>1, <1>2, PTL
     DEF QuickSpec, ImplementsBufferBase, Base!Spec
===============================================================================
