---------------------------- MODULE SafeLoggerProofs ----------------------------
(***************************************************************************)
(* Proofs about SafeLogger for any number of producers and lines and any   *)
(* size of a Buffer and of a file, with allocations that fail: what the    *)
(* queue promises survives the worker's loops and the destructor.          *)
(***************************************************************************)
EXTENDS SafeLogger, QueueProofs, InductionProofs

(* Every step is one of the queue, or the worker takes the answer of tryPop. *)
Taken == pop \in {"true", "false"} /\ pop' = "ready" /\ out' = out /\ QueueUnchanged

(* Who is where: as in the Quick mode, but that the writer goes last. *)
Idle == \A p \in Producers : pc[p] = "idle"

Phases ==
  /\ state \in {"INIT", "READY", "SHUTDOWN"}
  /\ wpc \in {"init", "main", "mainPop", "drain", "drainPop", "exited"}
  /\ dtor \in {"none", "joining", "joined"}
  /\ wpc \in {"mainPop", "drainPop"} <=> pop # "ready"
  /\ state # "READY" => Idle
  /\ wpc \in {"drain", "drainPop", "exited"} => state = "SHUTDOWN"
  /\ state = "INIT" => wpc = "init"
  /\ dtor # "none" => state = "SHUTDOWN"
  /\ dtor = "joined" => wpc = "exited"

(* What the worker has written is what was popped, up to the line in its hands. *)
InHand == pop \in {"finished", "retire", "true"}

Kept ==
  /\ file \in Seq(Lines)
  /\ ~InHand => popped = file
  /\ InHand => out \in Lines /\ popped = Append(file, out)

(* A Buffer has no gaps: an item before the index is written, or somebody is *)
(* about to write it; and the Buffers before the write Buffer are full.      *)
Filled ==
  \A b \in DOMAIN heap, i \in Items :
    b # writeBuffer \/ (Open /\ i < writeIndex) =>
      \/ Written(b, i)
      \/ b = writeBuffer /\ \E p \in Producers : Writing(p) /\ index[p] = i

(* The lines of a thread leave the queue in their order. *)
SameThread(k, l) == k[1] = l[1]
Ordered ==
  /\ \A i, j \in DOMAIN popped :
       i < j /\ SameThread(popped[i], popped[j]) => popped[i][2] < popped[j][2]
  /\ \A k \in Range(popped), l \in Logged \ Range(popped) : SameThread(k, l) => k[2] < l[2]

(* The drain believes the first FALSE. *)
Drained ==
  wpc = "exited" \/ (wpc = "drainPop" /\ pop = "false") => Stored = {}

(* The writer, whose files cannot fail. *)
Pieces == [line : Lines, got : {1}]

WriterTyped ==
  /\ number \in Nat \ {0} /\ opened = number
  /\ DOMAIN disk \subseteq Nat \ {0} /\ 1..number \subseteq DOMAIN disk
  /\ disk \in [DOMAIN disk -> Seq(Pieces)]
  /\ stream \in {"open", "gone"}
  /\ stuck = <<>>
  /\ bytes \in 0..RollSize
  /\ terminal = <<>>

(* Its files hold what it was handed. *)
Landed ==
  /\ Len(PiecesIn(disk, number)) = Len(file)
  /\ \A i \in 1..Len(file) : PiecesIn(disk, number)[i].line = file[i]

Queued == QueueInv /\ Sound /\ Filled /\ Ordered

SafeInv == Queued /\ Phases /\ Kept /\ Drained /\ WriterTyped /\ Landed

-------------------------------------------------------------------------------
(* The queue under the logger. *)
LEMMA TakenQueue ==
  ASSUME QueueInv, Sound, Taken
  PROVE  QueueInv' /\ Sound' /\ Logged' = Logged /\ Stored' = Stored /\ popped' = popped
<1>. USE DEF bufferVars, producerVars
<1>1. /\ UNCHANGED <<heap, freed, buffers, writeBuffer, writeIndex, flag, pc, index, target>>
      /\ UNCHANGED <<seen, pushed, readBuffer, readIndex, out, popped, damage, failed>>
      /\ pop \in {"true", "false"} /\ pop' = "ready"
  BY DEF Taken, QueueUnchanged
<1>2. Typed'
  <2>1. MemoryTyped' /\ OthersTyped'
    <3>1. MemoryTyped /\ OthersTyped
      BY TypeParts DEF QueueInv, Typed
    <3>. QED
      BY <1>1, <3>1 DEF MemoryTyped, OthersTyped
  <2>2. Started'
    BY <1>1 DEF QueueInv, Typed, Started, Owner, HasItems, Written
  <2>3. Reading'
    BY <1>1 DEF QueueInv, Typed, Reading
  <2>. QED
    BY <2>1, <2>2, <2>3, TypeParts DEF Typed
<1>3. ClaimInv' /\ LineInv'
  BY <1>1, ClaimsKept DEF QueueInv
<1>4. \A k, i : Passed(k, i)' <=> Passed(k, i)
  BY <1>1 DEF Passed
<1>5. ReadInv'
  <2>1. Queue'
    BY <1>1 DEF QueueInv, ReadInv, Queue, Unqueued
  <2>2. \A b \in DOMAIN heap, i \in Items : Gone(b, i)' <=> Gone(b, i)
    BY <1>1, <1>4 DEF Gone
  <2>. QED
    BY <1>1, <2>1, <2>2, PopStays DEF QueueInv
<1>6. Stored' = Stored
  BY <1>1, <1>4 DEF Stored
<1>. QED
  BY <1>1, <1>2, <1>3, <1>5, <1>6 DEF QueueInv, Sound, Logged

LEMMA FilledInit == Init => Filled
<1>. SUFFICES ASSUME Init PROVE Filled
  OBVIOUS
<1>1. DOMAIN heap = {1} /\ writeBuffer = 1 /\ writeIndex = 0 /\ \A i \in Items : ~(i < 0)
  BY DEF Init, Items
<1>. QED
  BY <1>1 DEF Filled

LEMMA FilledStep ==
  ASSUME Typed, ClaimInv, writeBuffer = Len(heap), Filled,
         NEW p \in Producers, Others(p), Step(p)
  PROVE  Filled'
<1>0. /\ MemoryTyped /\ OthersTyped /\ Owners /\ Installers
      /\ writeIndex \in Nat /\ Items \subseteq Int /\ Size \in Int
      /\ writeBuffer \in DOMAIN heap
  BY TypeParts, QueueAssumption DEF Typed, MemoryTyped, OthersTyped, ClaimInv, Items
<1>1. \A q \in Producers \ {p} : (Writing(q)' <=> Writing(q)) /\ index'[q] = index[q]
  BY DEF Others, Writing
<1>2. CASE Claims(p)
  <2>1. Open' <=> Open
    BY <1>2 DEF Claims, Others, Open
  <2>2. ~Writing(p) /\ (writeIndex < Size => Writing(p)') /\ index'[p] = writeIndex
    BY <1>2 DEF Claims, Writing
  <2>. QED
    BY <1>0, <1>1, <1>2, <2>1, <2>2 DEF Claims, SameHeap, Filled, Items
<1>3. CASE Moves(p)
  <2>1. (Open' <=> Open) /\ (Writing(p)' <=> Writing(p)) /\ index'[p] = index[p]
    BY <1>3 DEF Moves, Same, Quiet, Others, Open, Writing
  <2>. QED
    BY <1>1, <1>3, <2>1 DEF Moves, SameHeap, Filled
<1>4. CASE Loads(p)
  <2>1. (Open' <=> Open) /\ (Writing(p)' <=> Writing(p)) /\ index'[p] = index[p]
    BY <1>4 DEF Loads, Others, Open, Writing
  <2>. QED
    BY <1>1, <1>4, <2>1 DEF Loads, SameHeap, Filled
<1>5. CASE Builds(p)
  <2>1. (Open' <=> Open) /\ (Writing(p)' <=> Writing(p)) /\ index'[p] = index[p]
    BY <1>5 DEF Builds, Same, Others, Open, Writing
  <2>. QED
    BY <1>1, <1>5, <2>1 DEF Builds, Constructs, Filled
<1>6. CASE Shows(p)
  <2>1. Open' <=> Open
    BY <1>6 DEF Shows, Others, Open
  <2>2. target[p] = writeBuffer
    BY <1>0, <1>6 DEF Shows, Owners, Owner
  <2>. QED
    BY <1>1, <1>6, <2>1, <2>2 DEF Shows, Publishes, Filled
<1>7. CASE Adds(p)
  <2>1. (Open' <=> Open) /\ ~Writing(p)
    BY <1>7 DEF Adds, Others, Open, Writing
  <2>. QED
    BY <1>1, <1>7, <2>1 DEF Adds, CountsIn, Filled
<1>8. CASE Installs(p)
  <2>1. writeIndex >= Size /\ \A q \in Producers : ~Writing(q)
    BY <1>0, <1>8 DEF Installs, Installers, Installing, Owner, Writing
  <2>2. Open
    BY <1>0, <1>8 DEF Installs, Installers, Installing, Open
  <2>3. \A b \in DOMAIN heap, i \in Items : Written(b, i)
    BY <1>0, <2>1, <2>2 DEF Filled, Items
  <2>4. ~Open'
    BY <1>8 DEF Installs, Open
  <2>. QED
    BY <1>8, <2>3, <2>4 DEF Installs, Allocates, Filled
<1>9. CASE Enqueues(p)
  <2>1. ~Open /\ ~Open' /\ ~Writing(p)
    BY <1>9 DEF Enqueues, Open, Writing
  <2>. QED
    BY <1>1, <1>9, <2>1 DEF Enqueues, SameHeap, Filled
<1>10. CASE Resets(p)
  <2>1. \A i \in Items : ~(i < 0)
    BY DEF Items
  <2>. QED
    BY <1>1, <1>10, <2>1 DEF Resets, SameHeap, Filled
<1>. QED
  BY <1>2, <1>3, <1>4, <1>5, <1>6, <1>7, <1>8, <1>9, <1>10 DEF Step

LEMMA FilledKept ==
  ASSUME Filled, UNCHANGED <<heap, writeBuffer, writeIndex, pc, index>> PROVE Filled'
  BY DEF Filled, Written, Open, Writing

LEMMA OrderedInit == Init => Ordered
  BY DEF Init, Ordered, Range

LEMMA OrderedNext ==
  ASSUME QueueInv, Sound, Ordered, Next
  PROVE  Ordered'
<1>0. /\ Typed /\ popped \in Seq(Lines \cup {NoLine})
      /\ pushed \in [Producers -> 0..MaxPush] /\ MaxPush \in Nat
  BY TypeParts, QueueAssumption DEF QueueInv, Typed, OthersTyped
<1>1. \A l \in Lines : l[1] \in Producers /\ l[2] \in 1..MaxPush /\ l = <<l[1], l[2]>>
  BY DEF Lines
<1>2. Range(popped) \subseteq Logged /\ InTransit \cup Stored = Logged \ Range(popped)
  BY PendingIs DEF Pending
<1>3. ASSUME NEW l \in Lines, l \notin Logged, Logged' = Logged \cup {l}, popped' = popped
      PROVE  Ordered'
  <2>1. ASSUME NEW k \in Range(popped), SameThread(k, l) PROVE k[2] < l[2]
    <3>1. k \in Lines /\ k[2] <= pushed[k[1]] /\ ~(l[2] <= pushed[l[1]])
      BY <1>2, <1>3 DEF Logged
    <3>. QED
      BY <1>0, <1>1, <2>1, <3>1 DEF SameThread
  <2>. QED
    BY <1>3, <2>1 DEF Ordered
<1>4. CASE Logged' = Logged /\ popped' = popped
  BY <1>4 DEF Ordered
<1>5. CASE Logged' = Logged /\ PopMove
  <2>1. PICK l \in Lines :
          /\ l \in InTransit \cup Stored
          /\ \A k \in InTransit \cup Stored : ~(k[1] = l[1] /\ k[2] < l[2])
          /\ popped' = Append(popped, l) /\ Range(popped') = Range(popped) \cup {l}
    BY <1>5, MovedIsFirst
  <2>2. \A k \in Range(popped) : SameThread(k, l) => k[2] < l[2]
    BY <1>2, <2>1 DEF Ordered
  <2>3. ASSUME NEW m \in Logged \ Range(popped), m # l, SameThread(l, m) PROVE l[2] < m[2]
    <3>1. m \in Lines /\ ~(m[2] < l[2])
      BY <1>2, <2>1, <2>3 DEF Logged, SameThread
    <3>2. m[2] # l[2]
      BY <1>1, <2>3, <3>1 DEF SameThread
    <3>. QED
      BY <1>0, <1>1, <3>1, <3>2
  <2>4. \A k \in Range(popped)', m \in Logged' \ Range(popped)' :
          SameThread(k, m) => k[2] < m[2]
    BY <1>5, <2>1, <2>3 DEF Ordered
  <2>5. ASSUME NEW i \in DOMAIN popped', NEW j \in DOMAIN popped', i < j,
               SameThread(popped'[i], popped'[j])
        PROVE  popped'[i][2] < popped'[j][2]
    <3>1. /\ i \in DOMAIN popped /\ popped'[i] = popped[i]
          /\ (j \in DOMAIN popped /\ popped'[j] = popped[j]) \/ popped'[j] = l
      BY <1>0, <2>1, <2>5
    <3>2. popped[i] \in Range(popped)
      BY <3>1 DEF Range
    <3>. QED
      BY <2>2, <2>5, <3>1, <3>2 DEF Ordered
  <2>. QED
    BY <2>4, <2>5 DEF Ordered
<1>. QED
  BY <1>0, <1>3, <1>4, <1>5, LoggedNext

LEMMA QueuedNext ==
  ASSUME Queued, "reused" \notin FreedOutcomes, [Next]_vars \/ Taken
  PROVE  Queued'
<1>. QueueInv /\ Sound /\ Filled /\ Ordered
  BY DEF Queued
<1>1. CASE Next
  <2>1. QueueInv' /\ Sound'
    BY <1>1, QueueNext DEF QueueInv
  <2>2. Ordered'
    BY <1>1, OrderedNext
  <2>3. ASSUME NEW p \in Producers, Produce(p) PROVE Filled'
    <3>1. Typed /\ ClaimInv /\ writeBuffer = Len(heap) /\ ~RelaxedClaim
      BY DEF QueueInv, ReadInv, Queue
    <3>2. Others(p) /\ Step(p)
      BY <2>1, <2>3, <3>1, OthersKept, StepOf
    <3>. QED
      BY <3>1, <3>2, FilledStep
  <2>4. ASSUME PopCall \/ TryPop PROVE Filled'
    <3>1. UNCHANGED <<heap, writeBuffer, writeIndex, pc, index>>
      BY <2>4 DEF PopCall, TryPop, PopFrontLock, PopFront, PopFalse, PopMove,
                  PopRetireLock, PopRetire, bufferVars, producerVars
    <3>. QED
      BY <3>1, FilledKept
  <2>. QED
    BY <1>1, <2>1, <2>2, <2>3, <2>4 DEF Next, Queued
<1>2. CASE UNCHANGED vars
  <2>1. UNCHANGED <<heap, writeBuffer, writeIndex, pc, index, popped, pushed>>
    BY <1>2 DEF vars, bufferVars, producerVars, consumerVars
  <2>2. QueueInv' /\ Sound'
    BY <1>2, QueueNext DEF QueueInv
  <2>3. Ordered'
    BY <2>1 DEF Ordered, Logged
  <2>. QED
    BY <2>1, <2>2, <2>3, FilledKept DEF Queued
<1>3. CASE Taken
  <2>1. UNCHANGED <<heap, writeBuffer, writeIndex, pc, index>>
    BY <1>3 DEF Taken, QueueUnchanged, bufferVars, producerVars
  <2>2. Ordered'
    BY <1>3, TakenQueue DEF Ordered
  <2>. QED
    BY <1>3, <2>1, <2>2, TakenQueue, FilledKept DEF Queued
<1>. QED
  BY <1>1, <1>2, <1>3

-------------------------------------------------------------------------------
(* A step of the logger, seen from the queue. *)
LEMMA QueueSide ==
  ASSUME Phases, [SafeNext]_safeVars
  PROVE  [Next]_vars \/ Taken
<1>1. ASSUME NEW p \in Producers, Add(p) \/ AddStep(p) PROVE [Next]_vars
  BY <1>1 DEF Add, AddStep, Next, Produce
<1>2. CASE ConsumerStep
  BY <1>2 DEF ConsumerStep, Next
<1>3. CASE WorkerStep
  <2>1. Logger!Worker /\ QueueUnchanged
    BY <1>3 DEF WorkerStep, Logger!Worker
  <2>2. \/ pop' = pop /\ out' = out
        \/ pop = "ready" /\ pop' = "called" /\ out' = out
        \/ pop \in {"true", "false"} /\ pop' = "ready" /\ out' = out
    BY <2>1 DEF Logger!Worker, Logger!Poll, Logger!WriteLine, Logger!Start, Logger!MainTry,
       Logger!DrainTry, Logger!CallTryPop, Logger!MainEnd, Logger!Write, Logger!Empty, Phases
  <2>. QED
    BY <2>1, <2>2 DEF QueueUnchanged, Taken, Next, PopCall, PopAt, vars, consumerVars
<1>4. CASE LoggerReady \/ LoggerShutdown \/ LoggerJoin
  BY <1>4 DEF LoggerReady, LoggerShutdown, LoggerJoin, QueueUnchanged, Logger!Construct,
     Logger!Shutdown, Logger!Join, vars, consumerVars
<1>5. CASE UNCHANGED safeVars
  BY <1>5 DEF safeVars
<1>. QED
  BY <1>1, <1>2, <1>3, <1>4, <1>5 DEF SafeNext

(* Where the worker and the owner are. *)
LEMMA PhasesNext == ASSUME Phases, Typed, [SafeNext]_safeVars PROVE Phases'
<1>. USE DEF Phases, Idle
<1>0. OthersTyped
  BY TypeParts DEF Typed
<1>1. ASSUME NEW p \in Producers, Add(p) PROVE Phases'
  BY <1>1 DEF Add, Claim, FetchAdd, loggerVars, consumerVars
<1>2. ASSUME NEW p \in Producers, AddStep(p) PROVE Phases'
  <2>1. pc[p] # "idle" /\ pop' = pop /\ UNCHANGED loggerVars
    BY <1>2 DEF AddStep, PushStep, FetchAdd, WaitOver, Retry, Load, Construct, ConstructFault,
         Publish, Count, SetupLock, SetupStore, SetupThrow, SetupEnqueue, SetupReset,
         SetupUnlock, Goto, At, consumerVars
  <2>2. state = "READY"
    BY <2>1
  <2>. QED
    BY <2>1, <2>2 DEF loggerVars
<1>3. CASE ConsumerStep
  <2>1. pop # "ready" /\ pop' # "ready" /\ pc' = pc /\ UNCHANGED loggerVars
    BY <1>3 DEF ConsumerStep, TryPop, PopFrontLock, PopFront, PopFalse, PopMove, PopRetireLock,
         PopRetire, PopAt, producerVars
  <2>. QED
    BY <2>1 DEF loggerVars
<1>4. CASE WorkerStep
  <2>1. pc' = pc /\ Logger!Worker
    BY <1>4 DEF WorkerStep, QueueUnchanged, producerVars, Logger!Worker
  <2>. QED
    BY <2>1 DEF Logger!Worker, Logger!Poll, Logger!WriteLine, Logger!Start,
       Logger!MainTry, Logger!DrainTry, Logger!CallTryPop, Logger!MainEnd, Logger!Write,
       Logger!Empty, Logger!ownerVars
<1>5. CASE LoggerReady \/ LoggerShutdown \/ LoggerJoin
  <2>1. pc' = pc
    BY <1>5 DEF LoggerReady, LoggerShutdown, LoggerJoin, QueueUnchanged, producerVars
  <2>. QED
    BY <1>5, <2>1 DEF LoggerReady, LoggerShutdown, LoggerJoin, Logger!Construct,
       Logger!Shutdown, Logger!Join, Logger!workerVars
<1>6. CASE UNCHANGED safeVars
  BY <1>6 DEF safeVars, vars, producerVars, consumerVars, loggerVars
<1>. QED
  BY <1>1, <1>2, <1>3, <1>4, <1>5, <1>6 DEF SafeNext

(* What the steps of the others leave alone. *)
LEMMA OwnerOrAdd ==
  ASSUME Phases,
         \/ \E p \in Producers : Add(p) \/ AddStep(p)
         \/ LoggerReady \/ LoggerShutdown \/ LoggerJoin \/ UNCHANGED safeVars
  PROVE  UNCHANGED <<file, popped, out, pop, wpc>>
<1>1. ASSUME NEW p \in Producers, Add(p) \/ AddStep(p)
      PROVE  UNCHANGED <<file, popped, out, pop, wpc>>
  BY <1>1 DEF Add, AddStep, Claim, PushStep, FetchAdd, WaitOver, Retry, Load, Construct,
       ConstructFault, Publish, Count, SetupLock, SetupStore, SetupThrow, SetupEnqueue,
       SetupReset, SetupUnlock, loggerVars, consumerVars
<1>2. CASE LoggerReady \/ LoggerShutdown \/ LoggerJoin
  BY <1>2 DEF LoggerReady, LoggerShutdown, LoggerJoin, QueueUnchanged, Logger!Construct,
     Logger!Shutdown, Logger!Join, Logger!workerVars
<1>3. CASE UNCHANGED safeVars
  BY <1>3 DEF safeVars, vars, consumerVars, loggerVars
<1>. QED
  BY <1>1, <1>2, <1>3

LEMMA SameLast ==
  ASSUME NEW S, NEW s \in Seq(S), NEW d \in S, NEW e \in S, Append(s, d) = Append(s, e)
  PROVE  d = e
<1>1. Append(s, d)[Len(s) + 1] = d /\ Append(s, e)[Len(s) + 1] = e
  OBVIOUS
<1>. QED
  BY <1>1

(* The file follows the lines that come out of the queue. *)
LEMMA KeptNext ==
  ASSUME Queued, Phases, Kept, [SafeNext]_safeVars
  PROVE  Kept'
<1>. USE DEF Kept, InHand
<1>1. ASSUME UNCHANGED <<file, popped, out>>, InHand' = InHand PROVE Kept'
  BY <1>1
<1>2. CASE \/ \E p \in Producers : Add(p) \/ AddStep(p)
           \/ LoggerReady \/ LoggerShutdown \/ LoggerJoin \/ UNCHANGED safeVars
  <2>1. UNCHANGED <<file, popped, out, pop>>
    BY <1>2, OwnerOrAdd
  <2>. QED
    BY <1>1, <2>1
<1>3. CASE ConsumerStep
  <2>0. file' = file
    BY <1>3 DEF ConsumerStep, loggerVars
  <2>1. CASE PopMove
    <3>1. PICK l \in Lines : popped' = Append(popped, l)
      BY <2>1, MovedIsFirst DEF Queued
    <3>2. popped' = Append(popped, out') /\ ~InHand /\ InHand'
      BY <2>1 DEF PopMove, PopAt
    <3>3. popped = file /\ popped \in Seq(Lines)
      BY <3>2
    <3>4. out' = l
      <4>1. out' \in Lines \cup {NoLine} /\ popped \in Seq(Lines \cup {NoLine})
        <5>1. Typed'
          BY <2>1, TypedNext DEF Queued, QueueInv, Next, TryPop
        <5>. QED
          BY <5>1, TypeParts DEF Queued, QueueInv, Typed, OthersTyped
      <4>. QED
        BY <3>1, <3>2, <4>1, SameLast
    <3>. QED
      BY <2>0, <3>2, <3>3, <3>4
  <2>2. CASE PopFrontLock \/ PopFront \/ PopFalse \/ PopRetireLock \/ PopRetire
    <3>1. UNCHANGED <<popped, out>>
      BY <2>2 DEF PopFrontLock, PopFront, PopFalse, PopRetireLock, PopRetire
    <3>2. InHand' = InHand
      BY <2>2 DEF PopFrontLock, PopFront, PopFalse, PopRetireLock, PopRetire, PopAt
    <3>. QED
      BY <1>1, <2>0, <3>1, <3>2
  <2>. QED
    BY <1>3, <2>1, <2>2 DEF ConsumerStep, TryPop
<1>4. CASE WorkerStep
  <2>1. popped' = popped
    BY <1>4 DEF WorkerStep, QueueUnchanged
  <2>2. CASE Logger!WriteLine
    <3>1. file' = Append(file, out) /\ pop = "true" /\ pop' = "ready"
      BY <2>2 DEF Logger!WriteLine, Logger!Write
    <3>. QED
      BY <2>1, <3>1
  <2>3. CASE Logger!Poll
    <3>1. UNCHANGED <<file, out>>
      BY <2>3 DEF Logger!Poll, Logger!Start, Logger!MainTry, Logger!DrainTry,
         Logger!CallTryPop, Logger!MainEnd, Logger!Empty
    <3>2. ~InHand /\ ~InHand'
      BY <2>3 DEF Logger!Poll, Logger!Start, Logger!MainTry, Logger!DrainTry,
         Logger!CallTryPop, Logger!MainEnd, Logger!Empty, Phases
    <3>. QED
      BY <1>1, <2>1, <3>1, <3>2
  <2>. QED
    BY <1>4, <2>2, <2>3 DEF WorkerStep
<1>. QED
  BY <1>2, <1>3, <1>4 DEF SafeNext

-------------------------------------------------------------------------------
(* Once nobody is inside push(), FALSE means that the queue is empty: the    *)
(* Buffer being read is the write Buffer, and what was handed out of it is   *)
(* written, so that the reader has come as far as the index.                 *)
LEMMA FalseIsEmpty ==
  ASSUME Queued, Idle, PopFalse
  PROVE  Stored = {}
<1>0. /\ Typed /\ Current /\ Queue /\ Filled /\ MemoryTyped /\ OthersTyped
      /\ readBuffer # NoBuffer /\ ~Written(readBuffer, readIndex) /\ pop = "called"
      /\ buffers \in Seq(DOMAIN heap)
  BY TypeParts DEF Queued, QueueInv, ClaimInv, ReadInv, Typed, MemoryTyped, PopFalse,
     IsWritten, Written, PopAt
<1>1. /\ buffers # <<>> /\ readBuffer = buffers[1] /\ readBuffer \in DOMAIN heap
      /\ readIndex \in Items /\ Items \subseteq Int /\ writeIndex \in Int
  BY <1>0 DEF Typed, Reading, MemoryTyped, OthersTyped, Items
<1>2. Open /\ \A p \in Producers : ~Writing(p)
  BY DEF Idle, Open, Writing
<1>3. readBuffer = writeBuffer /\ ~(readIndex < writeIndex)
  BY <1>0, <1>1, <1>2 DEF Filled
<1>4. \A k \in DOMAIN buffers : k = 1
  <2>1. /\ DOMAIN heap = 1..Len(heap) /\ Len(heap) \in Nat
        /\ DOMAIN buffers = 1..Len(buffers) /\ Len(buffers) \in Nat
    BY <1>0 DEF MemoryTyped
  <2>2. SUFFICES ASSUME NEW k \in DOMAIN buffers, 1 < k PROVE FALSE
    BY <2>1
  <2>3. 1 \in DOMAIN buffers /\ buffers[1] < buffers[k]
    BY <1>0, <2>1, <2>2 DEF Queue
  <2>4. buffers[k] \in DOMAIN heap
    BY <1>0, <2>2
  <2>. QED
    BY <1>0, <1>1, <1>3, <2>1, <2>3, <2>4 DEF Queue
<1>5. ASSUME NEW k \in DOMAIN buffers, NEW i \in Items,
             Written(buffers[k], i), ~Passed(k, i)
      PROVE  FALSE
  <2>1. buffers[k] = writeBuffer /\ k = 1
    BY <1>1, <1>3, <1>4, <1>5
  <2>2. i < writeIndex
    BY <1>0, <1>1, <1>5, <2>1 DEF Current
  <2>3. ~(i < readIndex)
    BY <1>0, <1>5, <2>1 DEF Passed
  <2>. QED
    BY <1>1, <1>3, <2>2, <2>3
<1>. QED
  BY <1>5 DEF Stored, Written

(* An empty queue of Buffers has nothing stored. *)
LEMMA FrontIsEmpty == ASSUME buffers = <<>> PROVE Stored = {}
  BY DEF Stored

LEMMA StaysEmpty ==
  ASSUME UNCHANGED <<heap, buffers, readBuffer, readIndex>>, Stored = {},
         \A k, i : Passed(k, i)' <=> Passed(k, i)
  PROVE  Stored' = {}
  BY DEF Stored

LEMMA DrainedNext ==
  ASSUME Queued, Phases, Drained, [SafeNext]_safeVars
  PROVE  Drained'
<1>. SUFFICES ASSUME wpc' = "exited" \/ (wpc' = "drainPop" /\ pop' = "false")
             PROVE  Stored' = {}
  BY DEF Drained
<1>. USE DEF bufferVars, producerVars
<1>1. ASSUME UNCHANGED <<heap, buffers, readBuffer, readIndex>>, Stored = {},
             pop \notin {"finished", "retire"}, pop' \notin {"finished", "retire"}
      PROVE  Stored' = {}
  <2>1. \A k, i : Passed(k, i)' <=> Passed(k, i)
    BY <1>1 DEF Passed
  <2>. QED
    BY <1>1, <2>1, StaysEmpty
<1>2. ASSUME NEW p \in Producers, Add(p) \/ AddStep(p) PROVE FALSE
  <2>1. wpc' = wpc
    BY <1>2, OwnerOrAdd
  <2>2. state = "READY"
    BY <1>2 DEF Add, AddStep, PushStep, FetchAdd, WaitOver, Retry, Load, Construct,
       ConstructFault, Publish, Count, SetupLock, SetupStore, SetupThrow, SetupEnqueue,
       SetupReset, SetupUnlock, Goto, At, Phases, Idle
  <2>. QED
    BY <2>1, <2>2 DEF Phases
<1>3. CASE ConsumerStep
  <2>1. wpc' = wpc /\ pop # "ready"
    BY <1>3 DEF ConsumerStep, TryPop, PopFrontLock, PopFront, PopFalse, PopMove, PopRetireLock,
                PopRetire, PopAt, loggerVars
  <2>2. pop' = "false" /\ Idle
    BY <2>1 DEF Phases
  <2>3. CASE PopFalse
    <3>1. Stored = {}
      BY <2>2, <2>3, FalseIsEmpty
    <3>. QED
      BY <1>1, <2>2, <2>3, <3>1 DEF PopFalse, PopAt
  <2>4. CASE PopFront
    <3>1. buffers = <<>> /\ buffers' = buffers
      BY <2>2, <2>4 DEF PopFront
    <3>. QED
      BY <3>1 DEF Stored
  <2>. QED
    BY <1>3, <2>2, <2>3, <2>4
       DEF ConsumerStep, TryPop, PopFrontLock, PopMove, PopRetireLock, PopRetire
<1>4. CASE WorkerStep
  <2>1. UNCHANGED <<heap, buffers, readBuffer, readIndex>> /\ Logger!Worker
    BY <1>4 DEF WorkerStep, QueueUnchanged, Logger!Worker
  <2>2. wpc = "exited" \/ (wpc = "drainPop" /\ pop = "false")
    BY <2>1 DEF Logger!Worker, Logger!Poll, Logger!WriteLine, Logger!Start,
       Logger!MainTry, Logger!DrainTry, Logger!CallTryPop, Logger!MainEnd, Logger!Write,
       Logger!Empty
  <2>3. pop \notin {"finished", "retire"} /\ pop' \notin {"finished", "retire"}
    BY <2>1, <2>2 DEF Phases, Logger!Worker, Logger!Poll, Logger!WriteLine, Logger!Start,
       Logger!MainTry, Logger!DrainTry, Logger!CallTryPop, Logger!MainEnd, Logger!Write,
       Logger!Empty
  <2>. QED
    BY <1>1, <2>1, <2>2, <2>3 DEF Drained
<1>5. CASE LoggerReady \/ LoggerShutdown \/ LoggerJoin \/ UNCHANGED safeVars
  <2>1. UNCHANGED <<heap, buffers, readBuffer, readIndex, wpc, pop>>
    BY <1>5 DEF LoggerReady, LoggerShutdown, LoggerJoin, QueueUnchanged, Logger!Construct,
       Logger!Shutdown, Logger!Join, Logger!workerVars, safeVars, vars, consumerVars, loggerVars
  <2>2. pop \notin {"finished", "retire"}
    BY <2>1 DEF Phases
  <2>. QED
    BY <1>1, <2>1, <2>2 DEF Drained
<1>. QED
  BY <1>2, <1>3, <1>4, <1>5 DEF SafeNext

-------------------------------------------------------------------------------
(* The writer: a line more, or a file more. *)
LEMMA WriterFiles ==
  ASSUME WriterTyped
  PROVE  /\ number \in Nat \ {0} /\ number \in DOMAIN disk
         /\ \A m \in 1..number : disk[m] \in Seq(Pieces)
         /\ PiecesIn(disk, number) \in Seq(Pieces)
<1>1. /\ number \in Nat \ {0} /\ number \in DOMAIN disk
      /\ \A m \in 1..number : disk[m] \in Seq(Pieces)
  BY DEF WriterTyped
<1>. QED
  BY <1>1, PiecesTyped

LEMMA SafeWriterNext ==
  ASSUME WriterTyped, Landed, Phases, Kept, [SafeNext]_safeVars
  PROVE  WriterTyped' /\ Landed'
<1>1. CASE UNCHANGED <<writerVars, file>>
  BY <1>1 DEF WriterTyped, Landed, writerVars
<1>2. ASSUME Logger!WriteLine, Writer!Write(out) PROVE WriterTyped' /\ Landed'
  <2>. DEFINE p == [line |-> out, got |-> 1]
              d == Writer!Extended(out, 1)
              W == [l \in Lines |-> 1]
  <2>1. out \in Lines
    BY <1>2 DEF Logger!WriteLine, Logger!Write, Kept, InHand
  <2>2. W[out] = 1
    BY <2>1
  <2>3. stream = "open" /\ terminal' = terminal /\ Writer!WriteGood(out)
    BY <1>2 DEF Writer!Write, Writer!WriteGood, Writer!WriteBad, Writer!WriteIgnored,
       Writer!IsOpen, Writer!Displayed, WriterTyped
  <2>9. Writer!After(d, "open", stuck, 1) /\ Writer!Counted(1) = bytes + 1
    BY <2>2, <2>3 DEF Writer!WriteGood, Writer!Flushed, Writer!Counted, d
  <2>. p \in Pieces /\ p.line = out
    BY <2>1 DEF Pieces
  <2>4. /\ DOMAIN d = DOMAIN disk /\ d \in [DOMAIN disk -> Seq(Pieces)]
        /\ PiecesIn(d, number) = Append(PiecesIn(disk, number), p)
    <3>1. d = [disk EXCEPT ![number] = Append(disk[number], p)]
      BY DEF Writer!Extended, Writer!Piece
    <3>. HIDE DEF p, d
    <3>2. \A s \in Seq(Pieces) : Append(s, p) \in Seq(Pieces)
      OBVIOUS
    <3>3. DOMAIN d = DOMAIN disk /\ d \in [DOMAIN disk -> Seq(Pieces)]
      BY <3>1, <3>2 DEF WriterTyped
    <3>4. d[number] = Append(disk[number], p) /\ \A m \in 1..(number - 1) : d[m] = disk[m]
      BY <3>1, WriterFiles DEF WriterTyped
    <3>. QED
      BY <3>3, <3>4, WriterFiles, OneMorePiece
  <2>. HIDE DEF d, p
  <2>0. ASSUME PiecesIn(disk', number') = PiecesIn(d, number) PROVE Landed'
    <3>1. file' = Append(file, out) /\ file \in Seq(Lines)
      BY <1>2 DEF Writer!Write, Kept
    <3>. DEFINE old == PiecesIn(disk, number)
    <3>2. PiecesIn(disk', number') = Append(old, p) /\ old \in Seq(Pieces)
      BY <2>0, <2>4, WriterFiles
    <3>3. Len(old) = Len(file) /\ \A i \in 1..Len(file) : old[i].line = file[i]
      BY DEF Landed
    <3>. HIDE DEF old
    <3>4. /\ Len(Append(old, p)) = Len(Append(file, out))
          /\ \A i \in 1..Len(Append(file, out)) : Append(old, p)[i].line = Append(file, out)[i]
      BY <2>1, <3>1, <3>2, <3>3
    <3>. QED
      BY <3>1, <3>2, <3>4 DEF Landed
  <2>5. CASE bytes + 1 > RollSize
    <3>1. /\ number' = number + 1 /\ bytes' = 0 /\ stuck' = stuck
          /\ stream' = "open" /\ opened' = number + 1
          /\ disk' = [m \in DOMAIN d \cup {number + 1} |->
                        IF m = number + 1 THEN <<>> ELSE d[m]]
      BY <2>5, <2>9 DEF Writer!After, Writer!Due, Writer!RollFile, Writer!Opened,
         Writer!NextNumber, Writer!FreshBytes
    <3>2. number + 1 \in Nat \ {0} /\ DOMAIN disk \subseteq Nat \ {0} /\ stuck = <<>>
          /\ terminal = <<>>
      BY DEF WriterTyped
    <3>3. DOMAIN disk' = DOMAIN disk \cup {number + 1}
      BY <2>4, <3>1
    <3>4. disk' \in [DOMAIN disk' -> Seq(Pieces)]
      <4>1. <<>> \in Seq(Pieces)
        OBVIOUS
      <4>2. \A m \in DOMAIN disk' : disk'[m] \in Seq(Pieces)
        BY <2>4, <3>1, <3>3, <4>1
      <4>. QED
        BY <3>1, <4>2
    <3>5. bytes' \in 0..RollSize
      BY <3>1, SafeAssumption
    <3>6. 1..number' \subseteq DOMAIN disk'
      BY <3>1, <3>2, <3>3 DEF WriterTyped
    <3>7. PiecesIn(disk', number') = PiecesIn(d, number)
      <4>1. disk'[number + 1] = <<>> /\ \A m \in 1..number : disk'[m] = d[m]
        BY <2>4, <3>1, <3>2 DEF WriterTyped
      <4>2. \A m \in 1..number : d[m] \in Seq(Pieces)
        BY <2>4 DEF WriterTyped
      <4>3. PiecesIn(disk', number + 1) = PiecesIn(d, number)
        BY <4>1, <4>2, WriterFiles, OneMoreFile
      <4>. QED
        BY <3>1, <4>3
    <3>. QED
      BY <2>0, <2>3, <3>1, <3>2, <3>3, <3>4, <3>5, <3>6, <3>7 DEF WriterTyped
  <2>6. CASE ~(bytes + 1 > RollSize)
    <3>1. /\ disk' = d /\ bytes' = bytes + 1
          /\ UNCHANGED <<number, stream, stuck, opened>>
      BY <2>3, <2>6, <2>9 DEF Writer!After, Writer!Due
    <3>2. bytes' \in 0..RollSize
      BY <2>6, <3>1, SafeAssumption DEF WriterTyped
    <3>. QED
      BY <2>0, <2>3, <2>4, <3>1, <3>2 DEF WriterTyped
  <2>. QED
    BY <2>5, <2>6
<1>3. CASE LoggerJoin
  BY <1>3 DEF LoggerJoin, Writer!Destroy, WriterTyped, Landed
<1>4. CASE \E p \in Producers : Add(p) \/ AddStep(p)
  BY <1>1, <1>4 DEF Add, AddStep, loggerVars
<1>5. CASE ConsumerStep
  BY <1>1, <1>5 DEF ConsumerStep, loggerVars
<1>6. CASE WorkerStep
  BY <1>1, <1>2, <1>6 DEF WorkerStep, Logger!Poll, Logger!Start, Logger!MainTry,
     Logger!DrainTry, Logger!CallTryPop, Logger!MainEnd, Logger!Empty
<1>7. CASE LoggerReady \/ LoggerShutdown
  BY <1>1, <1>7 DEF LoggerReady, LoggerShutdown, Logger!Construct, Logger!Shutdown,
     Logger!workerVars
<1>8. CASE UNCHANGED safeVars
  BY <1>1, <1>8 DEF safeVars, loggerVars
<1>. QED
  BY <1>3, <1>4, <1>5, <1>6, <1>7, <1>8 DEF SafeNext

-------------------------------------------------------------------------------
(* All of it, where the claim is a full barrier and freed memory is not      *)
(* reused.                                                                   *)
LEMMA SafeInvInit == ~RelaxedClaim /\ SafeInit => SafeInv
<1>. SUFFICES ASSUME ~RelaxedClaim, SafeInit PROVE SafeInv
  OBVIOUS
<1>1. Init /\ Logger!Init /\ Writer!Init
  BY DEF SafeInit
<1>2. Queued
  <2>1. Sound
    BY <1>1 DEF Init, Sound
  <2>. QED
    BY <1>1, <2>1, QueueInit, FilledInit, OrderedInit DEF Queued
<1>3. Phases /\ Drained
  BY <1>1 DEF Init, Logger!Init, Phases, Idle, Drained
<1>4. Kept
  BY <1>1 DEF Init, Logger!Init, Kept, InHand
<1>5. WriterTyped
  <2>1. disk = [n \in {1} |-> <<>>]
    BY <1>1 DEF Writer!Init
  <2>2. <<>> \in Seq(Pieces)
    OBVIOUS
  <2>3. DOMAIN disk = {1} /\ disk \in [DOMAIN disk -> Seq(Pieces)] /\ 1..1 = {1}
    BY <2>1, <2>2
  <2>. QED
    BY <1>1, <2>3, SafeAssumption DEF Writer!Init, WriterTyped
<1>6. Landed
  <2>1. disk[0 + 1] = <<>> /\ number = 0 + 1 /\ file = <<>>
    BY <1>1 DEF Writer!Init
  <2>2. PiecesIn(disk, 0 + 1) = PiecesIn(disk, 0)
    <3>1. 0 \in Nat /\ \A m \in 1..0 : disk[m] \in Seq(Pieces) /\ disk[m] = disk[m]
      OBVIOUS
    <3>. QED
      BY <2>1, <3>1, OneMoreFile
  <2>3. PiecesIn(disk, number) = <<>>
    BY <2>1, <2>2, NoFiles
  <2>. QED
    BY <2>1, <2>3 DEF Landed
<1>. QED
  BY <1>2, <1>3, <1>4, <1>5, <1>6 DEF SafeInv

LEMMA SafeInvNext ==
  "reused" \notin FreedOutcomes /\ SafeInv /\ [SafeNext]_safeVars => SafeInv'
<1>. SUFFICES ASSUME "reused" \notin FreedOutcomes, SafeInv, [SafeNext]_safeVars
             PROVE  SafeInv'
  OBVIOUS
<1>. Queued /\ Phases /\ Kept /\ Drained /\ WriterTyped /\ Landed /\ Typed
  BY DEF SafeInv, Queued, QueueInv
<1>. QED
  BY QueueSide, QueuedNext, PhasesNext, KeptNext, DrainedNext, SafeWriterNext DEF SafeInv

(* The variables of the queue, the logger and the writer keep their types.   *)
THEOREM SafeTypeCorrect ==
  ~RelaxedClaim /\ "reused" \notin FreedOutcomes => (SafeSpec => []SafeTypeOK)
<1>. SUFFICES ASSUME ~RelaxedClaim, "reused" \notin FreedOutcomes
              PROVE  SafeSpec => []SafeTypeOK
  OBVIOUS
<1>1. SafeInit => SafeInv
  BY SafeInvInit
<1>2. SafeInv /\ [SafeNext]_safeVars => SafeInv'
  BY SafeInvNext
<1>3. SafeInv => SafeTypeOK
  <2>. SUFFICES ASSUME SafeInv PROVE SafeTypeOK
    OBVIOUS
  <2>1. TypeOK /\ Logger!TypeOK
    BY DEF SafeInv, Queued, QueueInv, Typed, Phases, Logger!TypeOK
  <2>2. file \in Seq(Lines) /\ WriterTyped
    BY DEF SafeInv, Kept
  <2>3. \A n \in DOMAIN disk : \A i \in DOMAIN disk[n] :
          /\ disk[n][i].line \in Lines
          /\ disk[n][i].got \in 1..[l \in Lines |-> 1][disk[n][i].line]
    <3>. SUFFICES ASSUME NEW n \in DOMAIN disk, NEW i \in DOMAIN disk[n]
                  PROVE  /\ disk[n][i].line \in Lines
                         /\ disk[n][i].got \in 1..[l \in Lines |-> 1][disk[n][i].line]
      OBVIOUS
    <3>1. disk[n] \in Seq(Pieces)
      BY <2>2 DEF WriterTyped
    <3>2. disk[n][i] \in Pieces
      BY <3>1
    <3>. QED
      BY <3>2 DEF Pieces
  <2>4. Writer!WriterTypeOK
    BY <2>2, <2>3 DEF WriterTyped, Writer!WriterTypeOK
  <2>. QED
    BY <2>1, <2>4 DEF SafeTypeOK
<1>. QED
  BY <1>1, <1>2, <1>3, PTL DEF SafeSpec

(* The Safe mode never loses a line: when the destructor is through, all     *)
(* lines were handed to the writer, once, each thread's in its order.        *)
THEOREM ShutdownIsComplete ==
  ~RelaxedClaim /\ "reused" \notin FreedOutcomes => (SafeSpec => []ShutdownKeepsAll)
<1>. SUFFICES ASSUME ~RelaxedClaim, "reused" \notin FreedOutcomes
              PROVE  SafeSpec => []ShutdownKeepsAll
  OBVIOUS
<1>1. SafeInit => SafeInv
  BY SafeInvInit
<1>2. SafeInv /\ [SafeNext]_safeVars => SafeInv'
  BY SafeInvNext
<1>3. SafeInv => ShutdownKeepsAll
  <2>. SUFFICES ASSUME SafeInv, dtor = "joined"
                PROVE  /\ Range(file) = Logged
                       /\ IsInjective(file)
                       /\ \A i, j \in DOMAIN file :
                            i < j /\ file[i][1] = file[j][1] => file[i][2] < file[j][2]
    BY DEF ShutdownKeepsAll
  <2>1. wpc = "exited" /\ pop = "ready" /\ Idle
    BY DEF SafeInv, Phases
  <2>2. Stored = {} /\ file = popped
    BY <2>1 DEF SafeInv, Drained, Kept, InHand
  <2>3. InTransit = {}
    BY <2>1 DEF Idle, InTransit
  <2>4. Logged = Range(popped)
    BY <2>2, <2>3, PendingIs DEF SafeInv, Queued, Pending
  <2>5. IsInjective(popped) /\ Ordered
    BY DEF SafeInv, Queued, QueueInv, ReadInv
  <2>. QED
    BY <2>2, <2>4, <2>5 DEF Ordered, SameThread
<1>. QED
  BY <1>1, <1>2, <1>3, PTL DEF SafeSpec

(* The lines the writer was handed are in its files, whole and in order.     *)
THEOREM HandedLinesAreSaved ==
  ~RelaxedClaim /\ "reused" \notin FreedOutcomes => (SafeSpec => []HandedIsSaved)
<1>. SUFFICES ASSUME ~RelaxedClaim, "reused" \notin FreedOutcomes
              PROVE  SafeSpec => []HandedIsSaved
  OBVIOUS
<1>1. SafeInit => SafeInv
  BY SafeInvInit
<1>2. SafeInv /\ [SafeNext]_safeVars => SafeInv'
  BY SafeInvNext
<1>3. SafeInv => HandedIsSaved
  <2>. SUFFICES ASSUME SafeInv PROVE HandedIsSaved
    OBVIOUS
  <2>. DEFINE pieces == PiecesIn(disk, number)
  <2>1. WriterTyped /\ file \in Seq(Lines)
    BY DEF SafeInv, Kept
  <2>2. /\ pieces \in Seq(Pieces) /\ Len(pieces) = Len(file)
        /\ \A i \in 1..Len(file) : pieces[i].line = file[i]
    BY <2>1, WriterFiles DEF SafeInv, Landed
  <2>3. Writer!OnDisk = pieces
    BY <2>1 DEF WriterTyped, PiecesIn, Writer!OnDisk, Writer!FlattenSeq, FlattenSeq
  <2>. HIDE DEF pieces
  <2>4. Saved = file
    <3>1. Saved = [i \in 1..Len(file) |-> file[i]]
      BY <2>1, <2>2, <2>3 DEF Saved
    <3>. QED
      BY <2>1, <3>1
  <2>5. \A i \in 1..Len(file) : Writer!Whole(pieces[i])
    <3>. SUFFICES ASSUME NEW i \in 1..Len(file) PROVE Writer!Whole(pieces[i])
      OBVIOUS
    <3>1. pieces[i] \in Pieces
      BY <2>1, <2>2
    <3>. QED
      BY <3>1 DEF Pieces, Writer!Whole
  <2>6. DOMAIN Saved = 1..Len(file)
    BY <2>1, <2>4
  <2>. QED
    BY <2>3, <2>4, <2>5, <2>6 DEF HandedIsSaved
<1>. QED
  BY <1>1, <1>2, <1>3, PTL DEF SafeSpec

(* The queue under a logger is still the lossless buffer. *)
LEMMA SafeBaseNext ==
  SafeInv /\ SafeInv' /\ [SafeNext]_safeVars => [Base!Next]_(Base!vars)
<1>. SUFFICES ASSUME SafeInv, SafeInv', [SafeNext]_safeVars PROVE [Base!Next]_(Base!vars)
  OBVIOUS
<1>. Queued /\ Phases /\ QueueInv /\ Sound /\ QueueInv' /\ Sound'
  BY DEF SafeInv, Queued
<1>1. CASE [Next]_vars
  BY <1>1, BaseNext
<1>2. CASE Taken
  <2>1. Logged' = Logged /\ popped' = popped
    BY <1>2, TakenQueue
  <2>2. (InTransit \cup Stored)' = InTransit \cup Stored
    BY <2>1, PendingIs, PendingStays DEF Pending
  <2>. QED
    BY <2>1, <2>2 DEF Base!vars
<1>. QED
  BY <1>1, <1>2, QueueSide

(* So, with the worker for its consumer, too: a loss is never the queue's. *)
THEOREM SafeBufferImplemented ==
  ~RelaxedClaim /\ "reused" \notin FreedOutcomes => (SafeSpec => ImplementsBufferBase)
<1>. SUFFICES ASSUME ~RelaxedClaim, "reused" \notin FreedOutcomes
              PROVE  SafeSpec => ImplementsBufferBase
  OBVIOUS
<1>1. SafeInit => SafeInv
  BY SafeInvInit
<1>2. SafeInv /\ [SafeNext]_safeVars => SafeInv'
  BY SafeInvNext
<1>3. SafeInv /\ SafeInit => Base!Init
  BY BaseInit DEF SafeInv, Queued, SafeInit
<1>. QED
  BY <1>1, <1>2, <1>3, SafeBaseNext, PTL
     DEF SafeSpec, ImplementsBufferBase, Base!Spec
===============================================================================
