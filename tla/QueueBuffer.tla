------------------------------ MODULE QueueBuffer ------------------------------
(***************************************************************************)
(* The buffer of the Safe mode (queuebuffer.h, queuebuffer.cpp): a queue   *)
(* of fixed-size Buffers.  Producers share m_writeIndex: a fetch_add below *)
(* Size owns that item of the current write buffer, any other spins until  *)
(* the producer that counts the last item has installed the next Buffer    *)
(* and reset the index.  The consumer reads the front Buffer and frees it  *)
(* with its last item.                                                     *)
(*                                                                         *)
(* One action per atomic step on shared memory.  Spinning changes nothing, *)
(* so it is no step.  Buffers are numbered in the order of allocation.     *)
(***************************************************************************)
EXTENDS Integers, Sequences, Functions

CONSTANTS
  Producers,     \* the threads that log
  MaxPush,       \* bound: each producer logs this many lines
  Size,          \* Buffer::size, 32768 in the code
  NoLine,        \* the contents of an item no line was constructed in
  AllocFaults,   \* how allocating a Buffer may fail, see SetupStore, SetupThrow
  FreedOutcomes, \* what an access to freed memory can do, see Count
  RelaxedClaim   \* TRUE if the claim of an item orders no later load (AArch64)

Lines == Producers \X (1..MaxPush)
Items == 0..(Size - 1)
NoBuffer == 0

ASSUME QueueAssumption ==
  /\ Size \in Nat \ {0}
  /\ MaxPush \in Nat
  /\ NoLine \notin Lines
  /\ AllocFaults \subseteq {"null", "throw"}
  /\ FreedOutcomes \subseteq {"intact", "reused", "fault"}
  /\ RelaxedClaim \in BOOLEAN

VARIABLES
  heap,         \* heap[b]: the contents of Buffer b, allocated b-th
  freed,        \* the Buffers that were deleted
  buffers,      \* m_buffers
  writeBuffer,  \* m_currentWriteBuffer
  readBuffer,   \* m_currentReadBuffer
  writeIndex,   \* m_writeIndex
  readIndex,    \* m_readIndex
  flag,         \* m_flag, the spin lock
  pc,           \* pc[p]: where producer p is in push()
  index,        \* index[p]: its local writeIndex
  target,       \* target[p]: the Buffer p loaded from m_currentWriteBuffer
  seen,         \* seen[p]: the oldest value p's next such load may return
  pushed,       \* pushed[p]: the number of lines p has handed to push()
  pop,          \* where the consumer is in tryPop(), or its result
  out,          \* the consumer's line, the parameter of tryPop()
  popped,       \* history: the lines moved out by tryPop(), in order
  damage,       \* history: what accesses to memory not theirs have done
  failed        \* history: an allocation of a Buffer has thrown

bufferVars == <<heap, freed, buffers, writeBuffer, writeIndex, flag>>
producerVars == <<pc, index, target, seen, pushed>>
consumerVars == <<readBuffer, readIndex, pop, out, popped>>
vars == <<bufferVars, producerVars, consumerVars, damage, failed>>

Line(p) == <<p, pushed[p]>>

(* Buffer::Buffer: raw memory, every state and the count of them zero.  The *)
(* result of malloc is not looked at; a null pointer has no items.          *)
RawItems == [i \in Items |-> NoLine]
NullItems == <<>>
NewBuffer(items) ==
  [logline    |-> items,
   writeState |-> [i \in Items |-> FALSE],
   count      |-> 0]

(* QueueBuffer::QueueBuffer has run setupNextWriteBuffer once. *)
Init ==
  /\ heap = <<NewBuffer(RawItems)>>
  /\ freed = {}
  /\ buffers = <<1>>
  /\ writeBuffer = 1
  /\ readBuffer = NoBuffer
  /\ writeIndex = 0
  /\ readIndex = 0
  /\ flag = FALSE
  /\ pc = [p \in Producers |-> "idle"]
  /\ index = [p \in Producers |-> 0]
  /\ target = [p \in Producers |-> NoBuffer]
  /\ seen = [p \in Producers |-> 1]
  /\ pushed = [p \in Producers |-> 0]
  /\ pop = "ready"
  /\ out = NoLine
  /\ popped = <<>>
  /\ damage = {}
  /\ failed = FALSE

-------------------------------------------------------------------------------
(* Slips that the properties below catch.  No action uses them: to put one   *)
(* in the place of the definition it is named after shows that the property  *)
(* named with it is violated.                                                *)

(* ResetSafely: a Buffer that counts itself full one item early. *)
CountInEarly(p, b) ==
  /\ heap' = [heap EXCEPT ![b].count = @ + 1]
  /\ pc' = [pc EXCEPT ![p] = IF heap[b].count + 2 = Size THEN "full" ELSE "idle"]

(* FullIsReplaced: a Buffer that does not take note of its last item. *)
CountInLate(p, b) ==
  /\ heap' = [heap EXCEPT ![b].count = @ + 1]
  /\ pc' = [pc EXCEPT ![p] = IF heap[b].count = Size THEN "full" ELSE "idle"]

(* FlagGuardsQueue: the exception leaves push() with the lock still held. *)
SetupThrowKeepsLock(p) ==
  /\ "throw" \in AllocFaults
  /\ pc[p] = "setup" /\ "fault" \notin damage
  /\ pc' = [pc EXCEPT ![p] = "idle"]
  /\ failed' = TRUE
  /\ UNCHANGED <<bufferVars, index, target, seen, pushed, consumerVars, damage>>

(* NothingLost: the index is reset before the next Buffer is installed. *)
SetupLockResets(p) ==
  /\ pc[p] = "full" /\ "fault" \notin damage /\ ~flag
  /\ pc' = [pc EXCEPT ![p] = "setup"]
  /\ flag' = TRUE
  /\ writeIndex' = 0
  /\ UNCHANGED <<heap, freed, buffers, writeBuffer, index, target, seen, pushed,
                 consumerVars, damage, failed>>

(* AddReturns of SafeLogger: the index is never reset. *)
SetupResetForgotten(p) ==
  /\ pc[p] = "enqueued" /\ "fault" \notin damage
  /\ pc' = [pc EXCEPT ![p] = "reset"]
  /\ UNCHANGED <<bufferVars, index, target, seen, pushed, consumerVars, damage, failed>>

(* ImplementsBufferBase: tryPop() does not look at the item's state. *)
IsWrittenAlways(b, i) == TRUE

(* TypeOK: the read buffer is left one item too late. *)
PopMoveLate ==
  /\ pop = "called" /\ "fault" \notin damage /\ readBuffer # NoBuffer
  /\ heap[readBuffer].writeState[readIndex]
  /\ out' = heap[readBuffer].logline[readIndex]
  /\ popped' = Append(popped, out')
  /\ IF readIndex = Size
       THEN readIndex' = 0 /\ readBuffer' = NoBuffer /\ pop' = "finished"
       ELSE readIndex' = readIndex + 1 /\ pop' = "true" /\ UNCHANGED readBuffer
  /\ UNCHANGED <<bufferVars, producerVars, damage, failed>>

(* BuffersReclaimed: the queue's element is popped and never deleted. *)
PopRetireLeaks ==
  /\ pop = "retire" /\ "fault" \notin damage
  /\ buffers' = Tail(buffers)
  /\ flag' = FALSE
  /\ pop' = "true"
  /\ UNCHANGED <<heap, freed, writeBuffer, writeIndex, producerVars, readBuffer,
                 readIndex, out, popped, damage, failed>>

-------------------------------------------------------------------------------
(* QueueBuffer::push *)

(* The threads run until one of them faults. *)
At(p, here) == pc[p] = here /\ "fault" \notin damage
Goto(p, here, there) == At(p, here) /\ pc' = [pc EXCEPT ![p] = there]

(* m_writeIndex.fetch_add(1): an item of the write buffer, or none left. *)
FetchAdd(p) ==
  /\ index' = [index EXCEPT ![p] = writeIndex]
  /\ writeIndex' = writeIndex + 1
  /\ pc' = [pc EXCEPT ![p] = IF writeIndex < Size THEN "claimed" ELSE "waiting"]
  /\ UNCHANGED <<heap, freed, buffers, writeBuffer, flag, target, seen,
                 consumerVars, damage, failed>>

Claim(p) ==
  /\ At(p, "idle")
  /\ pushed[p] < MaxPush
  /\ pushed' = [pushed EXCEPT ![p] = @ + 1]
  /\ FetchAdd(p)

(* The empty loop ends when an acquire load finds the index reset; what was *)
(* stored before the reset is seen from then on.                            *)
WaitOver(p) ==
  /\ Goto(p, "waiting", "retry")
  /\ writeIndex < Size
  /\ seen' = [seen EXCEPT ![p] = writeBuffer]
  /\ UNCHANGED <<bufferVars, index, target, pushed, consumerVars, damage, failed>>

(* push() calls itself. *)
Retry(p) ==
  /\ At(p, "retry")
  /\ FetchAdd(p)
  /\ UNCHANGED pushed

(* m_currentWriteBuffer.load(acquire) after a relaxed fetch_add: nothing    *)
(* orders the two, unless the fetch_add is a full barrier as on x86-64.     *)
Loadable(p) == IF RelaxedClaim THEN seen[p]..writeBuffer ELSE {writeBuffer}

Load(p) ==
  /\ Goto(p, "claimed", "loaded")
  /\ \E b \in Loadable(p) :
       /\ target' = [target EXCEPT ![p] = b]
       /\ seen' = [seen EXCEPT ![p] = b]
  /\ UNCHANGED <<bufferVars, index, pushed, consumerVars, damage, failed>>

(* Buffer::push: placement new of the item, which faults without items, ... *)
ConstructFault(p) ==
  /\ At(p, "loaded")
  /\ heap[target[p]].logline = NullItems
  /\ damage' = damage \cup {"fault"}
  /\ UNCHANGED <<bufferVars, producerVars, consumerVars, failed>>

Construct(p) ==
  /\ Goto(p, "loaded", "constructed")
  /\ heap[target[p]].logline # NullItems
  /\ heap' = [heap EXCEPT ![target[p]].logline[index[p]] = Line(p)]
  /\ UNCHANGED <<freed, buffers, writeBuffer, writeIndex, flag, index, target,
                 seen, pushed, consumerVars, damage, failed>>

(* ... m_writeState[writeIndex].store(1, release): the consumer may take it, *)
Publish(p) ==
  /\ Goto(p, "constructed", "published")
  /\ heap' = [heap EXCEPT ![target[p]].writeState[index[p]] = TRUE]
  /\ UNCHANGED <<freed, buffers, writeBuffer, writeIndex, flag, index, target,
                 seen, pushed, consumerVars, damage, failed>>

(* ... and m_writeState[size].fetch_add(1) + 1 == size.  When the consumer  *)
(* has meanwhile read the whole Buffer and deleted it, the memory may be    *)
(* untouched, part of another Buffer by now or of something else, or no     *)
(* longer mapped.                                                           *)
CountIn(p, b) ==
  /\ heap' = [heap EXCEPT ![b].count = @ + 1]
  /\ pc' = [pc EXCEPT ![p] = IF heap[b].count + 1 = Size THEN "full" ELSE "idle"]

CountFreed(p) ==
  \/ /\ "reused" \in FreedOutcomes
     /\ \E b \in (DOMAIN heap) \ freed : CountIn(p, b)
     /\ damage' = damage \cup {"reused"}
  \/ /\ "reused" \in FreedOutcomes
     /\ \E next \in {"full", "idle"} : pc' = [pc EXCEPT ![p] = next]
     /\ damage' = damage \cup {"reused"}
     /\ UNCHANGED heap
  \/ /\ "fault" \in FreedOutcomes
     /\ damage' = damage \cup {"fault"}
     /\ UNCHANGED <<heap, pc>>

Count(p) ==
  /\ At(p, "published")
  /\ \/ /\ target[p] \notin freed \/ "intact" \in FreedOutcomes
        /\ CountIn(p, target[p])
        /\ UNCHANGED damage
     \/ /\ target[p] \in freed
        /\ CountFreed(p)
  /\ UNCHANGED <<freed, buffers, writeBuffer, writeIndex, flag, index, target,
                 seen, pushed, consumerVars, failed>>

(* QueueBuffer::setupNextWriteBuffer, under SpinLock lock(m_flag). *)
SetupLock(p) ==
  /\ Goto(p, "full", "setup")
  /\ ~flag
  /\ flag' = TRUE
  /\ UNCHANGED <<heap, freed, buffers, writeBuffer, writeIndex, index, target,
                 seen, pushed, consumerVars, damage, failed>>

SetupStore(p) ==
  /\ Goto(p, "setup", "stored")
  /\ \E items \in {RawItems} \cup (IF "null" \in AllocFaults THEN {NullItems} ELSE {}) :
       heap' = Append(heap, NewBuffer(items))
  /\ writeBuffer' = Len(heap) + 1
  /\ UNCHANGED <<freed, buffers, writeIndex, flag, index, target, seen, pushed,
                 consumerVars, damage, failed>>

(* make_unique throws: ~SpinLock, and the exception leaves push(), whose     *)
(* line was published before.  The index stays where it is.                  *)
SetupThrow(p) ==
  /\ "throw" \in AllocFaults
  /\ Goto(p, "setup", "idle")
  /\ flag' = FALSE
  /\ failed' = TRUE
  /\ UNCHANGED <<heap, freed, buffers, writeBuffer, writeIndex, index, target,
                 seen, pushed, consumerVars, damage>>

SetupEnqueue(p) ==
  /\ Goto(p, "stored", "enqueued")
  /\ buffers' = Append(buffers, writeBuffer)
  /\ UNCHANGED <<heap, freed, writeBuffer, writeIndex, flag, index, target,
                 seen, pushed, consumerVars, damage, failed>>

SetupReset(p) ==
  /\ Goto(p, "enqueued", "reset")
  /\ writeIndex' = 0
  /\ UNCHANGED <<heap, freed, buffers, writeBuffer, flag, index, target, seen,
                 pushed, consumerVars, damage, failed>>

SetupUnlock(p) ==
  /\ Goto(p, "reset", "idle")
  /\ flag' = FALSE
  /\ seen' = [seen EXCEPT ![p] = writeBuffer]
  /\ UNCHANGED <<heap, freed, buffers, writeBuffer, writeIndex, index, target,
                 pushed, consumerVars, damage, failed>>

PushStep(p) ==
  \/ WaitOver(p) \/ Retry(p) \/ Load(p) \/ Construct(p) \/ ConstructFault(p)
  \/ Publish(p) \/ Count(p) \/ SetupLock(p) \/ SetupStore(p) \/ SetupThrow(p)
  \/ SetupEnqueue(p) \/ SetupReset(p) \/ SetupUnlock(p)

Produce(p) == Claim(p) \/ PushStep(p)

-------------------------------------------------------------------------------
(* QueueBuffer::tryPop *)

PopAt(here) == pop = here /\ "fault" \notin damage

(* The caller's side: a call, made once the last one has returned. *)
PopCall ==
  /\ \E r \in {"ready", "true", "false"} : PopAt(r)
  /\ pop' = "called"
  /\ UNCHANGED <<bufferVars, producerVars, readBuffer, readIndex, out, popped,
                 damage, failed>>

(* getNextReadBuffer, under SpinLock lock(m_flag). *)
PopFrontLock ==
  /\ PopAt("called")
  /\ readBuffer = NoBuffer
  /\ ~flag
  /\ flag' = TRUE
  /\ pop' = "front"
  /\ UNCHANGED <<heap, freed, buffers, writeBuffer, writeIndex, producerVars,
                 readBuffer, readIndex, out, popped, damage, failed>>

PopFront ==
  /\ PopAt("front")
  /\ flag' = FALSE
  /\ IF buffers = <<>>
       THEN readBuffer' = NoBuffer /\ pop' = "false"
       ELSE readBuffer' = Head(buffers) /\ pop' = "called"
  /\ UNCHANGED <<heap, freed, buffers, writeBuffer, writeIndex, producerVars,
                 readIndex, out, popped, damage, failed>>

(* Buffer::tryPop: the acquire load of the item's state decides. *)
IsWritten(b, i) == heap[b].writeState[i]

PopFalse ==
  /\ PopAt("called")
  /\ readBuffer # NoBuffer
  /\ ~IsWritten(readBuffer, readIndex)
  /\ pop' = "false"
  /\ UNCHANGED <<bufferVars, producerVars, readBuffer, readIndex, out, popped,
                 damage, failed>>

(* The line is moved out, m_readIndex++, and after the last item the read   *)
(* buffer is forgotten.                                                     *)
PopMove ==
  /\ PopAt("called")
  /\ readBuffer # NoBuffer
  /\ IsWritten(readBuffer, readIndex)
  /\ out' = heap[readBuffer].logline[readIndex]
  /\ popped' = Append(popped, out')
  /\ IF readIndex + 1 = Size
       THEN readIndex' = 0 /\ readBuffer' = NoBuffer /\ pop' = "finished"
       ELSE readIndex' = readIndex + 1 /\ pop' = "true" /\ UNCHANGED readBuffer
  /\ UNCHANGED <<bufferVars, producerVars, damage, failed>>

(* SpinLock lock(m_flag); m_buffers.pop(): the front Buffer is deleted. *)
PopRetireLock ==
  /\ PopAt("finished")
  /\ ~flag
  /\ flag' = TRUE
  /\ pop' = "retire"
  /\ UNCHANGED <<heap, freed, buffers, writeBuffer, writeIndex, producerVars,
                 readBuffer, readIndex, out, popped, damage, failed>>

PopRetire ==
  /\ PopAt("retire")
  /\ freed' = freed \cup {Head(buffers)}
  /\ buffers' = Tail(buffers)
  /\ flag' = FALSE
  /\ pop' = "true"
  /\ UNCHANGED <<heap, writeBuffer, writeIndex, producerVars, readBuffer,
                 readIndex, out, popped, damage, failed>>

TryPop ==
  PopFrontLock \/ PopFront \/ PopFalse \/ PopMove \/ PopRetireLock \/ PopRetire

-------------------------------------------------------------------------------
Next == (\E p \in Producers : Produce(p)) \/ PopCall \/ TryPop

Spec == Init /\ [][Next]_vars

-------------------------------------------------------------------------------
(* Type invariant. *)
TypeOK ==
  /\ heap \in Seq([logline : [Items -> Lines \cup {NoLine}] \cup {NullItems},
                   writeState : [Items -> BOOLEAN], count : Nat])
  /\ freed \subseteq DOMAIN heap
  /\ buffers \in Seq(DOMAIN heap)
  /\ writeBuffer \in DOMAIN heap
  /\ readBuffer \in DOMAIN heap \cup {NoBuffer}
  /\ writeIndex \in Nat
  /\ readIndex \in Items
  /\ flag \in BOOLEAN
  /\ pc \in [Producers -> {"idle", "waiting", "retry", "claimed", "loaded",
                           "constructed", "published", "full", "setup",
                           "stored", "enqueued", "reset"}]
  /\ index \in [Producers -> Nat]
  /\ target \in [Producers -> DOMAIN heap \cup {NoBuffer}]
  /\ seen \in [Producers -> DOMAIN heap]
  /\ pushed \in [Producers -> 0..MaxPush]
  /\ pop \in {"ready", "called", "front", "finished", "retire", "true", "false"}
  /\ out \in Lines \cup {NoLine}
  /\ popped \in Seq(Lines \cup {NoLine})
  /\ damage \subseteq {"reused", "fault"}
  /\ failed \in BOOLEAN

(* Where a line can be: with a producer that has not published its item    *)
(* yet, or in an item of a queued Buffer the consumer has not passed.      *)
Logged == {l \in Lines : l[2] <= pushed[l[1]]}
InTransit == {Line(p) : p \in {q \in Producers :
  pc[q] \in {"waiting", "retry", "claimed", "loaded", "constructed"}}}
Passed(k, i) ==
  k = 1 /\ (pop \in {"finished", "retire"} \/ (readBuffer # NoBuffer /\ i < readIndex))
Stored == {heap[buffers[ki[1]]].logline[ki[2]] : ki \in
  {kj \in (DOMAIN buffers) \X Items :
     heap[buffers[kj[1]]].writeState[kj[2]] /\ ~Passed(kj[1], kj[2])}}

(* Every line ever handed to push() is on its way, waiting in an item of a  *)
(* queued Buffer, or read: the claims, the switch of Buffers, the reset of  *)
(* the index and the deletion of a Buffer lose no line, as long as no       *)
(* producer has counted in memory that was reused for something else.       *)
NothingLost ==
  "reused" \notin damage =>
    /\ Logged = InTransit \cup Stored \cup Range(popped)
    /\ (InTransit \cup Stored) \cap Range(popped) = {}
    /\ IsInjective(popped)

(* The index is reset, and the items are handed out anew, only when every   *)
(* item of the old Buffer was published and every producer that owns one    *)
(* has left it; again unless one has counted in reused memory.              *)
ResetSafely ==
  [][\A p \in Producers : SetupReset(p) /\ "reused" \notin damage =>
       \A q \in Producers :
         pc[q] \notin {"claimed", "loaded", "constructed", "published"}]_vars

(* A Buffer is deleted only when all its lines were read, and none is left  *)
(* behind: what is allocated is in the queue or about to be put there; with *)
(* the same exception.                                                      *)
BuffersReclaimed ==
  "reused" \notin damage =>
    /\ \A b \in freed : Range(heap[b].logline) \subseteq Range(popped)
    /\ (DOMAIN heap) \ freed =
         Range(buffers) \cup {writeBuffer : p \in {q \in Producers : pc[q] = "stored"}}

(* Who waits does not wait for nobody: when the items of the write Buffer   *)
(* are handed out, a producer has yet to leave its item, or the one that    *)
(* left the last is installing the next Buffer; and nobody else ever is.    *)
(* Short of a failed allocation, after which producers do wait for nobody,  *)
(* and with the same exception.                                             *)
Installing(p) == pc[p] \in {"full", "setup", "stored", "enqueued"}
FullIsReplaced ==
  "reused" \notin damage =>
    /\ writeIndex >= Size /\ ~failed =>
         \E p \in Producers :
           Installing(p) \/ pc[p] \in {"claimed", "loaded", "constructed", "published"}
    /\ \A p, q \in Producers : Installing(p) /\ Installing(q) => p = q

(* The queue of Buffers is a std::queue, which two threads must not touch at *)
(* once: the consumer looks at its front and pops it, and a producer puts a  *)
(* Buffer there, only with m_flag, which one of them has at a time; and      *)
(* nobody leaves with it, an exception included.                             *)
HasFlag(p) == pc[p] \in {"setup", "stored", "enqueued", "reset"}
PopHasFlag == pop \in {"front", "retire"}
FlagGuardsQueue ==
  /\ flag <=> PopHasFlag \/ \E p \in Producers : HasFlag(p)
  /\ \A p \in Producers : HasFlag(p) =>
       ~PopHasFlag /\ \A q \in Producers : HasFlag(q) => q = p

(* The queue is a lossless buffer that keeps each producer's order: see     *)
(* BufferBase.                                                              *)
Base == INSTANCE BufferBase WITH
  Lossy <- FALSE,
  Earlier <- {kl \in Lines \X Lines : kl[1][1] = kl[2][1] /\ kl[1][2] < kl[2][2]},
  pending <- InTransit \cup Stored, delivered <- popped, discarded <- {}
ImplementsBufferBase == Base!Spec

(* README.md:14 says the buffers are safe under concurrency, and            *)
(* queuebuffer.h:17 that a Buffer is released after it was filled and read: *)
(* no producer is still in Buffer::push of a Buffer that was deleted.       *)
NoUseAfterFree ==
  \A p \in Producers :
    pc[p] \in {"loaded", "constructed", "published"} => target[p] \notin freed
===============================================================================
