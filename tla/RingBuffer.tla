------------------------------ MODULE RingBuffer ------------------------------
(***************************************************************************)
(* The buffer of the Quick mode (ringbuffer.h, ringbuffer.cpp): a fixed    *)
(* array of items, each with its own spin lock, written by many producers  *)
(* and read by one consumer.  A producer takes an index with an atomic     *)
(* fetch_add, never looking at the reader, and overwrites whatever the     *)
(* item holds; the consumer only ever looks at the item of its own index.  *)
(*                                                                         *)
(* push() and tryPop() are modelled step by step, one action per atomic    *)
(* step on memory that another thread can see.  Trying to take a spin lock *)
(* that is held changes nothing, so it is no step.                         *)
(***************************************************************************)
EXTENDS Integers, Sequences, Functions

CONSTANTS
  Producers,  \* the threads that log
  MaxPush,    \* bound: each producer logs this many lines
  Size,       \* m_size
  IndexMod,   \* 2^32 in the code: the indices are unsigned ints and wrap
  NoLine      \* the default-constructed line of an item never written

Lines == Producers \X (1..MaxPush)
Slots == 0..(Size - 1)

ASSUME RingAssumption ==
  /\ Size \in Nat \ {0}
  /\ IndexMod \in Nat \ {0}
  /\ MaxPush \in Nat
  /\ NoLine \notin Lines

VARIABLES
  writeIndex,   \* m_writeIndex
  readIndex,    \* m_readIndex
  flag,         \* flag[s]: the spin lock of item s
  written,      \* written[s]: item s holds a line nobody has taken
  logline,      \* logline[s]: the line in item s, also after it was moved out
  pc,           \* pc[p]: where producer p is in push()
  index,        \* index[p]: its local variable
  ticket,       \* history: the value of the fetch_add behind index[p], unwrapped
  pushed,       \* pushed[p]: the number of lines p has handed to push()
  pop,          \* where the consumer is in tryPop(), or its result
  item,         \* the consumer's local reference, as a slot
  out,          \* the consumer's line, the parameter of tryPop()
  claimed,      \* history: the lines in the order of their fetch_add
  popped,       \* history: the lines moved out by tryPop(), in order
  overwritten,  \* history: the lines that were overwritten before being read
  lapped        \* history: a claim was Size or more ahead of the reader

producerVars == <<pc, index, ticket, pushed, claimed, lapped>>
consumerVars == <<readIndex, pop, item, out, popped>>
vars == <<writeIndex, flag, written, logline, overwritten,
          producerVars, consumerVars>>

(* The line that producer p is handing, or has last handed, to push(). *)
Line(p) == <<p, pushed[p]>>

(* A slip that TypeOK catches: an index that does not wrap. *)
BumpNoWrap(i) == i + 1

(* The item of an index, and the next index of an unsigned int. *)
Slot(i) == i % Size
Bump(i) == (i + 1) % IndexMod

Init ==
  /\ writeIndex = 0
  /\ readIndex = 0
  /\ flag = [s \in Slots |-> FALSE]
  /\ written = [s \in Slots |-> FALSE]
  /\ logline = [s \in Slots |-> NoLine]
  /\ pc = [p \in Producers |-> "idle"]
  /\ index = [p \in Producers |-> 0]
  /\ ticket = [p \in Producers |-> 0]
  /\ pushed = [p \in Producers |-> 0]
  /\ pop = "ready"
  /\ item = 0
  /\ out = NoLine
  /\ claimed = <<>>
  /\ popped = <<>>
  /\ overwritten = {}
  /\ lapped = FALSE

-------------------------------------------------------------------------------
(* Slips that the properties below catch.  No action uses them: to put one   *)
(* in the place of the definition it is named after shows that the property  *)
(* named with it is violated.                                                *)

(* Accounted: no spin lock. *)
IsFreeAlways(s) == TRUE

(* AddReturns of QuickLogger: the early return keeps the lock. *)
PopFalseKeepsLock ==
  /\ pop = "locked" /\ ~written[item]
  /\ pop' = "false"
  /\ UNCHANGED <<writeIndex, flag, written, logline, overwritten, producerVars,
                 readIndex, item, out, popped>>

(* FalseMeansDrained: the reader skips an item that is not written. *)
PopFalseSkips ==
  /\ pop = "locked" /\ ~written[item]
  /\ flag' = [flag EXCEPT ![item] = FALSE]
  /\ readIndex' = Bump(readIndex)
  /\ pop' = "false"
  /\ UNCHANGED <<writeIndex, written, logline, overwritten, producerVars,
                 item, out, popped>>

(* FifoUnlessLapped: ++m_readIndex is forgotten. *)
PopClearStays ==
  /\ pop = "moved"
  /\ written' = [written EXCEPT ![item] = FALSE]
  /\ pop' = "cleared"
  /\ UNCHANGED <<writeIndex, readIndex, flag, logline, overwritten,
                 producerVars, item, out, popped>>

(* ImplementsBufferBase: item.written = 0 is forgotten. *)
PopClearKeepsMark ==
  /\ pop = "moved"
  /\ readIndex' = Bump(readIndex)
  /\ pop' = "cleared"
  /\ UNCHANGED <<writeIndex, flag, written, logline, overwritten,
                 producerVars, item, out, popped>>

-------------------------------------------------------------------------------
(* RingBuffer::push *)

(* m_writeIndex.fetch_add(1) % m_size: the item is chosen, and nothing ties *)
(* the producer to the moment it will write there.                          *)
Claim(p) ==
  /\ pc[p] = "idle"
  /\ pushed[p] < MaxPush
  /\ pc' = [pc EXCEPT ![p] = "claimed"]
  /\ pushed' = [pushed EXCEPT ![p] = @ + 1]
  /\ index' = [index EXCEPT ![p] = Slot(writeIndex)]
  /\ ticket' = [ticket EXCEPT ![p] = Len(claimed)]
  /\ writeIndex' = Bump(writeIndex)
  /\ claimed' = Append(claimed, <<p, pushed[p] + 1>>)
  /\ lapped' = (lapped \/ Len(claimed) - Len(popped) >= Size)
  /\ UNCHANGED <<flag, written, logline, overwritten, consumerVars>>

(* SpinLock lock(item.flag): test_and_set found it clear. *)
IsFree(s) == ~flag[s]

PushLock(p) ==
  /\ pc[p] = "claimed"
  /\ IsFree(index[p])
  /\ flag' = [flag EXCEPT ![index[p]] = TRUE]
  /\ pc' = [pc EXCEPT ![p] = "locked"]
  /\ UNCHANGED <<writeIndex, written, logline, overwritten, index, ticket,
                 pushed, claimed, lapped, consumerVars>>

(* item.logline = std::move(logline), whether or not the item was read. *)
PushMove(p) ==
  /\ pc[p] = "locked"
  /\ logline' = [logline EXCEPT ![index[p]] = Line(p)]
  /\ overwritten' = IF written[index[p]]
                      THEN overwritten \cup {logline[index[p]]}
                      ELSE overwritten
  /\ pc' = [pc EXCEPT ![p] = "moved"]
  /\ UNCHANGED <<writeIndex, flag, written, index, ticket, pushed, claimed,
                 lapped, consumerVars>>

(* item.written = 1 *)
PushMark(p) ==
  /\ pc[p] = "moved"
  /\ written' = [written EXCEPT ![index[p]] = TRUE]
  /\ pc' = [pc EXCEPT ![p] = "marked"]
  /\ UNCHANGED <<writeIndex, flag, logline, overwritten, index, ticket,
                 pushed, claimed, lapped, consumerVars>>

(* ~SpinLock, and push() returns. *)
PushUnlock(p) ==
  /\ pc[p] = "marked"
  /\ flag' = [flag EXCEPT ![index[p]] = FALSE]
  /\ pc' = [pc EXCEPT ![p] = "idle"]
  /\ UNCHANGED <<writeIndex, written, logline, overwritten, index, ticket,
                 pushed, claimed, lapped, consumerVars>>

Produce(p) ==
  Claim(p) \/ PushLock(p) \/ PushMove(p) \/ PushMark(p) \/ PushUnlock(p)

-------------------------------------------------------------------------------
(* RingBuffer::tryPop *)

(* The caller's side: a call, made once the last one has returned. *)
PopCall ==
  /\ pop \in {"ready", "true", "false"}
  /\ pop' = "called"
  /\ UNCHANGED <<writeIndex, flag, written, logline, overwritten,
                 producerVars, readIndex, item, out, popped>>

PopLock ==
  /\ pop = "called"
  /\ IsFree(Slot(readIndex))
  /\ item' = Slot(readIndex)
  /\ flag' = [flag EXCEPT ![Slot(readIndex)] = TRUE]
  /\ pop' = "locked"
  /\ UNCHANGED <<writeIndex, written, logline, overwritten, producerVars,
                 readIndex, out, popped>>

(* item.written == 1: logline = std::move(item.logline).  The moved-from    *)
(* line keeps its bytes; only `written' tells that it was read.             *)
PopMove ==
  /\ pop = "locked"
  /\ written[item]
  /\ out' = logline[item]
  /\ popped' = Append(popped, logline[item])
  /\ pop' = "moved"
  /\ UNCHANGED <<writeIndex, flag, written, logline, overwritten,
                 producerVars, readIndex, item>>

(* item.written = 0; ++m_readIndex *)
PopClear ==
  /\ pop = "moved"
  /\ written' = [written EXCEPT ![item] = FALSE]
  /\ readIndex' = Bump(readIndex)
  /\ pop' = "cleared"
  /\ UNCHANGED <<writeIndex, flag, logline, overwritten, producerVars, item,
                 out, popped>>

(* ~SpinLock, and tryPop() returns true. *)
PopTrue ==
  /\ pop = "cleared"
  /\ flag' = [flag EXCEPT ![item] = FALSE]
  /\ pop' = "true"
  /\ UNCHANGED <<writeIndex, written, logline, overwritten, producerVars,
                 readIndex, item, out, popped>>

(* The item is not written: ~SpinLock, and tryPop() returns false. *)
PopFalse ==
  /\ pop = "locked"
  /\ ~written[item]
  /\ flag' = [flag EXCEPT ![item] = FALSE]
  /\ pop' = "false"
  /\ UNCHANGED <<writeIndex, written, logline, overwritten, producerVars,
                 readIndex, item, out, popped>>

TryPop == PopLock \/ PopMove \/ PopClear \/ PopTrue \/ PopFalse

-------------------------------------------------------------------------------
Next == (\E p \in Producers : Produce(p)) \/ PopCall \/ TryPop

Spec == Init /\ [][Next]_vars

-------------------------------------------------------------------------------
(* Type invariant. *)
TypeOK ==
  /\ writeIndex \in 0..(IndexMod - 1)
  /\ readIndex \in 0..(IndexMod - 1)
  /\ flag \in [Slots -> BOOLEAN]
  /\ written \in [Slots -> BOOLEAN]
  /\ logline \in [Slots -> Lines \cup {NoLine}]
  /\ pc \in [Producers -> {"idle", "claimed", "locked", "moved", "marked"}]
  /\ index \in [Producers -> Slots]
  /\ ticket \in [Producers -> Nat]
  /\ pushed \in [Producers -> 0..MaxPush]
  /\ pop \in {"ready", "called", "locked", "moved", "cleared", "true", "false"}
  /\ item \in Slots
  /\ out \in Lines \cup {NoLine}
  /\ claimed \in Seq(Lines)
  /\ popped \in Seq(Lines \cup {NoLine})
  /\ overwritten \in SUBSET (Lines \cup {NoLine})
  /\ lapped \in BOOLEAN

(* Where a line can be: with a producer that has not marked its item yet,  *)
(* or in an item the consumer can still take it from.                      *)
Logged == {l \in Lines : l[2] <= pushed[l[1]]}
InTransit == {Line(p) : p \in {q \in Producers :
                                 pc[q] \in {"claimed", "locked", "moved"}}}
Readable(s) == written[s] /\ ~(pop = "moved" /\ item = s)
Stored == {logline[s] : s \in {t \in Slots : Readable(t)}}

(* Every line ever handed to push() is in exactly one state: on its way,   *)
(* waiting in an item, read once, or overwritten while it waited.  No race *)
(* of producers and consumer on an item makes a line vanish, come out      *)
(* twice, or come out of an item nobody wrote.                             *)
Accounted ==
  /\ Logged = InTransit \cup Stored \cup Range(popped) \cup overwritten
  /\ (InTransit \cup Stored) \cap (Range(popped) \cup overwritten) = {}
  /\ Range(popped) \cap overwritten = {}
  /\ IsInjective(popped)

(* While no producer was ever a lap ahead of the reader, the ring is a     *)
(* queue: nothing is overwritten and the lines come out in the order of    *)
(* their fetch_adds, also across the wrap of the 32-bit indices.           *)
FifoUnlessLapped ==
  ~lapped =>
    /\ overwritten = {}
    /\ Len(popped) <= Len(claimed)
    /\ \A i \in 1..Len(popped) : popped[i] = claimed[i]

(* tryPop() answers "nothing there" truthfully while the reader has not    *)
(* been lapped: a line that is still stored then waits behind the very next *)
(* line to read, whose producer is still writing it.  The drain of the      *)
(* worker relies on it: it stops at the first FALSE.                        *)
FalseMeansDrained ==
  [][PopFalse /\ ~lapped /\ Stored # {} =>
       claimed[Len(popped) + 1] \in InTransit]_vars

(* The ring is a lossy buffer: see BufferBase. *)
Base == INSTANCE BufferBase WITH
  Lossy <- TRUE, Earlier <- {}, pending <- InTransit \cup Stored,
  delivered <- popped, discarded <- overwritten
ImplementsBufferBase == Base!Spec

(* README.md:8 and :139 and ringbuffer.h:14 say that a full ring overwrites *)
(* old data: the line lost was claimed before the one that replaces it.     *)
Position(l) == CHOOSE i \in DOMAIN claimed : claimed[i] = l
OverwritesOldData ==
  [][\A p \in Producers : PushMove(p) /\ written[index[p]] =>
       Position(logline[index[p]]) < Position(Line(p))]_vars
===============================================================================
