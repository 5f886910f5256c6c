------------------------------ MODULE BufferBase ------------------------------
(***************************************************************************)
(* What a buffer promises to the two sides of a logger, whichever of the   *)
(* two implementations stands behind the interface of bufferbase.h: a line *)
(* handed to push() is pending until tryPop() hands it out, once; a lossy  *)
(* buffer (RingBuffer, "NonGuaranteed") may discard a pending line, the    *)
(* other (QueueBuffer, "Guaranteed") may not.  `Earlier' is the order the  *)
(* buffer keeps: a line is handed out only after those that are Earlier.   *)
(***************************************************************************)
EXTENDS Sequences, Functions

CONSTANTS
  Lines,    \* the log lines that may be pushed
  Lossy,    \* a Boolean: TRUE if the buffer may discard pending lines
  Earlier   \* pairs <<k, l>>: k was logged before l and must come out first

VARIABLES
  pending,    \* the lines pushed and neither handed out nor discarded
  delivered,  \* the lines handed out, in order
  discarded   \* the lines given up

vars == <<pending, delivered, discarded>>

Init ==
  /\ pending = {}
  /\ delivered = <<>>
  /\ discarded = {}

(* A line can be pushed once: it is moved into the buffer. *)
Push(l) ==
  /\ l \notin pending \cup Range(delivered) \cup discarded
  /\ pending' = pending \cup {l}
  /\ UNCHANGED <<delivered, discarded>>

Pop(l) ==
  /\ l \in pending
  /\ \A k \in pending : <<k, l>> \notin Earlier
  /\ pending' = pending \ {l}
  /\ delivered' = Append(delivered, l)
  /\ UNCHANGED discarded

Discard(l) ==
  /\ Lossy
  /\ l \in pending
  /\ pending' = pending \ {l}
  /\ discarded' = discarded \cup {l}
  /\ UNCHANGED delivered

Next == \E l \in Lines : Push(l) \/ Pop(l) \/ Discard(l)

Spec == Init /\ [][Next]_vars
===============================================================================
