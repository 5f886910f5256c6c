--------------------------- MODULE RingBufferProofs ---------------------------
(***************************************************************************)
(* Proofs about RingBuffer for any number of producers, lines and items:   *)
(* first what holds of every ring, then what holds of one that is not      *)
(* lapped.                                                                 *)
(***************************************************************************)
EXTENDS RingBuffer, TLAPS

(* The item of an index is an item ... *)
LEMMA SlotRange == \A i \in Nat : Slot(i) \in Slots
  BY RingAssumption DEF Slot, Slots

(* ... and the next index an index. *)
LEMMA BumpRange == \A i \in Nat : Bump(i) \in 0..(IndexMod - 1)
  BY RingAssumption DEF Bump

(* A producer inside push() holds a line. *)
Started == \A p \in Producers : pc[p] # "idle" => pushed[p] >= 1

Typed == TypeOK /\ Started

(* What such a producer has is a line. *)
LEMMA LineTyped ==
  ASSUME Typed, NEW p \in Producers, pc[p] # "idle"
  PROVE  Line(p) \in Lines
  BY RingAssumption DEF Typed, TypeOK, Started, Line, Lines

(* Typed holds at first ... *)
LEMMA TypedInit == Init => Typed
<1>. SUFFICES ASSUME Init PROVE Typed
  OBVIOUS
<1>1. 0 \in 0..(IndexMod - 1) /\ 0 \in Slots /\ 0 \in 0..MaxPush
  BY RingAssumption DEF Slots
<1>2. <<>> \in Seq(Lines) /\ <<>> \in Seq(Lines \cup {NoLine})
  OBVIOUS
<1>. QED
  BY <1>1, <1>2 DEF Init, Typed, TypeOK, Started

(* ... and every step keeps it. *)
LEMMA TypedNext == Typed /\ [Next]_vars => Typed'
<1>. SUFFICES ASSUME Typed, [Next]_vars PROVE Typed'
  OBVIOUS
<1>. USE DEF Typed, TypeOK, Started
<1>1. ASSUME NEW p \in Producers, Claim(p) PROVE Typed'
  <2>1. <<p, pushed[p] + 1>> \in Lines
    BY <1>1, RingAssumption DEF Claim, Lines
  <2>2. claimed' \in Seq(Lines)
    BY <1>1, <2>1 DEF Claim
  <2>3. Slot(writeIndex) \in Slots /\ Bump(writeIndex) \in 0..(IndexMod - 1)
    <3>1. writeIndex \in Nat
      BY RingAssumption
    <3>. QED
      BY <3>1, SlotRange, BumpRange
  <2>4. pushed[p] + 1 \in 0..MaxPush
    BY <1>1, RingAssumption DEF Claim
  <2>. QED
    BY <1>1, <2>2, <2>3, <2>4 DEF Claim, consumerVars
<1>2. ASSUME NEW p \in Producers, PushLock(p) PROVE Typed'
  BY <1>2 DEF PushLock, consumerVars
<1>3. ASSUME NEW p \in Producers, PushMove(p) PROVE Typed'
  <2>1. Line(p) \in Lines
    BY <1>3, LineTyped DEF PushMove
  <2>. QED
    BY <1>3, <2>1 DEF PushMove, consumerVars
<1>4. ASSUME NEW p \in Producers, PushMark(p) PROVE Typed'
  BY <1>4 DEF PushMark, consumerVars
<1>5. ASSUME NEW p \in Producers, PushUnlock(p) PROVE Typed'
  BY <1>5 DEF PushUnlock, consumerVars
<1>6. CASE PopCall
  BY <1>6 DEF PopCall, producerVars
<1>7. CASE PopLock
  <2>1. Slot(readIndex) \in Slots
    <3>1. readIndex \in Nat
      BY RingAssumption
    <3>. QED
      BY <3>1, SlotRange
  <2>. QED
    BY <1>7, <2>1 DEF PopLock, producerVars
<1>8. CASE PopMove
  <2>1. popped' \in Seq(Lines \cup {NoLine})
    BY <1>8 DEF PopMove
  <2>. QED
    BY <1>8, <2>1 DEF PopMove, producerVars
<1>9. CASE PopClear
  <2>1. Bump(readIndex) \in 0..(IndexMod - 1)
    <3>1. readIndex \in Nat
      BY RingAssumption
    <3>. QED
      BY <3>1, BumpRange
  <2>. QED
    BY <1>9, <2>1 DEF PopClear, producerVars
<1>10. CASE PopTrue
  BY <1>10 DEF PopTrue, producerVars
<1>11. CASE PopFalse
  BY <1>11 DEF PopFalse, producerVars
<1>12. CASE UNCHANGED vars
  BY <1>12 DEF vars, producerVars, consumerVars
<1>. QED
  BY <1>1, <1>2, <1>3, <1>4, <1>5, <1>6, <1>7, <1>8, <1>9, <1>10, <1>11, <1>12
     DEF Next, Produce, TryPop

(* Type correctness, whatever the size of the ring and of the indices. *)
THEOREM TypeCorrect == Spec => []TypeOK
<1>1. Typed => TypeOK
  BY DEF Typed
<1>. QED
  BY TypedInit, TypedNext, <1>1, PTL DEF Spec

-------------------------------------------------------------------------------
(* The spin locks: a thread between its test_and_set and its clear is alone *)
(* in its item.                                                             *)
InItem(p) == pc[p] \in {"locked", "moved", "marked"}
PopInItem == pop \in {"locked", "moved", "cleared"}

Exclusive ==
  /\ \A p \in Producers : InItem(p) => flag[index[p]]
  /\ \A p, q \in Producers :
       InItem(p) /\ InItem(q) /\ index[p] = index[q] => p = q
  /\ PopInItem => flag[item]
  /\ \A p \in Producers : InItem(p) /\ PopInItem => index[p] # item

(* No item is locked at first ... *)
LEMMA ExclusiveInit == Init => Exclusive
  BY DEF Init, Exclusive, InItem, PopInItem

(* ... and a lock keeps the others out until it is cleared. *)
LEMMA ExclusiveNext == Typed /\ Exclusive /\ [Next]_vars => Exclusive'
<1>. SUFFICES ASSUME Typed, Exclusive, [Next]_vars PROVE Exclusive'
  OBVIOUS
<1>. USE DEF Typed, TypeOK, Exclusive, InItem, PopInItem
<1>1. ASSUME NEW p \in Producers, Claim(p) PROVE Exclusive'
  BY <1>1 DEF Claim, consumerVars
<1>2. ASSUME NEW p \in Producers, PushLock(p) PROVE Exclusive'
  BY <1>2 DEF PushLock, IsFree, consumerVars
<1>3. ASSUME NEW p \in Producers, PushMove(p) PROVE Exclusive'
  BY <1>3 DEF PushMove, consumerVars
<1>4. ASSUME NEW p \in Producers, PushMark(p) PROVE Exclusive'
  BY <1>4 DEF PushMark, consumerVars
<1>5. ASSUME NEW p \in Producers, PushUnlock(p) PROVE Exclusive'
  BY <1>5 DEF PushUnlock, consumerVars
<1>6. CASE PopCall
  BY <1>6 DEF PopCall, producerVars
<1>7. CASE PopLock
  <2>1. Slot(readIndex) \in Slots
    BY RingAssumption, SlotRange
  <2>. QED
    BY <1>7, <2>1 DEF PopLock, IsFree, producerVars
<1>8. CASE PopMove
  BY <1>8 DEF PopMove, producerVars
<1>9. CASE PopClear
  BY <1>9 DEF PopClear, producerVars
<1>10. CASE PopTrue
  BY <1>10 DEF PopTrue, producerVars
<1>11. CASE PopFalse
  BY <1>11 DEF PopFalse, producerVars
<1>12. CASE UNCHANGED vars
  BY <1>12 DEF vars, producerVars, consumerVars
<1>. QED
  BY <1>1, <1>2, <1>3, <1>4, <1>5, <1>6, <1>7, <1>8, <1>9, <1>10, <1>11, <1>12
     DEF Next, Produce, TryPop

-------------------------------------------------------------------------------
(* The lines: an item the consumer can read holds a line that was logged,   *)
(* no two such items hold the same one, and a line a producer still has is  *)
(* in no item but the one that producer has locked.                         *)
ReadableLogged == \A s \in Slots : Readable(s) => logline[s] \in Logged

ReadableOnce ==
  \A s, t \in Slots :
    Readable(s) /\ Readable(t) /\ logline[s] = logline[t] => s = t

MovedHere == \A p \in Producers : pc[p] = "moved" => logline[index[p]] = Line(p)

NotYetMoved ==
  \A p \in Producers, s \in Slots :
    pc[p] \in {"claimed", "locked"} /\ Readable(s) => logline[s] # Line(p)

MovedOnlyHere ==
  \A p \in Producers, s \in Slots :
    pc[p] = "moved" /\ Readable(s) /\ logline[s] = Line(p) => s = index[p]

Distinct ==
  ReadableLogged /\ ReadableOnce /\ MovedHere /\ NotYetMoved /\ MovedOnlyHere

RingInv == Typed /\ Exclusive /\ Distinct /\ Accounted

(* What Range and IsInjective of a sequence become when it is appended to. *)
LEMMA AppendRange ==
  ASSUME NEW S, NEW s \in Seq(S), NEW e \in S
  PROVE  Range(Append(s, e)) = Range(s) \cup {e}
  BY DEF Range

(* An element that is not in a sequence may be appended. *)
LEMMA AppendInjective ==
  ASSUME NEW S, NEW s \in Seq(S), NEW e \in S, IsInjective(s), e \notin Range(s)
  PROVE  IsInjective(Append(s, e))
  BY DEF Range, IsInjective

-------------------------------------------------------------------------------
(* What a step does to the lines.  Pending is what BufferBase calls so.      *)
Pending == InTransit \cup Stored

Enters(l) ==
  /\ l \in Lines \ Logged
  /\ Logged' = Logged \cup {l}
  /\ Pending' = Pending \cup {l}
  /\ popped' = popped
  /\ overwritten' = overwritten

Leaves(l) ==
  /\ l \in Pending
  /\ Logged' = Logged
  /\ Pending' = Pending \ {l}

Delivers(l) ==
  /\ Leaves(l)
  /\ popped' = Append(popped, l)
  /\ overwritten' = overwritten

Overwrites(l) ==
  /\ Leaves(l)
  /\ popped' = popped
  /\ overwritten' = overwritten \cup {l}

Quiet ==
  /\ Logged' = Logged
  /\ Pending' = Pending
  /\ popped' = popped
  /\ overwritten' = overwritten

(* A claim makes a line pending. *)
LEMMA ClaimEnters ==
  ASSUME RingInv, NEW p \in Producers, Claim(p)
  PROVE  Enters(<<p, pushed[p] + 1>>) /\ Distinct'
<1>. DEFINE l == <<p, pushed[p] + 1>>
<1>. USE DEF RingInv, Typed, TypeOK
<1>1. /\ l \in Lines
      /\ l \notin Logged
      /\ Logged' = Logged \cup {l}
  BY RingAssumption DEF Claim, Lines, Logged
<1>2. Stored' = Stored /\ \A s \in Slots : Readable(s)' = Readable(s)
  BY DEF Claim, Stored, Readable, consumerVars
<1>3. \A q \in Producers : q # p => Line(q)' = Line(q)
  BY DEF Claim, Line
<1>4. Line(p)' = l
  BY RingAssumption DEF Claim, Line
<1>5. InTransit' = InTransit \cup {l}
  BY <1>3, <1>4 DEF Claim, InTransit
<1>6. Distinct'
  <2>1. logline' = logline
    BY DEF Claim
  <2>2. ReadableLogged'
    BY <1>1, <1>2, <2>1 DEF Distinct, ReadableLogged
  <2>3. ReadableOnce'
    BY <1>2, <2>1 DEF Distinct, ReadableOnce
  <2>4. MovedHere'
    BY <1>3, <2>1 DEF Claim, Distinct, MovedHere
  <2>5. NotYetMoved'
    BY <1>1, <1>2, <1>3, <1>4, <2>1
       DEF Claim, Distinct, NotYetMoved, ReadableLogged
  <2>6. MovedOnlyHere'
    BY <1>2, <1>3, <2>1 DEF Claim, Distinct, MovedOnlyHere
  <2>. QED
    BY <2>2, <2>3, <2>4, <2>5, <2>6 DEF Distinct
<1>. QED
  BY <1>1, <1>2, <1>5, <1>6 DEF Enters, Pending, Claim, consumerVars

(* Locking an item moves no line. *)
LEMMA LockQuiet ==
  ASSUME RingInv, NEW p \in Producers, PushLock(p)
  PROVE  Quiet /\ Distinct'
<1>. USE DEF RingInv, Typed, TypeOK
<1>1. \A s \in Slots : Readable(s)' = Readable(s)
  BY DEF PushLock, Readable, consumerVars
<1>2. Stored' = Stored /\ Logged' = Logged
  BY DEF PushLock, Stored, Readable, Logged, consumerVars
<1>3. \A q \in Producers : Line(q)' = Line(q)
  BY DEF PushLock, Line
<1>4. InTransit' = InTransit
  BY <1>3 DEF PushLock, InTransit
<1>5. Distinct'
  BY <1>1, <1>2, <1>3 DEF PushLock, Distinct, ReadableLogged, ReadableOnce,
                          MovedHere, NotYetMoved, MovedOnlyHere
<1>. QED
  BY <1>2, <1>4, <1>5 DEF Quiet, Pending, PushLock, consumerVars

(* Moving a line into an item discards the one that waits there, if any. *)
LEMMA MoveOverwrites ==
  ASSUME RingInv, NEW p \in Producers, PushMove(p)
  PROVE  /\ Quiet \/ Overwrites(logline[index[p]])
         /\ Distinct'
<1>. DEFINE i == index[p]
            old == logline[i]
<1>. USE DEF RingInv, Typed, TypeOK
<1>1. /\ i \in Slots
      /\ logline' = [logline EXCEPT ![i] = Line(p)]
      /\ written' = written
      /\ Logged' = Logged
      /\ popped' = popped
      /\ Line(p) \in Logged
  BY LineTyped DEF PushMove, Logged, Line, consumerVars
<1>2. \A s \in Slots : Readable(s)' = Readable(s)
  BY DEF PushMove, Readable, consumerVars
<1>3. \A q \in Producers : Line(q)' = Line(q)
  BY DEF PushMove, Line
<1>4. InTransit' = InTransit /\ Line(p) \in InTransit
  BY <1>3 DEF PushMove, InTransit
<1>5. \A q \in Producers : q # p => Line(q) # Line(p)
  BY DEF Line
<1>6. \A s \in Slots : Readable(s) => logline[s] # Line(p)
  BY DEF PushMove, Distinct, NotYetMoved
<1>7. \A q \in Producers : q # p /\ pc[q] = "moved" => index[q] # i
  BY DEF PushMove, Exclusive, InItem
<1>8. Distinct'
  <2>1. ReadableLogged'
    BY <1>1, <1>2 DEF Distinct, ReadableLogged
  <2>2. ReadableOnce'
    BY <1>1, <1>2, <1>6 DEF Distinct, ReadableOnce
  <2>3. MovedHere'
    BY <1>1, <1>3, <1>7 DEF PushMove, Distinct, MovedHere
  <2>4. NotYetMoved'
    BY <1>1, <1>2, <1>3, <1>5 DEF PushMove, Distinct, NotYetMoved
  <2>5. MovedOnlyHere'
    BY <1>1, <1>2, <1>3, <1>5, <1>6, <1>7 DEF PushMove, Distinct, MovedOnlyHere
  <2>. QED
    BY <2>1, <2>2, <2>3, <2>4, <2>5 DEF Distinct
<1>9. CASE ~written[i]
  <2>1. ~Readable(i)
    BY <1>9 DEF Readable
  <2>2. Stored' = Stored
    BY <1>1, <1>2, <2>1 DEF Stored
  <2>. QED
    BY <1>1, <1>4, <1>8, <1>9, <2>2 DEF Quiet, Pending, PushMove
<1>10. CASE written[i]
  <2>1. Readable(i)
    BY <1>10 DEF Readable, PushMove, Exclusive, InItem, PopInItem
  <2>2. Stored' = (Stored \ {old}) \cup {Line(p)}
    BY <1>1, <1>2, <1>6, <2>1 DEF Stored, Distinct, ReadableOnce
  <2>3. old \in Stored
    BY <1>1, <2>1 DEF Stored
  <2>4. old \notin InTransit
    BY <1>1, <1>6, <1>7, <2>1 DEF InTransit, Distinct, NotYetMoved, MovedOnlyHere
  <2>5. overwritten' = overwritten \cup {old}
    BY <1>10 DEF PushMove
  <2>. QED
    BY <1>1, <1>4, <1>8, <2>2, <2>3, <2>4, <2>5 DEF Overwrites, Leaves, Pending
<1>. QED
  BY <1>9, <1>10

(* Marking the item moves no line: it was on its way and is stored now. *)
LEMMA MarkQuiet ==
  ASSUME RingInv, NEW p \in Producers, PushMark(p)
  PROVE  Quiet /\ Distinct'
<1>. DEFINE i == index[p]
<1>. USE DEF RingInv, Typed, TypeOK
<1>1. /\ i \in Slots
      /\ logline' = logline
      /\ logline[i] = Line(p)
      /\ Logged' = Logged
      /\ Line(p) \in Logged
  BY LineTyped DEF PushMark, Logged, Line, Distinct, MovedHere
<1>2. \A s \in Slots : Readable(s)' <=> (Readable(s) \/ s = i)
  BY DEF PushMark, Readable, consumerVars, Exclusive, InItem, PopInItem
<1>3. \A q \in Producers : Line(q)' = Line(q) /\ (q # p => Line(q) # Line(p))
  BY DEF PushMark, Line
<1>4. InTransit' = InTransit \ {Line(p)} /\ Line(p) \in InTransit
  BY <1>3 DEF PushMark, InTransit
<1>5. Stored' = Stored \cup {Line(p)}
  BY <1>1, <1>2 DEF Stored
<1>6. \A s \in Slots : Readable(s) /\ logline[s] = Line(p) => s = i
  BY DEF PushMark, Distinct, MovedOnlyHere
<1>7. Distinct'
  <2>1. ReadableLogged'
    BY <1>1, <1>2 DEF Distinct, ReadableLogged
  <2>2. ReadableOnce'
    BY <1>1, <1>2, <1>6 DEF Distinct, ReadableOnce
  <2>3. MovedHere'
    BY <1>1, <1>3 DEF PushMark, Distinct, MovedHere
  <2>4. NotYetMoved'
    BY <1>1, <1>2, <1>3 DEF PushMark, Distinct, NotYetMoved
  <2>5. MovedOnlyHere'
    BY <1>1, <1>2, <1>3 DEF PushMark, Distinct, MovedOnlyHere
  <2>. QED
    BY <2>1, <2>2, <2>3, <2>4, <2>5 DEF Distinct
<1>. QED
  BY <1>1, <1>4, <1>5, <1>7 DEF Quiet, Pending, PushMark, consumerVars

(* Unlocking moves no line. *)
LEMMA UnlockQuiet ==
  ASSUME RingInv, NEW p \in Producers, PushUnlock(p)
  PROVE  Quiet /\ Distinct'
<1>. USE DEF RingInv, Typed, TypeOK
<1>1. \A s \in Slots : Readable(s)' = Readable(s)
  BY DEF PushUnlock, Readable, consumerVars
<1>2. Stored' = Stored /\ Logged' = Logged
  BY DEF PushUnlock, Stored, Readable, Logged, consumerVars
<1>3. \A q \in Producers : Line(q)' = Line(q)
  BY DEF PushUnlock, Line
<1>4. InTransit' = InTransit
  BY <1>3 DEF PushUnlock, InTransit
<1>5. Distinct'
  BY <1>1, <1>2, <1>3 DEF PushUnlock, Distinct, ReadableLogged, ReadableOnce,
                          MovedHere, NotYetMoved, MovedOnlyHere
<1>. QED
  BY <1>2, <1>4, <1>5 DEF Quiet, Pending, PushUnlock, consumerVars

(* The consumer takes a pending line. *)
LEMMA PopMoveDelivers ==
  ASSUME RingInv, PopMove
  PROVE  Delivers(logline[item]) /\ Distinct'
<1>. DEFINE l == logline[item]
<1>. USE DEF RingInv, Typed, TypeOK
<1>1. /\ Readable(item) /\ item \in Slots
      /\ \A s \in Slots : Readable(s)' = (Readable(s) /\ s # item)
  BY DEF PopMove, Readable
<1>2. Logged' = Logged /\ InTransit' = InTransit
  BY DEF PopMove, producerVars, Logged, InTransit, Line
<1>3. l \in Stored /\ Stored' = Stored \ {l}
  BY <1>1 DEF PopMove, Stored, Distinct, ReadableOnce
<1>4. l \notin InTransit
  BY <1>1 DEF PopMove, InTransit, Distinct, NotYetMoved, MovedOnlyHere,
              Exclusive, InItem, PopInItem
<1>5. Distinct'
  BY <1>1, <1>2 DEF PopMove, producerVars, Line, Distinct, ReadableLogged,
                    ReadableOnce, MovedHere, NotYetMoved, MovedOnlyHere
<1>. QED
  BY <1>2, <1>3, <1>4, <1>5 DEF Delivers, Leaves, Pending, PopMove

(* The other steps of the consumer move no line. *)
LEMMA ConsumerQuiet ==
  ASSUME RingInv, PopCall \/ PopLock \/ PopClear \/ PopTrue \/ PopFalse
  PROVE  Quiet /\ Distinct'
<1>. USE DEF RingInv, Typed, TypeOK
<1>1. \A s \in Slots : Readable(s)' = Readable(s)
  BY DEF PopCall, PopLock, PopClear, PopTrue, PopFalse, Readable
<1>2. logline' = logline /\ popped' = popped /\ overwritten' = overwritten
  BY DEF PopCall, PopLock, PopClear, PopTrue, PopFalse
<1>3. UNCHANGED producerVars
  BY DEF PopCall, PopLock, PopClear, PopTrue, PopFalse
<1>4. Stored' = Stored
  BY <1>1, <1>2 DEF Stored
<1>5. Logged' = Logged /\ InTransit' = InTransit
  BY <1>3 DEF producerVars, Logged, InTransit, Line
<1>6. Distinct'
  BY <1>1, <1>2, <1>3, <1>5
     DEF producerVars, Line, Distinct, ReadableLogged, ReadableOnce, MovedHere,
         NotYetMoved, MovedOnlyHere
<1>. QED
  BY <1>2, <1>4, <1>5, <1>6 DEF Quiet, Pending

(* Every step is one of these. *)
LEMMA StepEffect ==
  ASSUME RingInv, [Next]_vars
  PROVE  /\ Distinct'
         /\ \/ Quiet
            \/ \E l \in Lines : Enters(l)
            \/ \E l \in Pending : Delivers(l) \/ Overwrites(l)
<1>1. ASSUME UNCHANGED vars PROVE Quiet /\ Distinct'
  BY <1>1 DEF vars, producerVars, consumerVars, Quiet, Pending, RingInv,
              InTransit, Stored, Logged, Readable, Line, Distinct, ReadableLogged,
              ReadableOnce, MovedHere, NotYetMoved, MovedOnlyHere
<1>2. ASSUME NEW p \in Producers, Produce(p)
      PROVE  /\ Distinct'
             /\ \/ Quiet
                \/ \E l \in Lines : Enters(l)
                \/ \E l \in Pending : Overwrites(l)
  BY <1>2, ClaimEnters, LockQuiet, MoveOverwrites, MarkQuiet, UnlockQuiet
     DEF Produce, Enters, Overwrites, Leaves
<1>3. ASSUME PopCall \/ TryPop
      PROVE  Distinct' /\ (Quiet \/ \E l \in Pending : Delivers(l))
  BY <1>3, PopMoveDelivers, ConsumerQuiet DEF TryPop, Delivers, Leaves
<1>. QED
  BY <1>1, <1>2, <1>3 DEF Next

(* Each effect keeps the account. *)
LEMMA AccountedNext == RingInv /\ [Next]_vars => Accounted'
<1>. SUFFICES ASSUME RingInv, [Next]_vars PROVE Accounted'
  OBVIOUS
<1>1. /\ Logged = Pending \cup Range(popped) \cup overwritten
      /\ Pending \cap (Range(popped) \cup overwritten) = {}
      /\ Range(popped) \cap overwritten = {}
      /\ IsInjective(popped)
  BY DEF RingInv, Accounted, Pending
<1>. DEFINE Goal == /\ Logged' = Pending' \cup Range(popped)' \cup overwritten'
                    /\ Pending' \cap (Range(popped)' \cup overwritten') = {}
                    /\ Range(popped)' \cap overwritten' = {}
                    /\ IsInjective(popped)'
<1>2. SUFFICES Goal
  BY DEF Accounted, Pending
<1>3. CASE Quiet
  BY <1>1, <1>3 DEF Quiet
<1>4. ASSUME NEW l \in Lines, Enters(l) PROVE Goal
  BY <1>1, <1>4 DEF Enters
<1>5. ASSUME NEW l \in Pending, Delivers(l) PROVE Goal
  <2>1. popped \in Seq(Lines \cup {NoLine})
    BY DEF RingInv, Typed, TypeOK
  <2>2. l \in Lines
    BY <1>1 DEF Logged
  <2>3. Range(popped)' = Range(popped) \cup {l}
    BY <1>5, <2>1, <2>2, AppendRange DEF Delivers
  <2>4. IsInjective(popped)'
    BY <1>1, <1>5, <2>1, <2>2, AppendInjective DEF Delivers
  <2>. QED
    BY <1>1, <1>5, <2>3, <2>4 DEF Delivers, Leaves
<1>6. ASSUME NEW l \in Pending, Overwrites(l) PROVE Goal
  BY <1>1, <1>6 DEF Overwrites, Leaves
<1>. QED
  BY <1>3, <1>4, <1>5, <1>6, StepEffect

(* The invariant holds at first ... *)
LEMMA RingInvInit == Init => RingInv
<1>. SUFFICES ASSUME Init PROVE RingInv
  OBVIOUS
<1>1. Typed /\ Exclusive
  BY TypedInit, ExclusiveInit
<1>2. /\ \A s \in Slots : ~Readable(s)
      /\ \A p \in Producers : pc[p] = "idle"
      /\ Stored = {} /\ InTransit = {} /\ Range(popped) = {}
  BY DEF Init, Readable, Stored, InTransit, Range
<1>3. Logged = {}
  BY RingAssumption DEF Init, Logged, Lines
<1>4. Distinct
  BY <1>2 DEF Distinct, ReadableLogged, ReadableOnce, MovedHere, NotYetMoved,
              MovedOnlyHere
<1>5. Accounted
  BY <1>2, <1>3 DEF Init, Accounted, IsInjective
<1>. QED
  BY <1>1, <1>4, <1>5 DEF RingInv

(* ... and every step keeps it. *)
LEMMA RingInvNext == RingInv /\ [Next]_vars => RingInv'
  BY TypedNext, ExclusiveNext, StepEffect, AccountedNext DEF RingInv

(* Every line handed to push() is on its way, waiting, read once or         *)
(* overwritten, for any number of producers, items and lines.               *)
THEOREM EveryLineAccounted == Spec => []Accounted
<1>1. RingInv => Accounted
  BY DEF RingInv
<1>. QED
  BY RingInvInit, RingInvNext, <1>1, PTL DEF Spec

(* Two threads are never in the same item: the spin locks do their work.    *)
THEOREM MutualExclusion == Spec => []Exclusive
<1>1. RingInv => Exclusive
  BY DEF RingInv
<1>. QED
  BY RingInvInit, RingInvNext, <1>1, PTL DEF Spec

-------------------------------------------------------------------------------
(* The ring implements the lossy buffer. *)
(* The ring starts as an empty buffer ... *)
LEMMA BaseInit == Init => Base!Init
<1>. SUFFICES ASSUME Init PROVE Base!Init
  OBVIOUS
<1>1. Stored = {} /\ InTransit = {}
  BY DEF Init, Readable, Stored, InTransit
<1>. QED
  BY <1>1 DEF Init, Base!Init

(* ... and every step is one of the buffer or changes nothing there. *)
LEMMA BaseNext == RingInv /\ [Next]_vars => [Base!Next]_(Base!vars)
<1>. SUFFICES ASSUME RingInv, [Next]_vars PROVE [Base!Next]_(Base!vars)
  OBVIOUS
<1>1. /\ Pending = InTransit \cup Stored
      /\ Pending \subseteq Lines
      /\ Logged = Pending \cup Range(popped) \cup overwritten
  BY DEF RingInv, Accounted, Pending, Logged
<1>2. CASE Quiet
  BY <1>2 DEF Quiet, Pending, Base!vars
<1>3. ASSUME NEW l \in Lines, Enters(l) PROVE Base!Push(l)
  BY <1>1, <1>3 DEF Enters, Pending, Base!Push, Base!Range, Range
<1>4. ASSUME NEW l \in Pending, Delivers(l) PROVE Base!Pop(l)
  BY <1>4 DEF Delivers, Leaves, Pending, Base!Pop
<1>5. ASSUME NEW l \in Pending, Overwrites(l) PROVE Base!Discard(l)
  BY <1>5 DEF Overwrites, Leaves, Pending, Base!Discard
<1>. QED
  BY <1>1, <1>2, <1>3, <1>4, <1>5, StepEffect DEF Base!Next

(* The ring buffer keeps what BufferBase promises of a lossy buffer.        *)
THEOREM Implementation == Spec => ImplementsBufferBase
  BY RingInvInit, RingInvNext, BaseInit, BaseNext, PTL
     DEF Spec, ImplementsBufferBase, Base!Spec

-------------------------------------------------------------------------------
(* A ring that is not lapped is a queue if the number of items divides that *)
(* of the indices, 2^32: if it is a power of two.                           *)
SizeDivides == IndexMod % Size = 0

-------------------------------------------------------------------------------
(* Division with a remainder, ... *)
LEMMA DivMod ==
  ASSUME NEW m \in Nat \ {0}, NEW a \in Nat
  PROVE  a = m * (a \div m) + (a % m) /\ a % m \in 0..(m - 1) /\ a \div m \in Int
  OBVIOUS

(* ... the only multiple of m that is less than m either way, ... *)
LEMMA SmallMultiple ==
  ASSUME NEW m \in Nat \ {0}, NEW d \in Int, m * d < m, m * d > -m
  PROVE  d = 0
<1>1. CASE d >= 1
  BY <1>1, SMTT(30)
<1>2. CASE d <= -1
  BY <1>2, SMTT(30)
<1>. QED
  BY <1>1, <1>2

(* ... and the remainder is unique. *)
LEMMA UniqueRemainder ==
  ASSUME NEW m \in Nat \ {0}, NEW q \in Int, NEW r \in 0..(m - 1),
         NEW s \in Int, NEW t \in 0..(m - 1), m * q + r = m * s + t
  PROVE  r = t
<1>1. m * (q - s) = t - r
  OBVIOUS
<1>2. q - s = 0
  BY <1>1, SmallMultiple
<1>. QED
  BY <1>1, <1>2

(* The item after that of a number ... *)
LEMMA ModNext ==
  ASSUME NEW m \in Nat \ {0}, NEW a \in Nat
  PROVE  (a + 1) % m = IF (a % m) = m - 1 THEN 0 ELSE (a % m) + 1
<1>. DEFINE q == a \div m
            r == a % m
            s == (a + 1) \div m
            t == (a + 1) % m
<1>1. a = m * q + r /\ r \in 0..(m - 1) /\ q \in Int
  BY DivMod
<1>2. (a + 1) = m * s + t /\ t \in 0..(m - 1) /\ s \in Int
  BY DivMod
<1>. HIDE DEF q, r, s, t
<1>3. CASE r = m - 1
  <2>1. m * (q + 1) + 0 = m * s + t
    <3>1. m * (q + 1) = m * q + m
      BY <1>1
    <3>. QED
      BY <1>1, <1>2, <1>3, <3>1
  <2>2. q + 1 \in Int /\ 0 \in 0..(m - 1)
    BY <1>1
  <2>3. t = 0
    BY <1>2, <2>1, <2>2, UniqueRemainder
  <2>. QED
    BY <2>3, <1>3 DEF t, r
<1>4. CASE r # m - 1
  <2>1. m * q + (r + 1) = m * s + t
    BY <1>1, <1>2
  <2>2. r + 1 \in 0..(m - 1)
    BY <1>1, <1>4
  <2>3. t = r + 1
    BY <1>1, <1>2, <2>1, <2>2, UniqueRemainder
  <2>. QED
    BY <2>3, <1>4 DEF t, r
<1>. QED
  BY <1>3, <1>4

LEMMA SlotNext ==
  ASSUME NEW a \in Nat, NEW b \in Nat, Slot(a) = Slot(b)
  PROVE  Slot(a + 1) = Slot(b + 1)
  BY ModNext, RingAssumption DEF Slot

(* ... is that of the next index, also where the indices wrap. *)
LEMMA SlotBump ==
  ASSUME SizeDivides, NEW a \in 0..(IndexMod - 1), NEW b \in Nat, Slot(a) = Slot(b)
  PROVE  Slot(Bump(a)) = Slot(b + 1)
<1>. a \in Nat /\ IndexMod \in Nat \ {0} /\ Size \in Nat \ {0}
  BY RingAssumption
<1>1. CASE a + 1 < IndexMod
  <2>1. Bump(a) = a + 1
    BY <1>1 DEF Bump
  <2>. QED
    BY <2>1, SlotNext
<1>2. CASE a + 1 = IndexMod
  <2>1. Bump(a) = 0
    BY <1>2 DEF Bump
  <2>2. Slot(0) = 0 /\ Slot(a + 1) = 0
    BY <1>2 DEF Slot, SizeDivides
  <2>. QED
    BY <2>1, <2>2, SlotNext
<1>. QED
  BY <1>1, <1>2

(* Numbers less than a lap apart have different items. *)
LEMMA SlotApart ==
  ASSUME NEW a \in Nat, NEW b \in Nat, a < b, b < a + Size
  PROVE  Slot(a) # Slot(b)
<1>. SUFFICES ASSUME a % Size = b % Size PROVE FALSE
  BY DEF Slot
<1>. Size \in Nat \ {0}
  BY RingAssumption
<1>1. a = Size * (a \div Size) + (a % Size) /\ a \div Size \in Int /\ a % Size \in Int
  BY DivMod
<1>2. b = Size * (b \div Size) + (b % Size) /\ b \div Size \in Int
  BY DivMod
<1>. DEFINE d == (b \div Size) - (a \div Size)
<1>3. Size * d = b - a
  BY <1>1, <1>2
<1>4. d = 0
  BY <1>1, <1>2, <1>3, SmallMultiple
<1>. QED
  BY <1>3, <1>4

-------------------------------------------------------------------------------
(* The indices count the lines claimed and the lines popped. *)
Indices ==
  /\ Slot(writeIndex) = Slot(Len(claimed))
  /\ pop # "moved" => Slot(readIndex) = Slot(Len(popped))
  /\ pop = "moved" => Len(popped) > 0 /\ Slot(readIndex) = Slot(Len(popped) - 1)
  /\ pop = "locked" => item = Slot(Len(popped))

(* A line stands in `claimed' once, and its producer's ticket says where. *)
Tickets ==
  /\ IsInjective(claimed) /\ Range(claimed) \subseteq Logged
  /\ \A p \in Producers : pc[p] # "idle" =>
       /\ ticket[p] < Len(claimed)
       /\ claimed[ticket[p] + 1] = Line(p)
       /\ index[p] = Slot(ticket[p])

(* The lines that are not popped yet are those of the last lap, each on its *)
(* way to its own item or waiting in it.                                    *)
Moving(p) == pc[p] \in {"claimed", "locked", "moved"}

Waits(s) ==
  \E k \in Len(popped)..(Len(claimed) - 1) :
    /\ s = Slot(k)
    /\ logline[s] = claimed[k + 1]
    /\ \A p \in Producers : Moving(p) => ticket[p] # k

LastLap ==
  /\ Len(popped) <= Len(claimed)
  /\ Len(claimed) <= Len(popped) + Size
  /\ overwritten = {}
  /\ \A i \in 1..Len(popped) : popped[i] = claimed[i]
  /\ \A p \in Producers : Moving(p) => Len(popped) <= ticket[p]
  /\ \A s \in Slots : Readable(s) => Waits(s)

OrderInv ==
  /\ RingInv /\ SizeDivides
  /\ Indices
  /\ Tickets
  /\ ~lapped => LastLap

LEMMA OrderInit == Init /\ SizeDivides => OrderInv
<1>. SUFFICES ASSUME Init, SizeDivides PROVE OrderInv
  OBVIOUS
<1>1. RingInv
  BY RingInvInit
<1>2. Len(claimed) = 0 /\ Len(popped) = 0
  BY DEF Init
<1>3. Indices
  BY <1>2 DEF Init, Indices
<1>4. Tickets
  BY DEF Init, Tickets, IsInjective, Range
<1>5. LastLap
  BY <1>2, RingAssumption DEF Init, LastLap, Moving, Readable
<1>. QED
  BY <1>1, <1>3, <1>4, <1>5 DEF OrderInv

(* Two waiting lines of the last lap in the same item are the same. *)
LEMMA SameTicket ==
  ASSUME OrderInv, ~lapped,
         NEW j \in Len(popped)..(Len(claimed) - 1),
         NEW k \in Len(popped)..(Len(claimed) - 1),
         Slot(j) = Slot(k)
  PROVE  j = k
<1>1. /\ Len(popped) \in Nat /\ Len(claimed) \in Nat /\ Size \in Nat
      /\ Len(claimed) <= Len(popped) + Size
  BY RingAssumption DEF OrderInv, LastLap, RingInv, Typed, TypeOK
<1>2. j \in Nat /\ k \in Nat /\ j < k + Size /\ k < j + Size
  BY <1>1
<1>. QED
  BY <1>2, SlotApart

-------------------------------------------------------------------------------
(* A claim takes the next ticket. *)
LEMMA OrderClaim ==
  ASSUME OrderInv, NEW p \in Producers, Claim(p)
  PROVE  Indices' /\ Tickets' /\ (~lapped' => LastLap')
<1>. DEFINE l == <<p, pushed[p] + 1>>
<1>. TypeOK /\ RingInv
  BY DEF OrderInv, RingInv, Typed
<1>0. /\ Len(popped) \in Nat /\ Len(claimed) \in Nat /\ Size \in Nat
      /\ claimed \in Seq(Lines) /\ l \in Lines
      /\ writeIndex \in 0..(IndexMod - 1)
  BY RingAssumption DEF Claim, Lines, TypeOK
<1>1. /\ Len(claimed') = Len(claimed) + 1
      /\ claimed'[Len(claimed) + 1] = l
      /\ \A k \in 1..Len(claimed) : claimed'[k] = claimed[k]
      /\ claimed' = Append(claimed, l)
  BY <1>0 DEF Claim
<1>2. Enters(l)
  BY ClaimEnters
<1>3. Indices'
  <2>1. Slot(Bump(writeIndex)) = Slot(Len(claimed) + 1)
    BY <1>0, SlotBump DEF OrderInv, Indices
  <2>. QED
    BY <1>1, <2>1 DEF OrderInv, Indices, Claim, consumerVars
<1>4. Tickets'
  <2>1. l \notin Range(claimed)
    BY <1>2 DEF OrderInv, Tickets, Enters
  <2>2. IsInjective(claimed') /\ Range(claimed') = Range(claimed) \cup {l}
    <3>1. IsInjective(claimed)
      BY DEF OrderInv, Tickets
    <3>2. IsInjective(Append(claimed, l))
      BY <1>0, <2>1, <3>1, AppendInjective
    <3>3. Range(Append(claimed, l)) = Range(claimed) \cup {l}
      BY <1>0, AppendRange
    <3>. QED
      BY <1>1, <3>2, <3>3
  <2>3. ASSUME NEW q \in Producers, pc'[q] # "idle"
        PROVE  /\ ticket'[q] < Len(claimed')
               /\ claimed'[ticket'[q] + 1] = Line(q)'
               /\ index'[q] = Slot(ticket'[q])
    <3>1. CASE q = p
      <4>1. /\ ticket'[p] = Len(claimed)
            /\ index'[p] = Slot(writeIndex)
            /\ Line(p)' = l
        BY DEF Claim, Line, TypeOK
      <4>2. Slot(writeIndex) = Slot(Len(claimed))
        BY DEF OrderInv, Indices
      <4>. QED
        BY <1>0, <1>1, <3>1, <4>1, <4>2
    <3>2. CASE q # p
      <4>1. /\ ticket[q] < Len(claimed) /\ ticket[q] \in Nat
            /\ claimed[ticket[q] + 1] = Line(q)
            /\ index[q] = Slot(ticket[q])
        BY <2>3, <3>2 DEF Claim, OrderInv, Tickets, TypeOK
      <4>2. ticket'[q] = ticket[q] /\ index'[q] = index[q] /\ Line(q)' = Line(q)
        BY <3>2 DEF Claim, Line, TypeOK
      <4>. QED
        BY <1>0, <1>1, <4>1, <4>2
    <3>. QED
      BY <3>1, <3>2
  <2>4. Range(claimed') \subseteq Logged'
    BY <1>2, <2>2 DEF Enters, OrderInv, Tickets
  <2>5. \A q \in Producers : pc'[q] # "idle" =>
          /\ ticket'[q] < Len(claimed')
          /\ claimed'[ticket'[q] + 1] = Line(q)'
          /\ index'[q] = Slot(ticket'[q])
    BY <2>3
  <2>6. IsInjective(claimed')
    BY <2>2
  <2>. QED
    BY <2>4, <2>5, <2>6 DEF Tickets
<1>5. ASSUME ~lapped' PROVE LastLap'
  <2>1. LastLap /\ Len(claimed) - Len(popped) < Size /\ popped' = popped
    <3>1. ~lapped /\ ~(Len(claimed) - Len(popped) >= Size) /\ popped' = popped
      BY <1>5, Zenon DEF Claim, consumerVars
    <3>2. LastLap
      BY <3>1, Zenon DEF OrderInv
    <3>. QED
      BY <1>0, <3>1, <3>2
  <2>2. \A q \in Producers :
          \/ Moving(q)' /\ ticket'[q] = Len(claimed)
          \/ Moving(q)' = Moving(q) /\ ticket'[q] = ticket[q]
    BY DEF Claim, Moving, TypeOK
  <2>3. ASSUME NEW s \in Slots, Readable(s)' PROVE Waits(s)'
    <3>1. Readable(s)
      BY <2>3 DEF Claim, Readable, consumerVars
    <3>2. PICK k \in Len(popped)..(Len(claimed) - 1) :
            /\ s = Slot(k)
            /\ logline[s] = claimed[k + 1]
            /\ \A q \in Producers : Moving(q) => ticket[q] # k
      BY <2>1, <3>1 DEF LastLap, Waits
    <3>3. k \in Len(popped')..(Len(claimed') - 1) /\ k # Len(claimed)
      BY <1>0, <1>1, <2>1, <3>2
    <3>4. logline'[s] = claimed'[k + 1]
      BY <1>0, <1>1, <3>2 DEF Claim
    <3>. QED
      BY <2>2, <3>2, <3>3, <3>4 DEF Waits
  <2>4. \A i \in 1..Len(popped') : popped'[i] = claimed'[i]
    BY <1>0, <1>1, <2>1 DEF LastLap
  <2>5. \A q \in Producers : Moving(q)' => Len(popped') <= ticket'[q]
    BY <1>0, <2>1, <2>2 DEF LastLap
  <2>6. overwritten' = {}
    BY <2>1 DEF LastLap, Claim
  <2>. QED
    BY <1>0, <1>1, <2>1, <2>3, <2>4, <2>5, <2>6 DEF LastLap
<1>. QED
  BY <1>3, <1>4, <1>5

-------------------------------------------------------------------------------
(* A producer's other steps keep the tickets. *)
LEMMA TicketsKept ==
  ASSUME OrderInv,
         UNCHANGED <<claimed, ticket, index, pushed>>,
         \A p \in Producers : pc'[p] # "idle" => pc[p] # "idle"
  PROVE  Tickets'
<1>1. \A p \in Producers : Line(p)' = Line(p)
  BY DEF Line
<1>2. Logged' = Logged
  BY DEF Logged
<1>. QED
  BY <1>1, <1>2 DEF OrderInv, Tickets

(* A step leaves the last lap as it is when it starts to move no line, makes *)
(* no item readable and changes no item that is.                             *)
LEMMA LastLapKept ==
  ASSUME OrderInv, ~lapped, UNCHANGED <<claimed, popped, ticket, overwritten>>,
         \A p \in Producers : Moving(p)' => Moving(p),
         \A s \in Slots : Readable(s)' => Readable(s) /\ logline'[s] = logline[s]
  PROVE  LastLap'
<1>1. ASSUME NEW s \in Slots, Readable(s)' PROVE Waits(s)'
  <2>1. Waits(s) /\ logline'[s] = logline[s]
    BY <1>1 DEF OrderInv, LastLap
  <2>. QED
    BY <2>1 DEF Waits
<1>. QED
  BY <1>1 DEF OrderInv, LastLap

(* An item whose producer has not moved its line into it is not readable. *)
LEMMA NotReadable ==
  ASSUME OrderInv, ~lapped, NEW p \in Producers, Moving(p), index[p] \in Slots
  PROVE  ~Readable(index[p])
<1>. SUFFICES ASSUME Readable(index[p]) PROVE FALSE
  OBVIOUS
<1>1. PICK k \in Len(popped)..(Len(claimed) - 1) :
        index[p] = Slot(k) /\ \A q \in Producers : Moving(q) => ticket[q] # k
  BY DEF OrderInv, LastLap, Waits
<1>2. /\ ticket[p] < Len(claimed) /\ Len(popped) <= ticket[p]
      /\ index[p] = Slot(ticket[p])
  BY DEF OrderInv, LastLap, Tickets, Moving
<1>3. ticket[p] \in Nat /\ Len(popped) \in Nat /\ Len(claimed) \in Nat
  BY DEF OrderInv, RingInv, Typed, TypeOK
<1>4. ticket[p] \in Len(popped)..(Len(claimed) - 1)
  BY <1>2, <1>3
<1>5. ticket[p] = k
  BY <1>1, <1>2, <1>4, SameTicket
<1>. QED
  BY <1>1, <1>5

(* The producer overwrites nothing. *)
LEMMA OrderMove ==
  ASSUME OrderInv, NEW p \in Producers, PushMove(p)
  PROVE  Indices' /\ Tickets' /\ (~lapped' => LastLap')
<1>. TypeOK
  BY DEF OrderInv, RingInv, Typed
<1>1. Indices' /\ Tickets'
  BY TicketsKept DEF PushMove, TypeOK, consumerVars, OrderInv, Indices
<1>2. ASSUME ~lapped' PROVE LastLap'
  <2>0. ~lapped
    BY <1>2 DEF PushMove
  <2>1. index[p] \in Slots /\ ~Readable(index[p])
    BY <2>0, NotReadable DEF PushMove, Moving, TypeOK
  <2>2. ~written[index[p]]
    BY <2>1 DEF Readable, PushMove, OrderInv, RingInv, Exclusive, InItem, PopInItem
  <2>3. overwritten' = overwritten
    BY <2>2 DEF PushMove
  <2>4. \A s \in Slots : Readable(s)' => Readable(s) /\ logline'[s] = logline[s]
    BY <2>1 DEF PushMove, Readable, TypeOK, consumerVars
  <2>5. \A q \in Producers : Moving(q)' => Moving(q)
    BY DEF PushMove, Moving, TypeOK
  <2>. QED
    BY <2>0, <2>3, <2>4, <2>5, LastLapKept DEF PushMove, consumerVars
<1>. QED
  BY <1>1, <1>2

(* A line marked waits in the item of its ticket. *)
LEMMA OrderMark ==
  ASSUME OrderInv, NEW p \in Producers, PushMark(p)
  PROVE  Indices' /\ Tickets' /\ (~lapped' => LastLap')
<1>. TypeOK
  BY DEF OrderInv, RingInv, Typed
<1>1. Indices' /\ Tickets'
  BY TicketsKept DEF PushMark, TypeOK, consumerVars, OrderInv, Indices
<1>2. ASSUME ~lapped' PROVE LastLap'
  <2>0. LastLap
    BY <1>2 DEF PushMark, OrderInv
  <2>1. /\ index[p] = Slot(ticket[p]) /\ claimed[ticket[p] + 1] = Line(p)
        /\ ticket[p] < Len(claimed) /\ Len(popped) <= ticket[p]
        /\ logline[index[p]] = Line(p)
    BY <2>0 DEF PushMark, OrderInv, Tickets, LastLap, Moving, RingInv, Distinct, MovedHere
  <2>2. \A q \in Producers : q # p /\ Moving(q) => ticket[q] # ticket[p]
    BY <2>1 DEF OrderInv, Tickets, Moving, Line
  <2>3. \A q \in Producers : Moving(q)' <=> Moving(q) /\ q # p
    BY DEF PushMark, Moving, TypeOK
  <2>4. ASSUME NEW s \in Slots, Readable(s)' PROVE Waits(s)'
    <3>1. CASE s = index[p]
      <4>1. ticket[p] \in Len(popped)..(Len(claimed) - 1)
        BY <2>1 DEF TypeOK
      <4>2. \A q \in Producers : Moving(q)' => ticket'[q] # ticket[p]
        BY <2>2, <2>3 DEF PushMark
      <4>. QED
        BY <2>1, <3>1, <4>1, <4>2 DEF Waits, PushMark, consumerVars
    <3>2. CASE s # index[p]
      <4>1. Readable(s)
        BY <2>4, <3>2 DEF PushMark, Readable, TypeOK, consumerVars
      <4>2. Waits(s)
        BY <2>0, <4>1 DEF LastLap
      <4>. QED
        BY <2>3, <4>2 DEF Waits, PushMark, consumerVars
    <3>. QED
      BY <3>1, <3>2
  <2>. QED
    BY <2>0, <2>3, <2>4 DEF LastLap, PushMark, consumerVars
<1>. QED
  BY <1>1, <1>2

(* The line popped is the next one. *)
LEMMA OrderPop ==
  ASSUME OrderInv, PopMove
  PROVE  Indices' /\ Tickets' /\ (~lapped' => LastLap')
<1>. TypeOK
  BY DEF OrderInv, RingInv, Typed
<1>. DEFINE P == Len(popped)
<1>0. P \in Nat /\ Len(claimed) \in Nat /\ popped \in Seq(Lines \cup {NoLine})
      /\ logline[item] \in Lines \cup {NoLine} /\ item \in Slots
  BY DEF TypeOK
<1>1. /\ Len(popped') = P + 1
      /\ popped'[P + 1] = logline[item]
      /\ \A i \in 1..P : popped'[i] = popped[i]
  BY <1>0 DEF PopMove
<1>2. Indices'
  BY <1>0, <1>1 DEF PopMove, producerVars, OrderInv, Indices
<1>3. Tickets'
  BY TicketsKept DEF PopMove, producerVars
<1>4. ASSUME ~lapped' PROVE LastLap'
  <2>0. ~lapped /\ LastLap /\ Readable(item) /\ item = Slot(P)
    BY <1>4 DEF PopMove, producerVars, Readable, OrderInv, Indices
  <2>1. PICK k \in P..(Len(claimed) - 1) :
          /\ item = Slot(k)
          /\ logline[item] = claimed[k + 1]
          /\ \A p \in Producers : Moving(p) => ticket[p] # k
    BY <1>0, <2>0 DEF LastLap, Waits
  <2>2. P \in P..(Len(claimed) - 1)
    BY <1>0, <2>1
  <2>3. k = P
    BY <2>0, <2>1, <2>2, SameTicket
  <2>4. \A p \in Producers : Moving(p)' => Len(popped') <= ticket'[p]
    <3>1. \A p \in Producers : Moving(p) => P <= ticket[p] /\ ticket[p] # P
      BY <2>0, <2>1, <2>3 DEF LastLap
    <3>. QED
      BY <1>0, <1>1, <3>1 DEF PopMove, producerVars, Moving, TypeOK
  <2>5. \A i \in 1..Len(popped') : popped'[i] = claimed'[i]
    BY <1>0, <1>1, <2>0, <2>1, <2>3 DEF LastLap, PopMove, producerVars
  <2>6. ASSUME NEW s \in Slots, Readable(s)' PROVE Waits(s)'
    <3>1. Readable(s) /\ s # item
      BY <2>6 DEF PopMove, Readable
    <3>2. PICK j \in P..(Len(claimed) - 1) :
            /\ s = Slot(j)
            /\ logline[s] = claimed[j + 1]
            /\ \A p \in Producers : Moving(p) => ticket[p] # j
      BY <2>0, <3>1 DEF LastLap, Waits
    <3>3. j \in (P + 1)..(Len(claimed) - 1)
      BY <1>0, <2>0, <3>1, <3>2
    <3>. QED
      BY <1>1, <3>2, <3>3 DEF Waits, PopMove, producerVars, Moving
  <2>7. Len(popped') <= Len(claimed) /\ Len(claimed) <= Len(popped') + Size
    BY <1>0, <1>1, <2>0, <2>2, RingAssumption DEF LastLap
  <2>. QED
    BY <2>0, <2>4, <2>5, <2>6, <2>7 DEF LastLap, PopMove, producerVars
<1>. QED
  BY <1>2, <1>3, <1>4

(* The item cleared was not readable any more, and the next one is next. *)
LEMMA OrderClear ==
  ASSUME OrderInv, PopClear
  PROVE  Indices' /\ Tickets' /\ (~lapped' => LastLap')
<1>. TypeOK
  BY DEF OrderInv, RingInv, Typed
<1>1. Indices'
  <2>1. /\ Len(popped) > 0 /\ Slot(readIndex) = Slot(Len(popped) - 1)
        /\ Len(popped) \in Nat /\ readIndex \in 0..(IndexMod - 1)
    BY DEF PopClear, OrderInv, Indices, TypeOK
  <2>2. Slot(Bump(readIndex)) = Slot((Len(popped) - 1) + 1)
    BY <2>1, SlotBump DEF OrderInv
  <2>3. (Len(popped) - 1) + 1 = Len(popped)
    BY <2>1
  <2>. QED
    BY <2>2, <2>3 DEF PopClear, producerVars, OrderInv, Indices
<1>2. Tickets'
  BY TicketsKept DEF PopClear, producerVars
<1>3. ASSUME ~lapped' PROVE LastLap'
  <2>1. \A s \in Slots : Readable(s)' => Readable(s) /\ logline'[s] = logline[s]
    BY DEF PopClear, Readable, TypeOK
  <2>. QED
    BY <1>3, <2>1, LastLapKept DEF PopClear, producerVars, Moving
<1>. QED
  BY <1>1, <1>2, <1>3

(* The steps that touch no line. *)
LEMMA OrderIdle ==
  ASSUME OrderInv,
         \/ \E p \in Producers : PushLock(p) \/ PushUnlock(p)
         \/ PopCall \/ PopLock \/ PopTrue \/ PopFalse \/ UNCHANGED vars
  PROVE  Indices' /\ Tickets' /\ (~lapped' => LastLap')
<1>. TypeOK
  BY DEF OrderInv, RingInv, Typed
<1>. USE DEF PushLock, PushUnlock, PopCall, PopLock, PopTrue, PopFalse, vars,
             producerVars, consumerVars
<1>1. /\ UNCHANGED <<claimed, popped, ticket, overwritten, index, pushed, lapped,
                     writeIndex, readIndex, written, logline>>
      /\ (pop # "moved" /\ pop' # "moved") \/ pop' = pop
      /\ pop' = "locked" => item' = Slot(readIndex) \/ (pop = "locked" /\ item' = item)
  OBVIOUS
<1>2. \A p \in Producers :
        (pc'[p] # "idle" => pc[p] # "idle") /\ (Moving(p)' => Moving(p))
  BY DEF Moving, TypeOK
<1>3. Indices'
  BY <1>1 DEF OrderInv, Indices
<1>4. Tickets'
  BY <1>1, <1>2, TicketsKept
<1>5. ASSUME ~lapped' PROVE LastLap'
  <2>1. \A s \in Slots : Readable(s)' => Readable(s) /\ logline'[s] = logline[s]
    BY DEF Readable
  <2>. QED
    BY <1>1, <1>2, <1>5, <2>1, LastLapKept
<1>. QED
  BY <1>3, <1>4, <1>5

LEMMA OrderNext == OrderInv /\ [Next]_vars => OrderInv'
<1>. SUFFICES ASSUME OrderInv, [Next]_vars PROVE OrderInv'
  OBVIOUS
<1>1. RingInv' /\ SizeDivides'
  BY RingInvNext DEF OrderInv, SizeDivides
<1>2. Indices' /\ Tickets' /\ (~lapped' => LastLap')
  BY OrderClaim, OrderMove, OrderMark, OrderPop, OrderClear, OrderIdle
     DEF Next, Produce, TryPop
<1>. QED
  BY <1>1, <1>2 DEF OrderInv

(* A ring that is not lapped overwrites nothing and hands the lines out in  *)
(* the order of their claims.                                               *)
THEOREM FirstInFirstOut == SizeDivides => (Spec => []FifoUnlessLapped)
<1>1. OrderInv => FifoUnlessLapped
  BY DEF OrderInv, LastLap, FifoUnlessLapped
<1>. QED
  BY OrderInit, OrderNext, <1>1, PTL DEF Spec

-------------------------------------------------------------------------------
(* tryPop() says FALSE in a ring that still holds lines only if the next     *)
(* line to read is one that its producer has not stored yet.                 *)
LEMMA FalseStep ==
  ASSUME OrderInv, PopFalse, ~lapped, Stored # {}
  PROVE  claimed[Len(popped) + 1] \in InTransit
<1>. DEFINE P == Len(popped)
            l == claimed[P + 1]
<1>. TypeOK /\ LastLap
  BY DEF OrderInv, RingInv, Typed
<1>0. P \in Nat /\ Len(claimed) \in Nat /\ claimed \in Seq(Lines)
  BY DEF TypeOK
<1>1. PICK s \in Slots : Readable(s)
  BY DEF Stored
<1>2. P < Len(claimed)
  BY <1>0, <1>1 DEF LastLap, Waits
<1>3. \A k \in 0..(Len(claimed) - 1) : claimed[k + 1] = l => k = P
  <2>1. \A i, j \in DOMAIN claimed : claimed[i] = claimed[j] => i = j
    BY DEF OrderInv, Tickets, IsInjective
  <2>2. DOMAIN claimed = 1..Len(claimed)
    BY <1>0
  <2>. QED
    BY <1>0, <1>2, <2>1, <2>2
<1>4. l \in Logged
  BY <1>0, <1>2 DEF OrderInv, Tickets, Range
<1>5. l \notin Range(popped)
  <2>0. DOMAIN popped = 1..P
    BY DEF TypeOK
  <2>1. SUFFICES ASSUME NEW i \in 1..P, popped[i] = l PROVE FALSE
    BY <2>0 DEF Range
  <2>2. claimed[(i - 1) + 1] = l /\ i - 1 \in 0..(Len(claimed) - 1) /\ i - 1 # P
    BY <1>0, <1>2, <2>1 DEF LastLap
  <2>. QED
    BY <1>3, <2>2
<1>6. l \notin Stored
  <2>1. SUFFICES ASSUME NEW t \in Slots, Readable(t), logline[t] = l PROVE FALSE
    BY DEF Stored
  <2>2. PICK k \in P..(Len(claimed) - 1) : t = Slot(k) /\ logline[t] = claimed[k + 1]
    BY <2>1 DEF LastLap, Waits
  <2>3. k = P
    BY <1>0, <1>3, <2>1, <2>2
  <2>4. t = item
    BY <2>2, <2>3 DEF PopFalse, OrderInv, Indices
  <2>. QED
    BY <2>1, <2>4 DEF PopFalse, Readable
<1>. QED
  BY <1>4, <1>5, <1>6 DEF OrderInv, RingInv, Accounted, LastLap

THEOREM FalseIsTrue == SizeDivides => (Spec => FalseMeansDrained)
<1>1. OrderInv /\ [Next]_vars =>
        [PopFalse /\ ~lapped /\ Stored # {} =>
           claimed[Len(popped) + 1] \in InTransit]_vars
  BY FalseStep
<1>. QED
  BY OrderInit, OrderNext, <1>1, PTL DEF Spec, FalseMeansDrained
===============================================================================
