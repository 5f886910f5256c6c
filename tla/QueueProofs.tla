------------------------------ MODULE QueueProofs ------------------------------
(***************************************************************************)
(* Proofs about QueueBuffer for any number of producers, lines and items   *)
(* of a Buffer, with allocations that fail and whatever an access to freed *)
(* memory does.                                                            *)
(***************************************************************************)
EXTENDS QueueBuffer, FiniteSetTheorems, TLAPS

BufferType == [logline : [Items -> Lines \cup {NoLine}] \cup {NullItems},
               writeState : [Items -> BOOLEAN], count : Nat]

(* The heap is only looked at through these. *)
Written(b, i) == heap[b].writeState[i]
LineAt(b, i) == heap[b].logline[i]
HasItems(b) == heap[b].logline # NullItems
CountOf(b) == heap[b].count

(* Which items a producer may touch, and that it has a line for it. *)
Owner(p) == pc[p] \in {"claimed", "loaded", "constructed", "published"}

Started ==
  /\ \A p \in Producers :
       /\ pc[p] # "idle" => pushed[p] >= 1
       /\ Owner(p) => index[p] \in Items
       /\ pc[p] \in {"loaded", "constructed", "published"} => target[p] # NoBuffer
       /\ pc[p] = "constructed" => HasItems(target[p])
  /\ \A b \in DOMAIN heap, i \in Items : Written(b, i) => HasItems(b)

(* The read Buffer is the front of the queue, until it is read. *)
Reading ==
  /\ readBuffer # NoBuffer => buffers # <<>> /\ readBuffer = buffers[1]
  /\ readBuffer = NoBuffer => readIndex = 0
  /\ pop \in {"finished", "retire"} => buffers # <<>>
  /\ pop \in {"front", "finished", "retire"} => readBuffer = NoBuffer

Typed == TypeOK /\ Started /\ Reading

-------------------------------------------------------------------------------
LEMMA HeapUpdate ==
  ASSUME NEW h \in Seq(BufferType), NEW t \in DOMAIN h, NEW x \in BufferType,
         NEW g, g = [h EXCEPT ![t] = x]
  PROVE  /\ g \in Seq(BufferType) /\ Len(g) = Len(h) /\ DOMAIN g = DOMAIN h
         /\ \A b \in DOMAIN h : g[b] = IF b = t THEN x ELSE h[b]
  OBVIOUS

(* What the steps of Buffer::push make of the heap. *)
Constructed(h, t, i, l) == [h EXCEPT ![t].logline[i] = l]
Published(h, t, i) == [h EXCEPT ![t].writeState[i] = TRUE]
CountedIn(h, t) == [h EXCEPT ![t].count = @ + 1]

(* A line is constructed in a Buffer, ... *)
LEMMA HeapConstruct ==
  ASSUME NEW h \in Seq(BufferType), NEW t \in DOMAIN h, NEW i \in Items, NEW l \in Lines,
         h[t].logline # NullItems
  PROVE  LET g == Constructed(h, t, i, l) IN
         /\ g \in Seq(BufferType) /\ Len(g) = Len(h) /\ DOMAIN g = DOMAIN h
         /\ \A b \in DOMAIN h :
              /\ g[b].writeState = h[b].writeState /\ g[b].count = h[b].count
              /\ (g[b].logline # NullItems) <=> (h[b].logline # NullItems)
              /\ \A j \in Items : g[b].logline[j] =
                   IF b = t /\ j = i THEN l ELSE h[b].logline[j]
<1>. DEFINE g == Constructed(h, t, i, l)
<1>. DEFINE x == [h[t] EXCEPT !.logline = [@ EXCEPT ![i] = l]]
<1>0. h[t] \in BufferType
  OBVIOUS
<1>1. h[t].logline \in [Items -> Lines \cup {NoLine}]
  BY <1>0 DEF BufferType
<1>2. [h[t].logline EXCEPT ![i] = l] \in [Items -> Lines \cup {NoLine}]
  BY <1>1
<1>3. [h[t].logline EXCEPT ![i] = l] # NullItems
  <2>1. 0 \in Items /\ DOMAIN [h[t].logline EXCEPT ![i] = l] = Items
    BY <1>2, QueueAssumption DEF Items
  <2>2. DOMAIN NullItems = {}
    BY DEF NullItems
  <2>. QED
    BY <2>1, <2>2
<1>4. /\ x \in BufferType
      /\ x.writeState = h[t].writeState /\ x.count = h[t].count
      /\ x.logline = [h[t].logline EXCEPT ![i] = l]
  BY <1>0, <1>1, <1>2 DEF BufferType
<1>f. g = [h EXCEPT ![t] = x]
  BY DEF x, Constructed
<1>. HIDE DEF x, g
<1>5. g \in Seq(BufferType) /\ Len(g) = Len(h) /\ DOMAIN g = DOMAIN h
  BY <1>4, <1>f, HeapUpdate
<1>6. \A b \in DOMAIN h : g[b] = IF b = t THEN x ELSE h[b]
  BY <1>4, <1>f, HeapUpdate
<1>8. \A b \in DOMAIN h :
        /\ g[b].writeState = h[b].writeState /\ g[b].count = h[b].count
        /\ (g[b].logline # NullItems) <=> (h[b].logline # NullItems)
        /\ \A j \in Items : g[b].logline[j] =
             IF b = t /\ j = i THEN l ELSE h[b].logline[j]
  BY <1>1, <1>3, <1>4, <1>6
<1>. QED
  BY <1>5, <1>8 DEF g

(* ... published, ... *)
LEMMA HeapPublish ==
  ASSUME NEW h \in Seq(BufferType), NEW t \in DOMAIN h, NEW i \in Items
  PROVE  LET g == Published(h, t, i) IN
         /\ g \in Seq(BufferType) /\ Len(g) = Len(h) /\ DOMAIN g = DOMAIN h
         /\ \A b \in DOMAIN h :
              /\ g[b].logline = h[b].logline /\ g[b].count = h[b].count
              /\ b # t => g[b].writeState = h[b].writeState
         /\ g[t].writeState[i]
         /\ \A j \in Items : j # i => g[t].writeState[j] = h[t].writeState[j]
<1>. DEFINE g == Published(h, t, i)
<1>. DEFINE x == [h[t] EXCEPT !.writeState = [@ EXCEPT ![i] = TRUE]]
<1>0. h[t] \in BufferType
  OBVIOUS
<1>1. h[t].writeState \in [Items -> BOOLEAN]
  BY <1>0 DEF BufferType
<1>2. [h[t].writeState EXCEPT ![i] = TRUE] \in [Items -> BOOLEAN]
  BY <1>1
<1>3. /\ x \in BufferType
      /\ x.logline = h[t].logline /\ x.count = h[t].count
      /\ x.writeState = [h[t].writeState EXCEPT ![i] = TRUE]
  BY <1>0, <1>1, <1>2 DEF BufferType
<1>f. g = [h EXCEPT ![t] = x]
  BY DEF x, Published
<1>. HIDE DEF x, g
<1>4. g \in Seq(BufferType) /\ Len(g) = Len(h) /\ DOMAIN g = DOMAIN h
  BY <1>3, <1>f, HeapUpdate
<1>5. \A b \in DOMAIN h : g[b] = IF b = t THEN x ELSE h[b]
  BY <1>3, <1>f, HeapUpdate
<1>7. \A b \in DOMAIN h :
        /\ g[b].logline = h[b].logline /\ g[b].count = h[b].count
        /\ b # t => g[b].writeState = h[b].writeState
  BY <1>1, <1>3, <1>5
<1>8. /\ g[t].writeState[i]
      /\ \A j \in Items : j # i => g[t].writeState[j] = h[t].writeState[j]
  BY <1>1, <1>3, <1>5
<1>. QED
  BY <1>4, <1>7, <1>8 DEF g

(* ... and counted. *)
LEMMA HeapCount ==
  ASSUME NEW h \in Seq(BufferType), NEW t \in DOMAIN h
  PROVE  LET g == CountedIn(h, t) IN
         /\ g \in Seq(BufferType) /\ Len(g) = Len(h) /\ DOMAIN g = DOMAIN h
         /\ \A b \in DOMAIN h :
              /\ g[b].logline = h[b].logline /\ g[b].writeState = h[b].writeState
              /\ g[b].count = IF b = t THEN h[b].count + 1 ELSE h[b].count
<1>. DEFINE g == CountedIn(h, t)
<1>. DEFINE x == [h[t] EXCEPT !.count = @ + 1]
<1>0. h[t] \in BufferType
  OBVIOUS
<1>1. h[t].count + 1 \in Nat
  BY <1>0 DEF BufferType
<1>2. /\ x \in BufferType
      /\ x.logline = h[t].logline /\ x.writeState = h[t].writeState
      /\ x.count = h[t].count + 1
  BY <1>0, <1>1 DEF BufferType
<1>f. g = [h EXCEPT ![t] = x]
  BY DEF x, CountedIn
<1>. HIDE DEF x, g
<1>3. g \in Seq(BufferType) /\ Len(g) = Len(h) /\ DOMAIN g = DOMAIN h
  BY <1>2, <1>f, HeapUpdate
<1>4. \A b \in DOMAIN h : g[b] = IF b = t THEN x ELSE h[b]
  BY <1>2, <1>f, HeapUpdate
<1>. QED
  BY <1>2, <1>3, <1>4 DEF g

(* A Buffer is allocated. *)
LEMMA HeapAppend ==
  ASSUME NEW h \in Seq(BufferType), NEW items \in {RawItems, NullItems}
  PROVE  LET g == Append(h, NewBuffer(items)) IN
         /\ g \in Seq(BufferType) /\ Len(g) = Len(h) + 1
         /\ DOMAIN g = DOMAIN h \cup {Len(h) + 1}
         /\ Len(h) \in Nat /\ DOMAIN h = 1..Len(h)
         /\ \A b \in DOMAIN h : g[b] = h[b]
         /\ g[Len(h) + 1] = NewBuffer(items)
         /\ g[Len(h) + 1].count = 0
         /\ \A i \in Items : g[Len(h) + 1].writeState[i] = FALSE
<1>1. items \in [Items -> Lines \cup {NoLine}] \cup {NullItems}
  BY DEF RawItems
<1>2. NewBuffer(items) \in BufferType
  BY <1>1 DEF NewBuffer, BufferType
<1>3. /\ NewBuffer(items).count = 0
      /\ \A i \in Items : NewBuffer(items).writeState[i] = FALSE
  BY DEF NewBuffer
<1>. HIDE DEF NewBuffer
<1>. QED
  BY <1>2, <1>3

-------------------------------------------------------------------------------
(* The types in two parts. *)
MemoryTyped ==
  /\ heap \in Seq(BufferType)
  /\ freed \subseteq DOMAIN heap
  /\ buffers \in Seq(DOMAIN heap)
  /\ writeBuffer \in DOMAIN heap
  /\ readBuffer \in DOMAIN heap \cup {NoBuffer}
  /\ target \in [Producers -> DOMAIN heap \cup {NoBuffer}]
  /\ seen \in [Producers -> DOMAIN heap]

OthersTyped ==
  /\ writeIndex \in Nat
  /\ readIndex \in Items
  /\ flag \in BOOLEAN
  /\ pc \in [Producers -> {"idle", "waiting", "retry", "claimed", "loaded",
                           "constructed", "published", "full", "setup",
                           "stored", "enqueued", "reset"}]
  /\ index \in [Producers -> Nat]
  /\ pushed \in [Producers -> 0..MaxPush]
  /\ pop \in {"ready", "called", "front", "finished", "retire", "true", "false"}
  /\ out \in Lines \cup {NoLine}
  /\ popped \in Seq(Lines \cup {NoLine})
  /\ damage \subseteq {"reused", "fault"}
  /\ failed \in BOOLEAN

LEMMA TypeParts ==
  /\ TypeOK <=> MemoryTyped /\ OthersTyped
  /\ TypeOK' <=> MemoryTyped' /\ OthersTyped'
  BY DEF TypeOK, MemoryTyped, OthersTyped, BufferType

(* Initially. *)
LEMMA TypedInit == Init => Typed
<1>. SUFFICES ASSUME Init PROVE Typed
  OBVIOUS
<1>1. 0 \in Items /\ 0 \in 0..MaxPush
  BY QueueAssumption DEF Items
<1>2. NewBuffer(RawItems) \in BufferType
  BY DEF NewBuffer, RawItems, BufferType
<1>3. heap \in Seq(BufferType) /\ DOMAIN heap = {1} /\ Len(heap) = 1
  BY <1>2 DEF Init
<1>4. \A i \in Items : ~Written(1, i)
  BY DEF Init, Written, NewBuffer
<1>5. TypeOK
  <2>1. MemoryTyped
    BY <1>3 DEF Init, MemoryTyped
  <2>2. /\ popped \in Seq(Lines \cup {NoLine}) /\ damage \subseteq {"reused", "fault"}
        /\ flag \in BOOLEAN /\ failed \in BOOLEAN
    <3>1. popped = <<>> /\ damage = {} /\ flag = FALSE /\ failed = FALSE
      BY DEF Init
    <3>2. <<>> \in Seq(Lines \cup {NoLine})
      OBVIOUS
    <3>. QED
      BY <3>1, <3>2
  <2>3. /\ writeIndex \in Nat /\ readIndex \in Items /\ index \in [Producers -> Nat]
        /\ pushed \in [Producers -> 0..MaxPush] /\ out \in Lines \cup {NoLine}
    BY <1>1 DEF Init
  <2>4. OthersTyped
    BY <2>2, <2>3 DEF Init, OthersTyped
  <2>. QED
    BY <2>1, <2>4, TypeParts
<1>6. Started
  BY <1>3, <1>4 DEF Init, Started, Owner
<1>7. Reading
  BY DEF Init, Reading
<1>. QED
  BY <1>5, <1>6, <1>7 DEF Typed

(* What Construct does to the heap, ... *)
Constructs(b, i, l) ==
  /\ Len(heap') = Len(heap) /\ DOMAIN heap' = DOMAIN heap
  /\ \A c \in DOMAIN heap :
       /\ CountOf(c)' = CountOf(c)
       /\ HasItems(c)' <=> HasItems(c)
       /\ \A j \in Items :
            /\ Written(c, j)' <=> Written(c, j)
            /\ LineAt(c, j)' = IF c = b /\ j = i THEN l ELSE LineAt(c, j)

(* ... Publish, ... *)
Publishes(b, i) ==
  /\ Len(heap') = Len(heap) /\ DOMAIN heap' = DOMAIN heap
  /\ \A c \in DOMAIN heap :
       /\ CountOf(c)' = CountOf(c)
       /\ HasItems(c)' <=> HasItems(c)
       /\ \A j \in Items :
            /\ Written(c, j)' <=> Written(c, j) \/ (c = b /\ j = i)
            /\ LineAt(c, j)' = LineAt(c, j)

(* ... Count, ... *)
CountsIn(b) ==
  /\ Len(heap') = Len(heap) /\ DOMAIN heap' = DOMAIN heap
  /\ \A c \in DOMAIN heap :
       /\ CountOf(c)' = IF c = b THEN CountOf(c) + 1 ELSE CountOf(c)
       /\ HasItems(c)' <=> HasItems(c)
       /\ \A j \in Items :
            /\ Written(c, j)' <=> Written(c, j)
            /\ LineAt(c, j)' = LineAt(c, j)

(* ... and SetupStore. *)
Allocates ==
  /\ Len(heap) \in Nat /\ DOMAIN heap = 1..Len(heap)
  /\ Len(heap') = Len(heap) + 1 /\ DOMAIN heap' = DOMAIN heap \cup {Len(heap) + 1}
  /\ \A c \in {Len(heap) + 1} : CountOf(c)' = 0 /\ \A j \in Items : ~Written(c, j)'
  /\ \A c \in DOMAIN heap :
       /\ CountOf(c)' = CountOf(c)
       /\ HasItems(c)' <=> HasItems(c)
       /\ \A j \in Items :
            /\ Written(c, j)' <=> Written(c, j)
            /\ LineAt(c, j)' = LineAt(c, j)

(* What a producer inside push() has is a line. *)
LEMMA LineTyped ==
  ASSUME Typed, NEW p \in Producers, pc[p] # "idle"
  PROVE  Line(p) \in Lines
<1>1. pushed[p] \in 1..MaxPush
  BY QueueAssumption DEF Typed, TypeOK, Started
<1>. QED
  BY <1>1 DEF Line, Lines

LEMMA ConstructEffect ==
  ASSUME Typed, NEW p \in Producers, Construct(p)
  PROVE  heap' \in Seq(BufferType) /\ Constructs(target[p], index[p], Line(p))
<1>1. /\ heap \in Seq(BufferType)
      /\ target[p] \in DOMAIN heap /\ index[p] \in Items /\ Line(p) \in Lines
      /\ heap[target[p]].logline # NullItems
      /\ heap' = Constructed(heap, target[p], index[p], Line(p))
  BY LineTyped, TypeParts
     DEF Construct, Constructed, Goto, At, Typed, Started, Owner, MemoryTyped
<1>. QED
  BY <1>1, HeapConstruct DEF Constructs, CountOf, HasItems, Written, LineAt

LEMMA PublishEffect ==
  ASSUME Typed, NEW p \in Producers, Publish(p)
  PROVE  heap' \in Seq(BufferType) /\ Publishes(target[p], index[p])
<1>. DEFINE t == target[p]
<1>. DEFINE i == index[p]
<1>1. heap \in Seq(BufferType) /\ t \in DOMAIN heap /\ i \in Items
  BY TypeParts DEF Publish, Goto, At, Typed, Started, Owner, MemoryTyped
<1>2. heap' = Published(heap, t, i)
  BY DEF Publish, Published
<1>. HIDE DEF t, i
<1>3. /\ heap' \in Seq(BufferType) /\ Len(heap') = Len(heap) /\ DOMAIN heap' = DOMAIN heap
      /\ \A b \in DOMAIN heap :
           /\ heap'[b].logline = heap[b].logline /\ heap'[b].count = heap[b].count
           /\ b # t => heap'[b].writeState = heap[b].writeState
      /\ heap'[t].writeState[i]
      /\ \A j \in Items : j # i => heap'[t].writeState[j] = heap[t].writeState[j]
  BY <1>1, <1>2, HeapPublish
<1>6. Publishes(t, i)
  BY <1>1, <1>3 DEF Publishes, CountOf, HasItems, Written, LineAt
<1>. QED
  BY <1>3, <1>6 DEF t, i

LEMMA CountEffect ==
  ASSUME Typed, NEW p \in Producers, NEW b \in DOMAIN heap, CountIn(p, b)
  PROVE  heap' \in Seq(BufferType) /\ CountsIn(b)
<1>1. /\ heap \in Seq(BufferType)
      /\ heap' = CountedIn(heap, b)
  BY TypeParts DEF CountIn, CountedIn, Typed, MemoryTyped
<1>. QED
  BY <1>1, HeapCount DEF CountsIn, CountOf, HasItems, Written, LineAt

LEMMA StoreEffect ==
  ASSUME Typed, NEW p \in Producers, SetupStore(p)
  PROVE  heap' \in Seq(BufferType) /\ Allocates
<1>1. heap \in Seq(BufferType)
  BY TypeParts DEF Typed, MemoryTyped
<1>2. PICK items \in {RawItems, NullItems} : heap' = Append(heap, NewBuffer(items))
  BY DEF SetupStore
<1>3. /\ heap' \in Seq(BufferType) /\ Len(heap') = Len(heap) + 1
      /\ DOMAIN heap' = DOMAIN heap \cup {Len(heap) + 1}
      /\ Len(heap) \in Nat /\ DOMAIN heap = 1..Len(heap)
      /\ \A b \in DOMAIN heap : heap'[b] = heap[b]
      /\ heap'[Len(heap) + 1].count = 0
      /\ \A i \in Items : heap'[Len(heap) + 1].writeState[i] = FALSE
  BY <1>1, <1>2, HeapAppend
<1>. QED
  BY <1>3 DEF Allocates, CountOf, HasItems, Written, LineAt

-------------------------------------------------------------------------------
(* The types are kept: by a producer's step ... *)
LEMMA TypeProduce ==
  ASSUME Typed, NEW p \in Producers, Produce(p)
  PROVE  MemoryTyped' /\ OthersTyped'
<1>. USE DEF Goto, At, bufferVars, producerVars, consumerVars
<1>0. MemoryTyped /\ OthersTyped /\ Started
  BY TypeParts DEF Typed
<1>1. CASE Claim(p)
  <2>1. pushed' \in [Producers -> 0..MaxPush]
    BY <1>0, <1>1, QueueAssumption DEF Claim, OthersTyped
  <2>. QED
    BY <1>0, <1>1, <2>1 DEF Claim, FetchAdd, MemoryTyped, OthersTyped
<1>2. CASE WaitOver(p)
  BY <1>0, <1>2 DEF WaitOver, MemoryTyped, OthersTyped
<1>3. CASE Retry(p)
  BY <1>0, <1>3 DEF Retry, FetchAdd, MemoryTyped, OthersTyped
<1>4. CASE Load(p)
  <2>1. PICK b \in Loadable(p) :
          target' = [target EXCEPT ![p] = b] /\ seen' = [seen EXCEPT ![p] = b]
    BY <1>4 DEF Load
  <2>2. b \in DOMAIN heap
    <3>1. DOMAIN heap = 1..Len(heap) /\ Len(heap) \in Nat
      BY <1>0 DEF MemoryTyped
    <3>2. writeBuffer \in DOMAIN heap /\ seen[p] \in DOMAIN heap
      BY <1>0 DEF MemoryTyped
    <3>. QED
      BY <2>1, <3>1, <3>2 DEF Loadable
  <2>. QED
    BY <1>0, <1>4, <2>1, <2>2 DEF Load, MemoryTyped, OthersTyped
<1>5. CASE Construct(p)
  <2>1. heap' \in Seq(BufferType) /\ DOMAIN heap' = DOMAIN heap
    BY <1>5, ConstructEffect DEF Constructs
  <2>. QED
    BY <1>0, <1>5, <2>1 DEF Construct, MemoryTyped, OthersTyped
<1>6. CASE ConstructFault(p)
  BY <1>0, <1>6 DEF ConstructFault, MemoryTyped, OthersTyped
<1>7. CASE Publish(p)
  <2>1. heap' \in Seq(BufferType) /\ DOMAIN heap' = DOMAIN heap
    BY <1>7, PublishEffect DEF Publishes
  <2>. QED
    BY <1>0, <1>7, <2>1 DEF Publish, MemoryTyped, OthersTyped
<1>8. CASE Count(p)
  <2>1. target[p] \in DOMAIN heap
    BY <1>0, <1>8 DEF Count, Started, MemoryTyped
  <2>2. \/ \E b \in DOMAIN heap : CountIn(p, b)
        \/ UNCHANGED heap /\ \E next \in {"full", "idle"} : pc' = [pc EXCEPT ![p] = next]
        \/ UNCHANGED <<heap, pc>>
    BY <1>8, <2>1 DEF Count, CountFreed
  <2>3. heap' \in Seq(BufferType) /\ DOMAIN heap' = DOMAIN heap
    BY <1>0, <2>2, CountEffect DEF CountsIn, MemoryTyped
  <2>4. \/ \E next \in {"full", "idle"} : pc' = [pc EXCEPT ![p] = next]
        \/ UNCHANGED pc
    BY <2>2 DEF CountIn
  <2>5. damage' \subseteq {"reused", "fault"}
    BY <1>0, <1>8 DEF Count, CountFreed, OthersTyped
  <2>6. MemoryTyped'
    BY <1>0, <1>8, <2>3 DEF Count, MemoryTyped
  <2>. QED
    BY <1>0, <1>8, <2>4, <2>5, <2>6 DEF Count, OthersTyped
<1>9. CASE SetupLock(p)
  BY <1>0, <1>9 DEF SetupLock, MemoryTyped, OthersTyped
<1>10. CASE SetupStore(p)
  <2>1. /\ heap' \in Seq(BufferType)
        /\ DOMAIN heap \subseteq DOMAIN heap' /\ Len(heap) + 1 \in DOMAIN heap'
    BY <1>10, StoreEffect DEF Allocates
  <2>2. Seq(DOMAIN heap) \subseteq Seq(DOMAIN heap')
    BY <2>1
  <2>3. writeBuffer' \in DOMAIN heap'
    BY <1>10, <2>1 DEF SetupStore
  <2>4. MemoryTyped'
    BY <1>0, <1>10, <2>1, <2>2, <2>3 DEF SetupStore, MemoryTyped
  <2>. QED
    BY <1>0, <1>10, <2>4 DEF SetupStore, OthersTyped
<1>11. CASE SetupThrow(p)
  BY <1>0, <1>11 DEF SetupThrow, MemoryTyped, OthersTyped
<1>12. CASE SetupEnqueue(p)
  BY <1>0, <1>12 DEF SetupEnqueue, MemoryTyped, OthersTyped
<1>13. CASE SetupReset(p)
  BY <1>0, <1>13 DEF SetupReset, MemoryTyped, OthersTyped
<1>14. CASE SetupUnlock(p)
  BY <1>0, <1>14 DEF SetupUnlock, MemoryTyped, OthersTyped
<1>. QED
  BY <1>1, <1>2, <1>3, <1>4, <1>5, <1>6, <1>7, <1>8, <1>9, <1>10, <1>11, <1>12,
     <1>13, <1>14 DEF Produce, PushStep

(* ... and by the consumer's. *)
LEMMA TypePop ==
  ASSUME Typed, PopCall \/ TryPop
  PROVE  MemoryTyped' /\ OthersTyped'
<1>. USE DEF PopAt, bufferVars, producerVars, consumerVars
<1>0. MemoryTyped /\ OthersTyped /\ Started /\ Reading
  BY TypeParts DEF Typed
<1>1. CASE PopCall
  BY <1>0, <1>1 DEF PopCall, MemoryTyped, OthersTyped
<1>2. CASE PopFrontLock
  BY <1>0, <1>2 DEF PopFrontLock, MemoryTyped, OthersTyped
<1>3. CASE PopFront
  <2>1. readBuffer' \in DOMAIN heap \cup {NoBuffer} /\ pop' \in {"false", "called"}
    BY <1>0, <1>3 DEF PopFront, MemoryTyped
  <2>. QED
    BY <1>0, <1>3, <2>1 DEF PopFront, MemoryTyped, OthersTyped
<1>4. CASE PopFalse
  BY <1>0, <1>4 DEF PopFalse, MemoryTyped, OthersTyped
<1>5. CASE PopMove
  <2>1. LineAt(readBuffer, readIndex) \in Lines \cup {NoLine}
    <3>1. readBuffer \in DOMAIN heap /\ readIndex \in Items /\ HasItems(readBuffer)
      BY <1>0, <1>5 DEF PopMove, MemoryTyped, OthersTyped, Started, IsWritten, Written
    <3>2. heap[readBuffer] \in BufferType
      BY <1>0, <3>1 DEF MemoryTyped
    <3>3. heap[readBuffer].logline \in [Items -> Lines \cup {NoLine}]
      BY <3>1, <3>2 DEF BufferType, HasItems
    <3>. QED
      BY <3>1, <3>3 DEF LineAt
  <2>2. out' \in Lines \cup {NoLine} /\ popped' = Append(popped, out')
    BY <1>5, <2>1 DEF PopMove, LineAt
  <2>3. popped' \in Seq(Lines \cup {NoLine})
    BY <1>0, <2>2 DEF OthersTyped
  <2>4. /\ readIndex' \in Items
        /\ readBuffer' \in {readBuffer, NoBuffer}
        /\ pop' \in {"finished", "true"}
    BY <1>0, <1>5, QueueAssumption DEF PopMove, OthersTyped, Items
  <2>5. MemoryTyped'
    BY <1>0, <1>5, <2>4 DEF PopMove, MemoryTyped
  <2>. QED
    BY <1>0, <1>5, <2>2, <2>3, <2>4, <2>5 DEF PopMove, OthersTyped
<1>6. CASE PopRetireLock
  BY <1>0, <1>6 DEF PopRetireLock, MemoryTyped, OthersTyped
<1>7. CASE PopRetire
  <2>1. Head(buffers) \in DOMAIN heap /\ Tail(buffers) \in Seq(DOMAIN heap)
    BY <1>0, <1>7 DEF PopRetire, MemoryTyped, Reading
  <2>. QED
    BY <1>0, <1>7, <2>1 DEF PopRetire, MemoryTyped, OthersTyped
<1>. QED
  BY <1>1, <1>2, <1>3, <1>4, <1>5, <1>6, <1>7 DEF TryPop

(* The producers' part of the invariant is kept by a producer's step ... *)
LEMMA StartedProduce ==
  ASSUME Typed, NEW p \in Producers, Produce(p)
  PROVE  Started'
<1>. USE DEF Goto, At, bufferVars, producerVars, consumerVars, Owner
<1>0. MemoryTyped /\ OthersTyped /\ Started
  BY TypeParts DEF Typed
<1>1. CASE Claim(p)
  <2>1. pushed'[p] >= 1
    BY <1>0, <1>1, QueueAssumption DEF Claim, OthersTyped
  <2>2. \A q \in Producers : q # p =>
          /\ pc'[q] = pc[q] /\ index'[q] = index[q] /\ pushed'[q] = pushed[q]
          /\ target'[q] = target[q]
    BY <1>0, <1>1 DEF Claim, FetchAdd, OthersTyped
  <2>3. /\ pc'[p] \in {"claimed", "waiting"} /\ index'[p] = writeIndex /\ heap' = heap
        /\ pc'[p] = "claimed" => writeIndex \in Items
    BY <1>0, <1>1, QueueAssumption DEF Claim, FetchAdd, OthersTyped, Items
  <2>. QED
    BY <1>0, <2>1, <2>2, <2>3 DEF Started, HasItems, Written
<1>2. CASE WaitOver(p)
  BY <1>0, <1>2 DEF WaitOver, OthersTyped, Started, HasItems, Written
<1>3. CASE Retry(p)
  <2>1. \A q \in Producers : q # p =>
          /\ pc'[q] = pc[q] /\ index'[q] = index[q] /\ pushed'[q] = pushed[q]
          /\ target'[q] = target[q]
    BY <1>0, <1>3 DEF Retry, FetchAdd, OthersTyped
  <2>2. /\ pc[p] # "idle" /\ pc'[p] \in {"claimed", "waiting"} /\ index'[p] = writeIndex
        /\ pushed'[p] = pushed[p] /\ heap' = heap
        /\ pc'[p] = "claimed" => writeIndex \in Items
    BY <1>0, <1>3, QueueAssumption DEF Retry, FetchAdd, OthersTyped, Items
  <2>. QED
    BY <1>0, <2>1, <2>2 DEF Started, HasItems, Written
<1>4. CASE Load(p)
  <2>1. PICK b \in Loadable(p) : target' = [target EXCEPT ![p] = b]
    BY <1>4 DEF Load
  <2>2. b # NoBuffer
    <3>1. DOMAIN heap = 1..Len(heap) /\ Len(heap) \in Nat
      BY <1>0 DEF MemoryTyped
    <3>2. writeBuffer \in DOMAIN heap /\ seen[p] \in DOMAIN heap
      BY <1>0 DEF MemoryTyped
    <3>. QED
      BY <2>1, <3>1, <3>2 DEF Loadable, NoBuffer
  <2>. QED
    BY <1>0, <1>4, <2>1, <2>2
       DEF Load, MemoryTyped, OthersTyped, Started, HasItems, Written
<1>5. CASE Construct(p)
  <2>1. target[p] \in DOMAIN heap /\ HasItems(target[p])
    BY <1>0, <1>5 DEF Construct, Started, MemoryTyped, HasItems
  <2>2. \A q \in Producers :
          /\ (pc[q] # "idle" => pushed[q] >= 1)'
          /\ (Owner(q) => index[q] \in Items)'
          /\ (pc[q] \in {"loaded", "constructed", "published"} => target[q] # NoBuffer)'
    BY <1>0, <1>5 DEF Construct, OthersTyped, Started
  <2>3. Constructs(target[p], index[p], Line(p))
    BY <1>5, ConstructEffect
  <2>4. \A q \in Producers : (pc[q] = "constructed" => HasItems(target[q]))'
    <3>. SUFFICES ASSUME NEW q \in Producers, pc'[q] = "constructed"
                  PROVE  HasItems(target[q])'
      OBVIOUS
    <3>1. target'[q] = target[q] /\ target[q] \in DOMAIN heap /\ HasItems(target[q])
      BY <1>0, <1>5, <2>1 DEF Construct, OthersTyped, MemoryTyped, Started
    <3>. QED
      BY <2>3, <3>1 DEF Constructs, HasItems
  <2>. QED
    BY <1>0, <2>2, <2>3, <2>4 DEF Constructs, Started
<1>6. CASE ConstructFault(p)
  BY <1>0, <1>6 DEF ConstructFault, Started, HasItems, Written
<1>7. CASE Publish(p)
  <2>1. target[p] \in DOMAIN heap /\ HasItems(target[p])
    BY <1>0, <1>7 DEF Publish, Started, MemoryTyped
  <2>2. \A q \in Producers :
          /\ (pc[q] # "idle" => pushed[q] >= 1)'
          /\ (Owner(q) => index[q] \in Items)'
          /\ (pc[q] \in {"loaded", "constructed", "published"} => target[q] # NoBuffer)'
    BY <1>0, <1>7 DEF Publish, OthersTyped, Started
  <2>3. Publishes(target[p], index[p])
    BY <1>7, PublishEffect
  <2>4. \A q \in Producers : (pc[q] = "constructed" => HasItems(target[q]))'
    <3>. SUFFICES ASSUME NEW q \in Producers, pc'[q] = "constructed"
                  PROVE  HasItems(target[q])'
      OBVIOUS
    <3>1. target'[q] = target[q] /\ target[q] \in DOMAIN heap /\ HasItems(target[q])
      BY <1>0, <1>7 DEF Publish, OthersTyped, MemoryTyped, Started
    <3>. QED
      BY <2>3, <3>1 DEF Publishes, HasItems
  <2>. QED
    BY <1>0, <2>1, <2>2, <2>3, <2>4 DEF Publishes, Started
<1>8. CASE Count(p)
  <2>1. target[p] \in DOMAIN heap
    BY <1>0, <1>8 DEF Count, Started, MemoryTyped
  <2>2. \/ \E b \in DOMAIN heap : CountIn(p, b)
        \/ UNCHANGED heap
    BY <1>8, <2>1 DEF Count, CountFreed
  <2>3. DOMAIN heap' = DOMAIN heap /\ \A c \in DOMAIN heap :
          /\ HasItems(c)' <=> HasItems(c)
          /\ \A j \in Items : Written(c, j)' <=> Written(c, j)
    BY <1>0, <2>2, CountEffect DEF CountsIn, HasItems, Written
  <2>4. \/ \E next \in {"full", "idle"} : pc' = [pc EXCEPT ![p] = next]
        \/ UNCHANGED pc
    BY <1>8 DEF CountIn, Count, CountFreed
  <2>5. \A q \in Producers : pc'[q] # "idle" =>
          /\ pc[q] # "idle" /\ pushed'[q] = pushed[q] /\ index'[q] = index[q]
          /\ target'[q] = target[q] /\ target[q] \in DOMAIN heap \cup {NoBuffer}
          /\ pc'[q] = pc[q] \/ pc'[q] = "full"
    BY <1>0, <1>8, <2>4 DEF Count, OthersTyped, MemoryTyped
  <2>6. \A q \in Producers : (pc[q] = "constructed" => HasItems(target[q]))'
    <3>. SUFFICES ASSUME NEW q \in Producers, pc'[q] = "constructed"
                  PROVE  HasItems(target[q])'
      OBVIOUS
    <3>1. target'[q] = target[q] /\ target[q] \in DOMAIN heap /\ HasItems(target[q])
      BY <1>0, <2>5 DEF Started
    <3>. QED
      BY <2>3, <3>1 DEF HasItems
  <2>. QED
    BY <1>0, <2>3, <2>5, <2>6 DEF Started
<1>9. CASE SetupLock(p)
  BY <1>0, <1>9 DEF SetupLock, OthersTyped, Started, HasItems, Written
<1>10. CASE SetupStore(p)
  <2>1. \A q \in Producers : pc'[q] # "idle" =>
          /\ pc[q] # "idle" /\ pushed'[q] = pushed[q] /\ index'[q] = index[q]
          /\ target'[q] = target[q] /\ target[q] \in DOMAIN heap \cup {NoBuffer}
          /\ pc'[q] = pc[q] \/ pc'[q] = "stored"
    BY <1>0, <1>10 DEF SetupStore, OthersTyped, MemoryTyped
  <2>2. Allocates
    BY <1>10, StoreEffect
  <2>3. \A q \in Producers : (pc[q] = "constructed" => HasItems(target[q]))'
    <3>. SUFFICES ASSUME NEW q \in Producers, pc'[q] = "constructed"
                  PROVE  HasItems(target[q])'
      OBVIOUS
    <3>1. target'[q] = target[q] /\ target[q] \in DOMAIN heap /\ HasItems(target[q])
      BY <1>0, <2>1 DEF Started
    <3>. QED
      BY <2>2, <3>1 DEF Allocates, HasItems
  <2>. QED
    BY <1>0, <2>1, <2>2, <2>3 DEF Allocates, Started
<1>11. CASE SetupThrow(p)
  BY <1>0, <1>11 DEF SetupThrow, OthersTyped, Started, HasItems, Written
<1>12. CASE SetupEnqueue(p)
  BY <1>0, <1>12 DEF SetupEnqueue, OthersTyped, Started, HasItems, Written
<1>13. CASE SetupReset(p)
  BY <1>0, <1>13 DEF SetupReset, OthersTyped, Started, HasItems, Written
<1>14. CASE SetupUnlock(p)
  BY <1>0, <1>14 DEF SetupUnlock, OthersTyped, Started, HasItems, Written
<1>. QED
  BY <1>1, <1>2, <1>3, <1>4, <1>5, <1>6, <1>7, <1>8, <1>9, <1>10, <1>11, <1>12,
     <1>13, <1>14 DEF Produce, PushStep

(* ... and not touched by the consumer; ... *)
LEMMA StartedPop ==
  ASSUME Typed, PopCall \/ TryPop
  PROVE  Started'
<1>1. UNCHANGED <<heap, producerVars>>
  BY DEF PopCall, TryPop, PopFrontLock, PopFront, PopFalse, PopMove, PopRetireLock,
         PopRetire, bufferVars
<1>. QED
  BY <1>1 DEF Typed, Started, Owner, HasItems, Written, producerVars

(* ... the consumer's part by both. *)
LEMMA ReadingNext ==
  ASSUME Typed, Next
  PROVE  Reading'
<1>. USE DEF PopAt, consumerVars, bufferVars
<1>0. MemoryTyped /\ OthersTyped /\ Reading
  BY TypeParts DEF Typed
<1>1. ASSUME NEW p \in Producers, Produce(p)
      PROVE  Reading'
  <2>1. UNCHANGED <<readBuffer, readIndex, pop>>
    BY <1>1 DEF Produce, PushStep, Claim, FetchAdd, WaitOver, Retry, Load, Construct,
         ConstructFault, Publish, Count, SetupLock, SetupStore, SetupThrow,
         SetupEnqueue, SetupReset, SetupUnlock
  <2>2. UNCHANGED buffers \/ buffers' = Append(buffers, writeBuffer)
    BY <1>1 DEF Produce, PushStep, Claim, FetchAdd, WaitOver, Retry, Load, Construct,
         ConstructFault, Publish, Count, SetupLock, SetupStore, SetupThrow,
         SetupEnqueue, SetupReset, SetupUnlock
  <2>3. buffers # <<>> => buffers' # <<>> /\ buffers'[1] = buffers[1]
    <3>1. buffers \in Seq(DOMAIN heap) /\ writeBuffer \in DOMAIN heap
      BY <1>0 DEF MemoryTyped
    <3>2. CASE UNCHANGED buffers
      BY <3>2
    <3>3. CASE buffers' = Append(buffers, writeBuffer)
      BY <3>1, <3>3
    <3>. QED
      BY <2>2, <3>2, <3>3
  <2>. QED
    BY <1>0, <2>1, <2>3 DEF Reading
<1>2. CASE PopCall
  BY <1>0, <1>2 DEF PopCall, Reading
<1>3. CASE PopFrontLock
  BY <1>0, <1>3 DEF PopFrontLock, Reading
<1>4. CASE PopFront
  BY <1>0, <1>4 DEF PopFront, Reading, MemoryTyped, NoBuffer
<1>5. CASE PopFalse
  BY <1>0, <1>5 DEF PopFalse, Reading
<1>6. CASE PopMove
  BY <1>0, <1>6 DEF PopMove, Reading
<1>7. CASE PopRetireLock
  BY <1>0, <1>7 DEF PopRetireLock, Reading
<1>8. CASE PopRetire
  BY <1>0, <1>8 DEF PopRetire, Reading
<1>. QED
  BY <1>1, <1>2, <1>3, <1>4, <1>5, <1>6, <1>7, <1>8 DEF Next, TryPop

LEMMA TypedNext == Typed /\ [Next]_vars => Typed'
<1>1. ASSUME Typed, Next PROVE Typed'
  <2>1. MemoryTyped' /\ OthersTyped' /\ Started'
    BY <1>1, TypeProduce, TypePop, StartedProduce, StartedPop DEF Next
  <2>2. Reading'
    BY <1>1, ReadingNext
  <2>. QED
    BY <2>1, <2>2, TypeParts DEF Typed
<1>2. ASSUME Typed, UNCHANGED vars PROVE Typed'
  <2>1. /\ UNCHANGED <<heap, freed, buffers, writeBuffer, readBuffer, target, seen>>
        /\ UNCHANGED <<writeIndex, readIndex, flag, pc, index, pushed, pop, out,
                       popped, damage, failed>>
    BY <1>2 DEF vars, bufferVars, producerVars, consumerVars
  <2>2. MemoryTyped'
    BY <1>2, <2>1, TypeParts DEF Typed, MemoryTyped
  <2>3. OthersTyped'
    BY <1>2, <2>1, TypeParts DEF Typed, OthersTyped
  <2>4. Started'
    BY <1>2, <2>1 DEF Typed, Started, Owner, HasItems, Written
  <2>5. Reading'
    BY <1>2, <2>1 DEF Typed, Reading
  <2>. QED
    BY <2>2, <2>3, <2>4, <2>5, TypeParts DEF Typed
<1>. QED
  BY <1>1, <1>2

(* Every variable of the queue keeps its type: the indices stay inside a    *)
(* Buffer although m_writeIndex does not, a Buffer that is read is the      *)
(* front of m_buffers, and none is deleted from an empty queue.             *)
THEOREM TypeCorrect == Spec => []TypeOK
<1>1. Typed => TypeOK
  BY DEF Typed
<1>. QED
  BY TypedInit, TypedNext, <1>1, PTL DEF Spec

-------------------------------------------------------------------------------
(* What a producer's steps do, variable by variable.  Where only the program *)
(* counter of p moves, it is from one of these places to the other.          *)
Others(p) == \A q \in Producers \ {p} :
  pc'[q] = pc[q] /\ index'[q] = index[q] /\ target'[q] = target[q] /\ pushed'[q] = pushed[q]

Quiet == {<<"waiting", "retry">>, <<"full", "setup">>, <<"setup", "idle">>, <<"reset", "idle">>}

SameHeap ==
  /\ Len(heap') = Len(heap) /\ DOMAIN heap' = DOMAIN heap
  /\ \A c \in DOMAIN heap :
       /\ CountOf(c)' = CountOf(c)
       /\ \A j \in Items :
            /\ Written(c, j)' <=> Written(c, j)
            /\ LineAt(c, j)' = LineAt(c, j)

Claims(p) ==
  /\ SameHeap /\ UNCHANGED <<freed, buffers, writeBuffer>>
  /\ writeIndex' = writeIndex + 1 /\ index'[p] = writeIndex /\ target'[p] = target[p]
  /\ \/ pc[p] = "idle" /\ pushed'[p] = pushed[p] + 1
     \/ pc[p] = "retry" /\ pushed'[p] = pushed[p]
  /\ pc'[p] = IF writeIndex < Size THEN "claimed" ELSE "waiting"

Same(p) == index'[p] = index[p] /\ target'[p] = target[p] /\ pushed'[p] = pushed[p]

Moves(p) ==
  /\ SameHeap /\ UNCHANGED <<freed, buffers, writeBuffer, writeIndex>> /\ Same(p)
  /\ pc'[p] = pc[p] \/ <<pc[p], pc'[p]>> \in Quiet

Loads(p) ==
  /\ SameHeap /\ UNCHANGED <<freed, buffers, writeBuffer, writeIndex>>
  /\ pc[p] = "claimed" /\ pc'[p] = "loaded"
  /\ index'[p] = index[p] /\ target'[p] = writeBuffer /\ pushed'[p] = pushed[p]

Builds(p) ==
  /\ Constructs(target[p], index[p], Line(p))
  /\ UNCHANGED <<freed, buffers, writeBuffer, writeIndex>> /\ Same(p)
  /\ pc[p] = "loaded" /\ pc'[p] = "constructed"

Shows(p) ==
  /\ Publishes(target[p], index[p])
  /\ UNCHANGED <<freed, buffers, writeBuffer, writeIndex>> /\ Same(p)
  /\ pc[p] = "constructed" /\ pc'[p] = "published"

Adds(p) ==
  /\ CountsIn(target[p])
  /\ UNCHANGED <<freed, buffers, writeBuffer, writeIndex>> /\ Same(p)
  /\ pc[p] = "published"
  /\ pc'[p] = IF CountOf(target[p]) + 1 = Size THEN "full" ELSE "idle"

Installs(p) ==
  /\ Allocates
  /\ writeBuffer' = Len(heap) + 1
  /\ UNCHANGED <<freed, buffers, writeIndex>> /\ Same(p)
  /\ pc[p] = "setup" /\ pc'[p] = "stored"

Enqueues(p) ==
  /\ SameHeap /\ UNCHANGED <<freed, writeBuffer, writeIndex>> /\ Same(p)
  /\ buffers' = Append(buffers, writeBuffer)
  /\ pc[p] = "stored" /\ pc'[p] = "enqueued"

Resets(p) ==
  /\ SameHeap /\ UNCHANGED <<freed, buffers, writeBuffer>> /\ Same(p)
  /\ writeIndex' = 0
  /\ pc[p] = "enqueued" /\ pc'[p] = "reset"

Step(p) ==
  \/ Claims(p) \/ Moves(p) \/ Loads(p) \/ Builds(p) \/ Shows(p) \/ Adds(p)
  \/ Installs(p) \/ Enqueues(p) \/ Resets(p)

Sound == "reused" \notin damage

LEMMA HeapKept == UNCHANGED heap => SameHeap
  BY DEF SameHeap, CountOf, Written, LineAt

LEMMA OthersKept ==
  ASSUME Typed, NEW p \in Producers, Produce(p)
  PROVE  Others(p) /\ UNCHANGED <<readBuffer, readIndex, pop, out, popped>>
<1>. USE DEF bufferVars, producerVars, consumerVars
<1>0. OthersTyped /\ MemoryTyped
  BY TypeParts DEF Typed
<1>1. \/ UNCHANGED pc
      \/ \E there \in {"idle", "waiting", "retry", "claimed", "loaded",
                       "constructed", "published", "full", "setup", "stored",
                       "enqueued", "reset"} : pc' = [pc EXCEPT ![p] = there]
  BY <1>0 DEF Produce, PushStep, Claim, FetchAdd, WaitOver, Retry, Load, Construct,
       ConstructFault, Publish, Count, CountIn, CountFreed, SetupLock, SetupStore,
       SetupThrow, SetupEnqueue, SetupReset, SetupUnlock, Goto, At
<1>2. UNCHANGED index \/ index' = [index EXCEPT ![p] = writeIndex]
  BY DEF Produce, PushStep, Claim, FetchAdd, WaitOver, Retry, Load, Construct,
       ConstructFault, Publish, Count, SetupLock, SetupStore, SetupThrow,
       SetupEnqueue, SetupReset, SetupUnlock
<1>3. UNCHANGED target \/ \E b \in Loadable(p) : target' = [target EXCEPT ![p] = b]
  BY DEF Produce, PushStep, Claim, FetchAdd, WaitOver, Retry, Load, Construct,
       ConstructFault, Publish, Count, SetupLock, SetupStore, SetupThrow,
       SetupEnqueue, SetupReset, SetupUnlock
<1>4. UNCHANGED pushed \/ pushed' = [pushed EXCEPT ![p] = @ + 1]
  BY DEF Produce, PushStep, Claim, FetchAdd, WaitOver, Retry, Load, Construct,
       ConstructFault, Publish, Count, SetupLock, SetupStore, SetupThrow,
       SetupEnqueue, SetupReset, SetupUnlock
<1>5. UNCHANGED <<readBuffer, readIndex, pop, out, popped>>
  BY DEF Produce, PushStep, Claim, FetchAdd, WaitOver, Retry, Load, Construct,
       ConstructFault, Publish, Count, SetupLock, SetupStore, SetupThrow,
       SetupEnqueue, SetupReset, SetupUnlock
<1>. QED
  BY <1>0, <1>1, <1>2, <1>3, <1>4, <1>5 DEF Others, OthersTyped, MemoryTyped

LEMMA StepOf ==
  ASSUME Typed, ~RelaxedClaim, NEW p \in Producers, Produce(p), Sound'
  PROVE  Step(p)
<1>. USE DEF Goto, At, bufferVars, producerVars, consumerVars
<1>0. MemoryTyped /\ OthersTyped /\ Started
  BY TypeParts DEF Typed
<1>1. CASE Claim(p)
  <2>1. Claims(p)
    BY <1>0, <1>1, HeapKept DEF Claim, FetchAdd, Claims, OthersTyped
  <2>. QED
    BY <2>1 DEF Step
<1>2. CASE Retry(p)
  <2>1. Claims(p)
    BY <1>0, <1>2, HeapKept DEF Retry, FetchAdd, Claims, OthersTyped
  <2>. QED
    BY <2>1 DEF Step
<1>3. CASE WaitOver(p) \/ ConstructFault(p) \/ SetupLock(p) \/ SetupThrow(p) \/ SetupUnlock(p)
  <2>1. Moves(p)
    BY <1>0, <1>3, HeapKept
       DEF WaitOver, ConstructFault, SetupLock, SetupThrow, SetupUnlock, Moves, Same,
           Quiet, OthersTyped
  <2>. QED
    BY <2>1 DEF Step
<1>4. CASE Load(p)
  <2>1. Loads(p)
    BY <1>0, <1>4, HeapKept DEF Load, Loadable, Loads, OthersTyped, MemoryTyped
  <2>. QED
    BY <2>1 DEF Step
<1>5. CASE Construct(p)
  <2>1. Builds(p)
    BY <1>0, <1>5, ConstructEffect DEF Construct, Builds, Same, OthersTyped
  <2>. QED
    BY <2>1 DEF Step
<1>6. CASE Publish(p)
  <2>1. Shows(p)
    BY <1>0, <1>6, PublishEffect DEF Publish, Shows, Same, OthersTyped
  <2>. QED
    BY <2>1 DEF Step
<1>7. CASE Count(p)
  <2>1. CountIn(p, target[p]) \/ UNCHANGED <<heap, pc>>
    BY <1>7 DEF Count, CountFreed, Sound
  <2>2. target[p] \in DOMAIN heap
    BY <1>0, <1>7 DEF Count, Started, MemoryTyped
  <2>3. /\ UNCHANGED <<freed, buffers, writeBuffer, writeIndex>> /\ Same(p)
        /\ pc[p] = "published"
    BY <1>7 DEF Count, Same
  <2>4. CASE CountIn(p, target[p])
    <3>1. pc'[p] = IF CountOf(target[p]) + 1 = Size THEN "full" ELSE "idle"
      BY <1>0, <2>4 DEF CountIn, CountOf, OthersTyped
    <3>2. CountsIn(target[p])
      BY <2>2, <2>4, CountEffect
    <3>3. Adds(p)
      BY <2>3, <3>1, <3>2 DEF Adds
    <3>. QED
      BY <3>3 DEF Step
  <2>5. CASE UNCHANGED <<heap, pc>>
    <3>1. Moves(p)
      BY <2>3, <2>5, HeapKept DEF Moves
    <3>. QED
      BY <3>1 DEF Step
  <2>. QED
    BY <2>1, <2>4, <2>5
<1>8. CASE SetupStore(p)
  <2>1. Installs(p)
    BY <1>0, <1>8, StoreEffect DEF SetupStore, Installs, Same, OthersTyped
  <2>. QED
    BY <2>1 DEF Step
<1>9. CASE SetupEnqueue(p)
  <2>1. Enqueues(p)
    BY <1>0, <1>9, HeapKept DEF SetupEnqueue, Enqueues, Same, OthersTyped
  <2>. QED
    BY <2>1 DEF Step
<1>10. CASE SetupReset(p)
  <2>1. Resets(p)
    BY <1>0, <1>10, HeapKept DEF SetupReset, Resets, Same, OthersTyped
  <2>. QED
    BY <2>1 DEF Step
<1>. QED
  BY <1>1, <1>2, <1>3, <1>4, <1>5, <1>6, <1>7, <1>8, <1>9, <1>10 DEF Produce, PushStep

-------------------------------------------------------------------------------
(* The items of the write Buffer.  Owners: each claimed item has one owner,  *)
(* who is in the write Buffer; who installs the next Buffer is alone, and    *)
(* the index is past the end; the count of the Buffer says how many of the   *)
(* items handed out have been left again; an item is written by its owner.   *)
Writing(p) == pc[p] \in {"claimed", "loaded", "constructed"}
Open == \A p \in Producers : pc[p] \notin {"stored", "enqueued"}

Owners ==
  /\ \A p \in Producers : Owner(p) =>
       /\ index[p] < writeIndex
       /\ pc[p] # "claimed" => target[p] = writeBuffer
  /\ \A p, q \in Producers : Owner(p) /\ Owner(q) /\ index[p] = index[q] => p = q

Installers ==
  \A p \in Producers : Installing(p) =>
    /\ writeIndex >= Size
    /\ \A q \in Producers : ~Owner(q) /\ (Installing(q) => q = p)

Left == {i \in Items : i < writeIndex /\ \A p \in Producers : Owner(p) => index[p] # i}

Counts == \A b \in DOMAIN heap :
  b = writeBuffer => CountOf(b) = IF Open THEN Cardinality(Left) ELSE 0

Current == \A b \in DOMAIN heap, i \in Items :
  b = writeBuffer /\ Written(b, i) =>
    /\ Open
    /\ i < writeIndex
    /\ \A p \in Producers : Writing(p) => index[p] # i

Finished == \A p \in Producers, b \in DOMAIN heap, i \in Items :
  pc[p] = "constructed" /\ b = writeBuffer /\ i = index[p] => LineAt(b, i) = Line(p)

ClaimInv == Owners /\ Installers /\ Counts /\ Current /\ Finished

LEMMA OwnersNext ==
  ASSUME Typed, ClaimInv, NEW p \in Producers, Others(p), Step(p)
  PROVE  Owners'
<1>0. /\ OthersTyped /\ writeIndex \in Nat /\ index \in [Producers -> Nat]
      /\ Owners /\ Installers
  BY TypeParts DEF Typed, OthersTyped, ClaimInv
<1>1. CASE Claims(p)
  BY <1>0, <1>1 DEF Claims, Owners, Owner, Others
<1>2. CASE Moves(p)
  BY <1>0, <1>2 DEF Moves, Same, Quiet, Owners, Owner, Others
<1>3. CASE Loads(p)
  BY <1>0, <1>3 DEF Loads, Owners, Owner, Others
<1>4. CASE Builds(p)
  BY <1>0, <1>4 DEF Builds, Same, Owners, Owner, Others
<1>5. CASE Shows(p)
  BY <1>0, <1>5 DEF Shows, Same, Owners, Owner, Others
<1>6. CASE Adds(p)
  BY <1>0, <1>6 DEF Adds, Same, Owners, Owner, Others
<1>7. CASE Installs(p)
  BY <1>0, <1>7 DEF Installs, Same, Owners, Owner, Others, Installers, Installing
<1>8. CASE Enqueues(p)
  BY <1>0, <1>8 DEF Enqueues, Same, Owners, Owner, Others
<1>9. CASE Resets(p)
  BY <1>0, <1>9 DEF Resets, Same, Owners, Owner, Others, Installers, Installing
<1>. QED
  BY <1>1, <1>2, <1>3, <1>4, <1>5, <1>6, <1>7, <1>8, <1>9 DEF Step

(* A Buffer with Size items left behind was left by all its owners. *)
LEMMA LeftFinite == Left \subseteq Items /\ IsFiniteSet(Items) /\ Cardinality(Items) = Size
<1>1. Size \in Nat /\ Items = 0..(Size - 1)
  BY QueueAssumption DEF Items
<1>2. IsFiniteSet(0..(Size - 1)) /\ Cardinality(0..(Size - 1)) = Size
  BY <1>1, FS_Interval
<1>. QED
  BY <1>1, <1>2 DEF Left

LEMMA LeftByAdd ==
  ASSUME Typed, ClaimInv, NEW p \in Producers, Others(p), Adds(p)
  PROVE  /\ index[p] \in Items \ Left /\ Left' = Left \cup {index[p]}
         /\ IsFiniteSet(Left) /\ Cardinality(Left') = Cardinality(Left) + 1
         /\ Cardinality(Left) \in Nat
         /\ Open /\ CountOf(target[p]) = Cardinality(Left)
<1>0. /\ OthersTyped /\ MemoryTyped /\ Started /\ Owners /\ Installers /\ Counts
  BY TypeParts DEF Typed, ClaimInv
<1>1. index[p] \in Items \ Left /\ index[p] < writeIndex /\ target[p] = writeBuffer
  BY <1>0 DEF Adds, Owners, Owner, Started, Left
<1>2. ~Owner(p)' /\ \A q \in Producers \ {p} :
         (Owner(q)' <=> Owner(q)) /\ index'[q] = index[q]
  BY DEF Adds, Owner, Others
<1>3. \A q \in Producers \ {p} : Owner(q) => index[q] # index[p]
  BY <1>0 DEF Adds, Owners, Owner
<1>4. writeIndex' = writeIndex
  BY DEF Adds
<1>5. Left' = Left \cup {index[p]}
  BY <1>1, <1>2, <1>3, <1>4 DEF Left
<1>6. IsFiniteSet(Left)
  BY LeftFinite, FS_Subset
<1>7. Cardinality(Left') = Cardinality(Left) + 1 /\ Cardinality(Left) \in Nat
  BY <1>1, <1>5, <1>6, FS_AddElement, FS_CardinalityType
<1>8. Open
  BY <1>0 DEF Adds, Owner, Installers, Installing, Open
<1>9. CountOf(target[p]) = Cardinality(Left)
  BY <1>0, <1>1, <1>8 DEF Counts, MemoryTyped
<1>. QED
  BY <1>1, <1>5, <1>6, <1>7, <1>8, <1>9

LEMMA InstallersNext ==
  ASSUME Typed, ClaimInv, NEW p \in Producers, Others(p), Step(p)
  PROVE  Installers'
<1>. USE DEF Installers, Installing, Owner
<1>0. /\ OthersTyped /\ writeIndex \in Nat /\ index \in [Producers -> Nat]
      /\ Size \in Nat \ {0} /\ Owners /\ Installers
  BY TypeParts, QueueAssumption DEF Typed, OthersTyped, ClaimInv
<1>1. CASE Claims(p)
  BY <1>0, <1>1 DEF Claims, Others
<1>2. CASE Moves(p)
  BY <1>0, <1>2 DEF Moves, Same, Quiet, Others
<1>3. CASE Loads(p)
  BY <1>0, <1>3 DEF Loads, Others
<1>4. CASE Builds(p)
  BY <1>0, <1>4 DEF Builds, Same, Others
<1>5. CASE Shows(p)
  BY <1>0, <1>5 DEF Shows, Same, Others
<1>6. CASE Adds(p)
  <2>1. \A q \in Producers : ~Installing(q)
    BY <1>0, <1>6 DEF Adds
  <2>2. \A q \in Producers \ {p} : ~Installing(q)'
    BY <2>1 DEF Others
  <2>3. CASE pc'[p] = "idle"
    BY <2>2, <2>3
  <2>4. CASE pc'[p] = "full"
    <3>1. Cardinality(Left') = Size
      BY <1>0, <1>6, <2>4, LeftByAdd DEF Adds
    <3>2. Left' = Items
      <4>1. Left' \subseteq Items
        BY DEF Left
      <4>. QED
        BY <3>1, <4>1, LeftFinite, FS_Subset
    <3>3. Size - 1 \in Items /\ writeIndex' = writeIndex
      BY <1>0, <1>6 DEF Items, Adds
    <3>4. writeIndex' >= Size
      BY <1>0, <3>2, <3>3 DEF Left
    <3>5. \A q \in Producers : ~Owner(q)'
      <4>. SUFFICES ASSUME NEW q \in Producers, Owner(q)' PROVE FALSE
        OBVIOUS
      <4>1. q # p /\ Owner(q) /\ index'[q] = index[q]
        BY <2>4 DEF Others
      <4>2. index'[q] \in Items
        BY <4>1 DEF Typed, Started
      <4>. QED
        BY <3>2, <4>2 DEF Left
    <3>. QED
      BY <2>2, <3>4, <3>5
  <2>. QED
    BY <1>6, <2>3, <2>4 DEF Adds
<1>7. CASE Installs(p)
  BY <1>0, <1>7 DEF Installs, Same, Others
<1>8. CASE Enqueues(p)
  BY <1>0, <1>8 DEF Enqueues, Same, Others
<1>9. CASE Resets(p)
  BY <1>0, <1>9 DEF Resets, Same, Others
<1>. QED
  BY <1>1, <1>2, <1>3, <1>4, <1>5, <1>6, <1>7, <1>8, <1>9 DEF Step

LEMMA CountsNext ==
  ASSUME Typed, ClaimInv, NEW p \in Producers, Others(p), Step(p)
  PROVE  Counts'
<1>0. /\ OthersTyped /\ MemoryTyped /\ writeIndex \in Nat /\ Size \in Nat \ {0}
      /\ Started /\ Owners /\ Installers /\ Counts
  BY TypeParts, QueueAssumption DEF Typed, OthersTyped, ClaimInv
<1>a. ASSUME SameHeap, writeBuffer' = writeBuffer, Open' <=> Open, Open => Left' = Left
      PROVE  Counts'
  BY <1>0, <1>a DEF Counts, SameHeap
<1>1. CASE Claims(p)
  <2>1. pc'[p] = "claimed" <=> writeIndex < Size
    BY <1>1 DEF Claims
  <2>2. \A q \in Producers \ {p} : (Owner(q)' <=> Owner(q)) /\ index'[q] = index[q]
    BY DEF Others, Owner
  <2>3. ~Owner(p) /\ (Owner(p)' <=> writeIndex < Size) /\ index'[p] = writeIndex
    BY <1>1, <2>1 DEF Claims, Owner
  <2>4. writeIndex' = writeIndex + 1
    BY <1>1 DEF Claims
  <2>5. \A i \in Items : i < Size /\ i \in Int
    BY <1>0 DEF Items
  <2>6. Left' = Left
    BY <1>0, <2>2, <2>3, <2>4, <2>5 DEF Left, Owners
  <2>7. Open' <=> Open
    BY <1>1 DEF Claims, Open, Others
  <2>. QED
    BY <1>1, <1>a, <2>6, <2>7 DEF Claims
<1>2. CASE Moves(p)
  <2>1. (Open' <=> Open) /\ Left' = Left
    BY <1>2 DEF Moves, Same, Quiet, Open, Left, Owner, Others
  <2>. QED
    BY <1>2, <1>a, <2>1 DEF Moves
<1>3. CASE Loads(p)
  <2>1. (Open' <=> Open) /\ Left' = Left
    BY <1>3 DEF Loads, Open, Left, Owner, Others
  <2>. QED
    BY <1>3, <1>a, <2>1 DEF Loads
<1>4. CASE Builds(p)
  <2>1. (Open' <=> Open) /\ Left' = Left
    BY <1>4 DEF Builds, Same, Open, Left, Owner, Others
  <2>. QED
    BY <1>0, <1>4, <2>1 DEF Builds, Constructs, Counts
<1>5. CASE Shows(p)
  <2>1. (Open' <=> Open) /\ Left' = Left
    BY <1>5 DEF Shows, Same, Open, Left, Owner, Others
  <2>. QED
    BY <1>0, <1>5, <2>1 DEF Shows, Publishes, Counts
<1>6. CASE Adds(p)
  <2>1. Open' <=> Open
    BY <1>6 DEF Adds, Open, Others
  <2>2. target[p] = writeBuffer
    BY <1>0, <1>6 DEF Adds, Owners, Owner
  <2>. QED
    BY <1>0, <1>6, <2>1, <2>2, LeftByAdd DEF Adds, CountsIn, Counts
<1>7. CASE Installs(p)
  <2>1. ~Open'
    BY <1>7 DEF Installs, Open
  <2>. QED
    BY <2>1, <1>7 DEF Installs, Allocates, Counts
<1>8. CASE Enqueues(p)
  <2>1. ~Open /\ ~Open'
    BY <1>8 DEF Enqueues, Open
  <2>. QED
    BY <1>8, <1>a, <2>1 DEF Enqueues
<1>9. CASE Resets(p)
  <2>1. ~Open
    BY <1>9 DEF Resets, Open
  <2>2. Left' = {}
    BY <1>9, <1>0 DEF Resets, Left, Items
  <2>3. Cardinality(Left') = 0
    BY <2>2, FS_EmptySet
  <2>. QED
    BY <1>0, <1>9, <2>1, <2>3 DEF Resets, SameHeap, Counts
<1>. QED
  BY <1>1, <1>2, <1>3, <1>4, <1>5, <1>6, <1>7, <1>8, <1>9 DEF Step

LEMMA CurrentNext ==
  ASSUME Typed, ClaimInv, NEW p \in Producers, Others(p), Step(p)
  PROVE  Current'
<1>. USE DEF Current, Open, Writing
<1>0. /\ writeIndex \in Nat /\ Items \subseteq Int
      /\ Owners /\ Installers /\ Current
  BY TypeParts, QueueAssumption DEF Typed, OthersTyped, ClaimInv, Items
<1>1. CASE Claims(p)
  <2>1. Open' <=> Open
    BY <1>1 DEF Claims, Others
  <2>2. \A q \in Producers \ {p} : (Writing(q)' <=> Writing(q)) /\ index'[q] = index[q]
    BY DEF Others
  <2>3. /\ SameHeap /\ writeIndex' = writeIndex + 1 /\ writeBuffer' = writeBuffer
        /\ index'[p] = writeIndex
    BY <1>1 DEF Claims
  <2>. HIDE DEF Writing, Open
  <2>. QED
    BY <1>0, <2>1, <2>2, <2>3 DEF SameHeap
<1>2. CASE Moves(p)
  BY <1>0, <1>2 DEF Moves, Same, Quiet, SameHeap, Others
<1>3. CASE Loads(p)
  BY <1>0, <1>3 DEF Loads, SameHeap, Others
<1>4. CASE Builds(p)
  BY <1>0, <1>4 DEF Builds, Same, Constructs, Others
<1>5. CASE Shows(p)
  <2>1. index[p] < writeIndex /\ Open
    BY <1>0, <1>5 DEF Shows, Owners, Owner, Installers, Installing
  <2>2. \A q \in Producers \ {p} : Writing(q)' => index'[q] # index[p]
    BY <1>0, <1>5 DEF Shows, Owners, Owner, Others
  <2>3. ~Writing(p)' /\ writeIndex' = writeIndex /\ writeBuffer' = writeBuffer
    BY <1>5 DEF Shows
  <2>4. Open'
    BY <1>5, <2>1 DEF Shows, Others
  <2>5. \A q \in Producers \ {p} : (Writing(q)' <=> Writing(q)) /\ index'[q] = index[q]
    BY DEF Others
  <2>. HIDE DEF Writing, Open
  <2>. QED
    BY <1>0, <1>5, <2>1, <2>2, <2>3, <2>4, <2>5 DEF Shows, Publishes
<1>6. CASE Adds(p)
  BY <1>0, <1>6 DEF Adds, Same, CountsIn, Others
<1>7. CASE Installs(p)
  BY <1>7 DEF Installs, Allocates
<1>8. CASE Enqueues(p)
  BY <1>0, <1>8 DEF Enqueues, SameHeap
<1>9. CASE Resets(p)
  BY <1>0, <1>9 DEF Resets, SameHeap
<1>. QED
  BY <1>1, <1>2, <1>3, <1>4, <1>5, <1>6, <1>7, <1>8, <1>9 DEF Step

LEMMA FinishedNext ==
  ASSUME Typed, ClaimInv, NEW p \in Producers, Others(p), Step(p)
  PROVE  Finished'
<1>0. /\ Started /\ Owners /\ Installers /\ Finished /\ MemoryTyped
  BY TypeParts DEF Typed, ClaimInv
<1>1. ASSUME NEW q \in Producers, NEW b \in DOMAIN heap', NEW i \in Items,
             pc'[q] = "constructed", b = writeBuffer', i = index'[q]
      PROVE  LineAt(b, i)' = Line(q)'
  <2>0. CASE Builds(p)
    <3>1. target[p] = writeBuffer /\ index[p] \in Items /\ writeBuffer' = writeBuffer
      BY <1>0, <2>0 DEF Builds, Owners, Owner, Started
    <3>2. Line(p)' = Line(p) /\ index'[p] = index[p]
      BY <2>0 DEF Builds, Same, Line
    <3>3. b \in DOMAIN heap /\ b = target[p]
      BY <1>1, <2>0, <3>1 DEF Builds, Constructs
    <3>4. CASE q = p
      BY <1>1, <2>0, <3>2, <3>3, <3>4 DEF Builds, Constructs
    <3>5. CASE q # p
      <4>1. pc[q] = "constructed" /\ index'[q] = index[q] /\ Line(q)' = Line(q)
        BY <1>1, <3>5 DEF Others, Line
      <4>2. i = index[q] /\ i # index[p]
        BY <1>0, <1>1, <2>0, <3>5, <4>1 DEF Builds, Owners, Owner
      <4>3. LineAt(b, i) = Line(q)
        BY <1>0, <3>1, <3>3, <4>1, <4>2 DEF Finished
      <4>4. LineAt(b, i)' = LineAt(b, i)
        BY <2>0, <3>3, <4>2 DEF Builds, Constructs
      <4>. QED
        BY <4>1, <4>3, <4>4
    <3>. QED
      BY <3>4, <3>5
  <2>1. CASE ~Builds(p)
    <3>1. ~Installs(p)
      BY <1>0, <1>1 DEF Installs, Installers, Installing, Owner, Others
    <3>2. pc[q] = "constructed" /\ index'[q] = index[q] /\ Line(q)' = Line(q)
      BY <1>1, <2>1, <3>1
         DEF Step, Claims, Moves, Quiet, Loads, Shows, Adds, Enqueues, Resets, Same,
             Others, Line
    <3>3. writeBuffer' = writeBuffer
      BY <2>1, <3>1 DEF Step, Claims, Moves, Loads, Shows, Adds, Enqueues, Resets
    <3>4. SameHeap \/ Publishes(target[p], index[p]) \/ CountsIn(target[p])
      BY <2>1, <3>1 DEF Step, Claims, Moves, Loads, Shows, Adds, Enqueues, Resets
    <3>5. b \in DOMAIN heap /\ LineAt(b, i)' = LineAt(b, i)
      BY <1>1, <3>4 DEF SameHeap, Publishes, CountsIn
    <3>. QED
      BY <1>0, <1>1, <3>2, <3>3, <3>5 DEF Finished
  <2>. QED
    BY <2>0, <2>1
<1>. QED
  BY <1>1 DEF Finished

LEMMA ClaimNext ==
  ASSUME Typed, ClaimInv, NEW p \in Producers, Others(p), Step(p)
  PROVE  ClaimInv'
BY OwnersNext, InstallersNext, CountsNext, CurrentNext, FinishedNext DEF ClaimInv

-------------------------------------------------------------------------------
(* The lines in the items.  Settled: a line handed to push() is written once *)
(* its producer has published it; it is written in one item, and the items   *)
(* of one producer's lines are in the order of the lines.                    *)
Sent(p) ==
  IF pc[p] \in {"waiting", "retry", "claimed", "loaded", "constructed"}
    THEN pushed[p] - 1 ELSE pushed[p]
Settled == {l \in Lines : l[2] <= Sent(l[1])}

WrittenSettled == \A b \in DOMAIN heap, i \in Items :
  Written(b, i) => LineAt(b, i) \in Settled

WrittenOnce == \A b, c \in DOMAIN heap, i, j \in Items :
  Written(b, i) /\ Written(c, j) /\ LineAt(b, i) = LineAt(c, j) => b = c /\ i = j

SettledWritten == \A l \in Settled :
  \E b \in DOMAIN heap, i \in Items : Written(b, i) /\ LineAt(b, i) = l

Before(b, i, c, j) == b < c \/ (b = c /\ i < j)

InOrder == \A b, c \in DOMAIN heap, i, j \in Items :
  /\ Written(b, i) /\ Written(c, j)
  /\ LineAt(b, i)[1] = LineAt(c, j)[1] /\ LineAt(b, i)[2] < LineAt(c, j)[2]
  => Before(b, i, c, j)

Ahead == \A p \in Producers, b \in DOMAIN heap, i \in Items :
  Writing(p) /\ b = writeBuffer /\ Written(b, i) /\ LineAt(b, i)[1] = p => i < index[p]

LineInv == WrittenSettled /\ WrittenOnce /\ SettledWritten /\ InOrder /\ Ahead

LEMMA SettledIs ==
  ASSUME Typed
  PROVE  Settled = Logged \ InTransit /\ InTransit \subseteq Logged
<1>0. /\ pushed \in [Producers -> 0..MaxPush] /\ MaxPush \in Nat
      /\ \A p \in Producers : pc[p] # "idle" => pushed[p] >= 1
  BY TypeParts, QueueAssumption DEF Typed, OthersTyped, Started
<1>1. ASSUME NEW l \in Lines PROVE l \in Settled <=> l \in Logged \ InTransit
  <2>1. PICK q \in Producers, n \in 1..MaxPush : l = <<q, n>>
    BY DEF Lines
  <2>2. l \in Logged <=> n <= pushed[q]
    BY <2>1 DEF Logged
  <2>3. l \in InTransit <=>
          pc[q] \in {"waiting", "retry", "claimed", "loaded", "constructed"} /\ n = pushed[q]
    BY <2>1 DEF InTransit, Line
  <2>4. l \in Settled <=> n <= Sent(q)
    BY <2>1 DEF Settled
  <2>5. pushed[q] \in Int /\ n \in Int
    BY <1>0
  <2>. QED
    BY <2>2, <2>3, <2>4, <2>5 DEF Sent
<1>2. Settled \subseteq Lines /\ Logged \subseteq Lines
  BY DEF Settled, Logged
<1>3. InTransit \subseteq Logged
  <2>. SUFFICES ASSUME NEW q \in Producers,
         pc[q] \in {"waiting", "retry", "claimed", "loaded", "constructed"}
         PROVE Line(q) \in Logged
    BY DEF InTransit
  <2>1. pushed[q] \in 1..MaxPush
    BY <1>0
  <2>. QED
    BY <2>1 DEF Line, Logged, Lines
<1>. QED
  BY <1>1, <1>2, <1>3

(* Only Publish settles a line, its producer's last. *)
LEMMA SentNext ==
  ASSUME Typed, NEW p \in Producers, Others(p), Step(p)
  PROVE  /\ ~Shows(p) => Settled' = Settled
         /\ Shows(p) => /\ Line(p) \in Lines \ Settled /\ Settled' = Settled \cup {Line(p)}
                        /\ \A l \in Settled : l[1] = p => l[2] < Line(p)[2]
<1>0. /\ pushed \in [Producers -> 0..MaxPush] /\ MaxPush \in Nat
      /\ \A q \in Producers : pc[q] # "idle" => pushed[q] >= 1
  BY TypeParts, QueueAssumption DEF Typed, OthersTyped, Started
<1>1. \A q \in Producers \ {p} : Sent(q)' = Sent(q)
  BY DEF Others, Sent
<1>2. CASE ~Shows(p)
  <2>1. Sent(p)' = Sent(p)
    BY <1>0, <1>2 DEF Step, Claims, Moves, Quiet, Loads, Builds, Adds, Installs,
         Enqueues, Resets, Same, Sent
  <2>2. \A l \in Lines : l[1] \in Producers
    BY DEF Lines
  <2>. QED
    BY <1>1, <1>2, <2>1, <2>2 DEF Settled
<1>3. CASE Shows(p)
  <2>1. Sent(p) = pushed[p] - 1 /\ Sent(p)' = pushed[p] /\ pushed[p] \in 1..MaxPush
    BY <1>0, <1>3 DEF Shows, Same, Sent
  <2>2. Line(p) = <<p, pushed[p]>> /\ Line(p) \in Lines
    BY <2>1 DEF Line, Lines
  <2>3. \A l \in Lines : l[1] \in Producers /\ l[2] \in Int /\ l = <<l[1], l[2]>>
    BY <1>0 DEF Lines
  <2>4. \A l \in Settled : l[1] = p => l[2] < Line(p)[2]
    BY <2>1, <2>2, <2>3 DEF Settled
  <2>5. Line(p) \notin Settled
    BY <2>1, <2>2 DEF Settled
  <2>6. ASSUME NEW l \in Lines PROVE l \in Settled' <=> l \in Settled \/ l = Line(p)
    <3>1. CASE l[1] # p
      BY <1>1, <2>2, <2>3, <3>1 DEF Settled
    <3>2. CASE l[1] = p
      BY <2>1, <2>2, <2>3, <3>2 DEF Settled
    <3>. QED
      BY <3>1, <3>2
  <2>7. Settled' \subseteq Lines /\ Settled \subseteq Lines
    BY DEF Settled
  <2>8. Settled' = Settled \cup {Line(p)}
    BY <2>2, <2>6, <2>7
  <2>. QED
    BY <1>3, <2>2, <2>4, <2>5, <2>8
<1>. QED
  BY <1>2, <1>3

(* Except for Publish, what is written is kept and nothing is added. *)
Unshown ==
  /\ \A c \in DOMAIN heap, j \in Items : Written(c, j) =>
       c \in DOMAIN heap' /\ Written(c, j)' /\ LineAt(c, j)' = LineAt(c, j)
  /\ \A c \in DOMAIN heap', j \in Items : Written(c, j)' =>
       c \in DOMAIN heap /\ Written(c, j) /\ LineAt(c, j)' = LineAt(c, j)

LEMMA UnshownBy ==
  ASSUME Typed, ClaimInv, NEW p \in Producers, Others(p), Step(p), ~Shows(p)
  PROVE  Unshown
<1>0. Owners /\ Current /\ Started
  BY DEF ClaimInv, Typed
<1>1. CASE SameHeap
  BY <1>1 DEF SameHeap, Unshown
<1>2. CASE Builds(p)
  <2>1. target[p] = writeBuffer
    BY <1>0, <1>2 DEF Builds, Owners, Owner
  <2>2. \A c \in DOMAIN heap, j \in Items :
          Written(c, j) => ~(c = target[p] /\ j = index[p])
    BY <1>0, <1>2, <2>1 DEF Builds, Current, Writing
  <2>. QED
    BY <1>2, <2>2 DEF Builds, Constructs, Unshown
<1>3. CASE Adds(p)
  BY <1>3 DEF Adds, CountsIn, Unshown
<1>4. CASE Installs(p)
  BY <1>4 DEF Installs, Allocates, Unshown
<1>. QED
  BY <1>1, <1>2, <1>3, <1>4 DEF Step, Claims, Moves, Loads, Enqueues, Resets

LEMMA AheadNext ==
  ASSUME Typed, ClaimInv, Ahead, NEW p \in Producers, Others(p), Step(p), ~Shows(p)
  PROVE  Ahead'
<1>0. Current /\ Unshown /\ writeIndex \in Nat
  BY UnshownBy, TypeParts DEF ClaimInv, Typed, OthersTyped
<1>1. CASE Claims(p)
  <2>1. SUFFICES ASSUME NEW q \in Producers, NEW b \in DOMAIN heap', NEW i \in Items,
                        Writing(q)', b = writeBuffer', Written(b, i)', LineAt(b, i)'[1] = q
                 PROVE  i < index'[q]
    BY DEF Ahead
  <2>2. /\ b \in DOMAIN heap /\ b = writeBuffer /\ Written(b, i) /\ LineAt(b, i)[1] = q
    BY <1>0, <1>1, <2>1 DEF Unshown, Claims
  <2>3. CASE q = p
    BY <1>0, <1>1, <2>2, <2>3 DEF Claims, Current
  <2>4. CASE q # p
    BY <2>1, <2>2, <2>4 DEF Ahead, Others, Writing
  <2>. QED
    BY <2>3, <2>4
<1>2. CASE Installs(p)
  <2>1. writeBuffer' \notin DOMAIN heap
    BY <1>2 DEF Installs, Allocates
  <2>. QED
    BY <1>0, <2>1 DEF Unshown, Ahead
<1>3. CASE ~Claims(p) /\ ~Installs(p)
  <2>1. writeBuffer' = writeBuffer /\ \A q \in Producers :
          Writing(q)' => Writing(q) /\ index'[q] = index[q]
    BY <1>3 DEF Step, Moves, Quiet, Loads, Builds, Shows, Adds, Enqueues, Resets, Same,
         Others, Writing
  <2>. QED
    BY <1>0, <2>1 DEF Unshown, Ahead
<1>. QED
  BY <1>1, <1>2, <1>3

LEMMA LineNext ==
  ASSUME Typed, ClaimInv, LineInv, writeBuffer = Len(heap),
         NEW p \in Producers, Others(p), Step(p)
  PROVE  LineInv'
<1>1. CASE ~Shows(p)
  <2>1. Unshown /\ Settled' = Settled /\ Ahead'
    BY <1>1, UnshownBy, SentNext, AheadNext DEF LineInv
  <2>2. WrittenSettled'
    BY <2>1 DEF LineInv, Unshown, WrittenSettled
  <2>3. WrittenOnce'
    BY <2>1 DEF LineInv, Unshown, WrittenOnce
  <2>4. SettledWritten'
    BY <2>1 DEF LineInv, Unshown, SettledWritten
  <2>5. InOrder'
    BY <2>1 DEF LineInv, Unshown, InOrder
  <2>. QED
    BY <2>1, <2>2, <2>3, <2>4, <2>5 DEF LineInv
<1>2. CASE Shows(p)
  <2>. DEFINE t == target[p]
  <2>. DEFINE k == index[p]
  <2>0. /\ Owners /\ Current /\ Finished /\ Started /\ MemoryTyped
        /\ WrittenSettled /\ WrittenOnce /\ SettledWritten /\ InOrder /\ Ahead
    BY TypeParts DEF ClaimInv, LineInv, Typed
  <2>1. /\ t \in DOMAIN heap /\ t = writeBuffer /\ writeBuffer' = writeBuffer
        /\ k \in Items /\ DOMAIN heap' = DOMAIN heap
    BY <1>2, <2>0 DEF Shows, Publishes, Owners, Owner, Started, MemoryTyped
  <2>2. LineAt(t, k) = Line(p) /\ ~Written(t, k)
    BY <1>2, <2>0, <2>1 DEF Shows, Finished, Current, Writing
  <2>3. /\ Line(p) \in Lines \ Settled /\ Settled' = Settled \cup {Line(p)}
        /\ \A l \in Settled : l[1] = p => l[2] < Line(p)[2]
        /\ Line(p)[1] = p
    BY <1>2, SentNext DEF Line
  <2>4. \A c \in DOMAIN heap, j \in Items :
          /\ Written(c, j)' <=> Written(c, j) \/ (c = t /\ j = k)
          /\ LineAt(c, j)' = LineAt(c, j)
    BY <1>2 DEF Shows, Publishes
  <2>5. /\ DOMAIN heap = 1..t /\ t \in Nat
        /\ \A c \in DOMAIN heap : c \in Int /\ c <= t
    BY <2>0, <2>1 DEF MemoryTyped
  <2>6. \A l \in Settled : l \in Lines /\ l[2] \in Int
    BY QueueAssumption DEF Settled, Lines
  <2>7. Line(p)[2] \in Int
    BY <2>3, QueueAssumption DEF Lines
  <2>. HIDE DEF t, k
  <2>8. WrittenSettled'
    BY <2>0, <2>1, <2>2, <2>3, <2>4 DEF WrittenSettled
  <2>9. WrittenOnce'
    BY <2>0, <2>1, <2>2, <2>3, <2>4 DEF WrittenOnce, WrittenSettled
  <2>10. SettledWritten'
    <3>. SUFFICES ASSUME NEW l \in Settled'
                  PROVE  \E b \in DOMAIN heap', i \in Items : Written(b, i)' /\ LineAt(b, i)' = l
      BY DEF SettledWritten
    <3>1. CASE l \in Settled
      BY <2>0, <2>1, <2>4, <3>1 DEF SettledWritten
    <3>2. CASE l = Line(p)
      BY <2>1, <2>2, <2>4, <3>2
    <3>. QED
      BY <2>3, <3>1, <3>2
  <2>11. \A b \in DOMAIN heap, i \in Items :
           Written(b, i) /\ LineAt(b, i)[1] = p => Before(b, i, t, k)
    <3>1. ASSUME NEW b \in DOMAIN heap, NEW i \in Items, Written(b, i), LineAt(b, i)[1] = p
          PROVE  Before(b, i, t, k)
      <4>1. CASE b = t
        BY <1>2, <2>0, <2>1, <3>1, <4>1 DEF Ahead, Before, Shows, Writing, k
      <4>2. CASE b # t
        BY <2>5, <4>2 DEF Before
      <4>. QED
        BY <4>1, <4>2
    <3>. QED
      BY <3>1
  <2>12. InOrder'
    <3>1. SUFFICES ASSUME NEW b \in DOMAIN heap, NEW c \in DOMAIN heap,
                          NEW i \in Items, NEW j \in Items,
                          Written(b, i)', Written(c, j)',
                          LineAt(b, i)[1] = LineAt(c, j)[1],
                          LineAt(b, i)[2] < LineAt(c, j)[2]
                   PROVE  Before(b, i, c, j)
      BY <2>1, <2>4 DEF InOrder, Before
    <3>2. CASE Written(b, i) /\ Written(c, j)
      BY <2>0, <3>1, <3>2 DEF InOrder
    <3>3. CASE Written(b, i) /\ ~Written(c, j)
      BY <2>2, <2>3, <2>4, <2>11, <3>1, <3>3
    <3>4. CASE ~Written(b, i) /\ Written(c, j)
      <4>1. LineAt(b, i) = Line(p) /\ LineAt(c, j) \in Settled
        BY <2>0, <2>2, <2>4, <3>1, <3>4 DEF WrittenSettled
      <4>. QED
        BY <2>3, <2>6, <2>7, <3>1, <4>1
    <3>5. CASE ~Written(b, i) /\ ~Written(c, j)
      BY <2>2, <2>4, <2>7, <3>1, <3>5
    <3>. QED
      BY <3>2, <3>3, <3>4, <3>5
  <2>13. Ahead'
    <3>1. \A q \in Producers : Writing(q)' => q # p /\ Writing(q) /\ index'[q] = index[q]
      BY <1>2 DEF Shows, Others, Writing
    <3>. QED
      BY <2>0, <2>1, <2>2, <2>3, <2>4, <3>1 DEF Ahead
  <2>. QED
    BY <2>8, <2>9, <2>10, <2>12, <2>13 DEF LineInv
<1>. QED
  BY <1>1, <1>2

-------------------------------------------------------------------------------
(* The Buffers and what was read.  Each Buffer allocated is deleted, queued  *)
(* or about to be queued, in this order; Gone are the items the consumer has *)
(* passed: all of a deleted Buffer, and the first ones of the front.  Their  *)
(* lines are those it was given, each once.                                  *)
Unqueued == {writeBuffer : p \in {q \in Producers : pc[q] = "stored"}}

Queue ==
  /\ writeBuffer = Len(heap)
  /\ \A j, k \in DOMAIN buffers : j < k => buffers[j] < buffers[k]
  /\ \A b \in freed, k \in DOMAIN buffers : b < buffers[k]
  /\ DOMAIN heap = freed \cup Range(buffers) \cup Unqueued
  /\ Unqueued \cap (freed \cup Range(buffers)) = {}

Gone(b, i) == b \in freed \/ (buffers # <<>> /\ b = buffers[1] /\ Passed(1, i))

GoneRead == \A b \in DOMAIN heap, i \in Items :
  Gone(b, i) => Written(b, i) /\ LineAt(b, i) \in Range(popped)

ReadGone == \A l \in Range(popped) :
  \E b \in DOMAIN heap, i \in Items : Gone(b, i) /\ LineAt(b, i) = l

ReadInv == Queue /\ GoneRead /\ ReadGone /\ IsInjective(popped)

LEMMA AppendRange ==
  ASSUME NEW S, NEW s \in Seq(S), NEW x \in S
  PROVE  /\ Append(s, x) \in Seq(S) /\ Range(Append(s, x)) = Range(s) \cup {x}
         /\ x \notin Range(s) /\ IsInjective(s) => IsInjective(Append(s, x))
<1>1. /\ Len(s) \in Nat /\ DOMAIN s = 1..Len(s) /\ Append(s, x) \in Seq(S)
      /\ DOMAIN Append(s, x) = 1..(Len(s) + 1)
      /\ \A k \in 1..Len(s) : Append(s, x)[k] = s[k]
      /\ Append(s, x)[Len(s) + 1] = x
  OBVIOUS
<1>2. DOMAIN Append(s, x) = DOMAIN s \cup {Len(s) + 1} /\ Len(s) + 1 \notin DOMAIN s
  BY <1>1
<1>3. Range(Append(s, x)) = Range(s) \cup {x}
  BY <1>1, <1>2 DEF Range
<1>4. x \notin Range(s) /\ IsInjective(s) => IsInjective(Append(s, x))
  BY <1>1, <1>2 DEF Range, IsInjective
<1>. QED
  BY <1>1, <1>3, <1>4

LEMMA QueueProduce ==
  ASSUME Typed, ClaimInv, Queue, NEW p \in Producers, Others(p), Step(p)
  PROVE  Queue'
<1>0. /\ MemoryTyped /\ Installers /\ buffers \in Seq(DOMAIN heap)
      /\ Len(heap) \in Nat /\ DOMAIN heap = 1..Len(heap) /\ freed \subseteq DOMAIN heap
  BY TypeParts DEF ClaimInv, Typed, MemoryTyped
<1>1. CASE Installs(p)
  <2>1. \A q \in Producers : pc[q] # "stored"
    BY <1>0, <1>1 DEF Installs, Installers, Installing
  <2>2. Unqueued = {} /\ Unqueued' = {Len(heap) + 1}
    BY <1>1, <2>1 DEF Installs, Unqueued
  <2>3. /\ Len(heap') = Len(heap) + 1 /\ DOMAIN heap' = DOMAIN heap \cup {Len(heap) + 1}
        /\ writeBuffer' = Len(heap) + 1 /\ buffers' = buffers /\ freed' = freed
    BY <1>1 DEF Installs, Allocates
  <2>4. Len(heap) + 1 \notin freed \cup Range(buffers)
    BY <1>0 DEF Range
  <2>. QED
    BY <2>2, <2>3, <2>4 DEF Queue
<1>2. CASE Enqueues(p)
  <2>1. \A q \in Producers \ {p} : pc[q] # "stored"
    BY <1>0, <1>2 DEF Enqueues, Installers, Installing
  <2>2. Unqueued = {writeBuffer} /\ Unqueued' = {}
    BY <1>2, <2>1 DEF Enqueues, Others, Unqueued
  <2>3. /\ Len(heap') = Len(heap) /\ DOMAIN heap' = DOMAIN heap
        /\ writeBuffer' = writeBuffer /\ buffers' = Append(buffers, writeBuffer) /\ freed' = freed
    BY <1>2 DEF Enqueues, SameHeap
  <2>4. writeBuffer \in DOMAIN heap
    BY <1>0 DEF MemoryTyped
  <2>5. Range(buffers') = Range(buffers) \cup {writeBuffer}
    BY <1>0, <2>3, <2>4, AppendRange
  <2>6. \A k \in DOMAIN buffers : buffers[k] < writeBuffer
    <3>1. \A k \in DOMAIN buffers : buffers[k] \in DOMAIN heap /\ buffers[k] \in Range(buffers)
      BY <1>0 DEF Range
    <3>. QED
      BY <1>0, <2>2, <3>1 DEF Queue
  <2>7. \A b \in freed : b < writeBuffer
    BY <1>0, <2>2 DEF Queue
  <2>8. /\ DOMAIN buffers' = 1..(Len(buffers) + 1) /\ DOMAIN buffers = 1..Len(buffers)
        /\ \A k \in DOMAIN buffers : buffers'[k] = buffers[k]
        /\ buffers'[Len(buffers) + 1] = writeBuffer /\ Len(buffers) \in Nat
    BY <1>0, <2>3, <2>4
  <2>9. \A j, k \in DOMAIN buffers' : j < k => buffers'[j] < buffers'[k]
    BY <2>6, <2>8 DEF Queue
  <2>10. \A b \in freed', k \in DOMAIN buffers' : b < buffers'[k]
    BY <2>3, <2>7, <2>8 DEF Queue
  <2>. QED
    BY <2>2, <2>3, <2>5, <2>9, <2>10 DEF Queue
<1>3. CASE ~Installs(p) /\ ~Enqueues(p)
  <2>1. /\ Len(heap') = Len(heap) /\ DOMAIN heap' = DOMAIN heap
        /\ UNCHANGED <<freed, buffers, writeBuffer>>
    BY <1>3 DEF Step, Claims, Moves, Loads, Builds, Shows, Adds, Resets, SameHeap,
         Constructs, Publishes, CountsIn
  <2>2. \A q \in Producers : pc'[q] = "stored" <=> pc[q] = "stored"
    BY <1>3 DEF Step, Claims, Moves, Quiet, Loads, Builds, Shows, Adds, Resets, Others
  <2>3. Unqueued' = Unqueued
    BY <2>1, <2>2 DEF Unqueued
  <2>. QED
    BY <2>1, <2>3 DEF Queue
<1>. QED
  BY <1>1, <1>2, <1>3

(* A producer's step passes no item. *)
LEMMA GoneProduce ==
  ASSUME Typed, NEW p \in Producers, Step(p),
         UNCHANGED <<readBuffer, readIndex, pop, out, popped>>
  PROVE  \A b \in DOMAIN heap', i \in Items : Gone(b, i)' <=> Gone(b, i)
<1>0. buffers \in Seq(DOMAIN heap) /\ writeBuffer \in DOMAIN heap /\ Reading
  BY TypeParts DEF Typed, MemoryTyped
<1>1. freed' = freed /\ \A i \in Items : Passed(1, i)' <=> Passed(1, i)
  BY DEF Step, Claims, Moves, Loads, Builds, Shows, Adds, Installs, Enqueues, Resets, Passed
<1>2. CASE UNCHANGED buffers
  BY <1>1, <1>2 DEF Gone
<1>3. CASE buffers' = Append(buffers, writeBuffer)
  <2>1. CASE buffers = <<>>
    <3>1. \A i \in Items : ~Passed(1, i)
      BY <1>0, <2>1 DEF Reading, Passed
    <3>. QED
      BY <1>1, <2>1, <3>1 DEF Gone
  <2>2. CASE buffers # <<>>
    <3>1. buffers' # <<>> /\ buffers'[1] = buffers[1]
      BY <1>0, <1>3, <2>2
    <3>. QED
      BY <1>1, <2>2, <3>1 DEF Gone
  <2>. QED
    BY <2>1, <2>2
<1>. QED
  BY <1>2, <1>3 DEF Step, Claims, Moves, Loads, Builds, Shows, Adds, Installs, Enqueues,
     Resets

LEMMA ReadProduce ==
  ASSUME Typed, ClaimInv, ReadInv, NEW p \in Producers, Others(p), Step(p),
         UNCHANGED <<readBuffer, readIndex, pop, out, popped>>
  PROVE  ReadInv'
<1>1. Queue'
  BY QueueProduce DEF ReadInv
<1>2. \A b \in DOMAIN heap', i \in Items : Gone(b, i)' <=> Gone(b, i)
  BY GoneProduce
<1>3. \A c \in DOMAIN heap, j \in Items : Written(c, j) =>
        c \in DOMAIN heap' /\ Written(c, j)' /\ LineAt(c, j)' = LineAt(c, j)
  <2>1. CASE Shows(p)
    BY <2>1 DEF Shows, Publishes
  <2>2. CASE ~Shows(p)
    BY <2>2, UnshownBy DEF Unshown
  <2>. QED
    BY <2>1, <2>2
<1>4. popped' = popped
  OBVIOUS
<1>5. freed \subseteq DOMAIN heap /\ (buffers # <<>> => buffers[1] \in DOMAIN heap)
  BY TypeParts DEF Typed, MemoryTyped
<1>6. GoneRead'
  <2>1. \A b, i : Gone(b, i) => b \in DOMAIN heap
    BY <1>5 DEF Gone
  <2>. QED
    BY <1>2, <1>3, <1>4, <2>1 DEF ReadInv, GoneRead
<1>7. ReadGone'
  BY <1>2, <1>3, <1>4 DEF ReadInv, GoneRead, ReadGone
<1>8. IsInjective(popped)'
  BY <1>4 DEF ReadInv
<1>. QED
  BY <1>1, <1>6, <1>7, <1>8 DEF ReadInv

(* What neither the claims nor the lines are made of may change; ... *)
LEMMA ClaimsKept ==
  ASSUME ClaimInv, LineInv,
         UNCHANGED <<heap, writeBuffer, writeIndex, pc, index, target, pushed>>
  PROVE  ClaimInv' /\ LineInv'
<1>. USE DEF Owner, Writing, Installing, Open, Written, LineAt, Line
<1>1. Owners' /\ Installers'
  BY DEF ClaimInv, Owners, Installers
<1>2. Counts'
  BY DEF ClaimInv, Counts, CountOf, Left
<1>3. Current' /\ Finished'
  BY DEF ClaimInv, Current, Finished
<1>4. Settled' = Settled
  BY DEF Settled, Sent
<1>5. WrittenSettled' /\ WrittenOnce' /\ SettledWritten'
  BY <1>4 DEF LineInv, WrittenSettled, WrittenOnce, SettledWritten
<1>6. InOrder' /\ Ahead'
  BY DEF LineInv, InOrder, Before, Ahead
<1>. QED
  BY <1>1, <1>2, <1>3, <1>5, <1>6 DEF ClaimInv, LineInv

(* ... the consumer touches nothing else, ... *)
LEMMA PopKeeps ==
  ASSUME ClaimInv, LineInv, PopCall \/ TryPop
  PROVE  ClaimInv' /\ LineInv'
<1>1. UNCHANGED <<heap, writeBuffer, writeIndex, pc, index, target, pushed>>
  BY DEF PopCall, TryPop, PopFrontLock, PopFront, PopFalse, PopMove, PopRetireLock,
         PopRetire, bufferVars, producerVars
<1>. QED
  BY <1>1, ClaimsKept

(* ... and passes an item with its line, ... *)
LEMMA PopMoves ==
  ASSUME Typed, LineInv, ReadInv, PopMove
  PROVE  ReadInv'
<1>. USE DEF bufferVars, producerVars, PopAt
<1>. DEFINE l == LineAt(readBuffer, readIndex)
<1>0. /\ Reading /\ WrittenSettled /\ WrittenOnce /\ Queue /\ GoneRead /\ ReadGone
      /\ buffers \in Seq(DOMAIN heap) /\ popped \in Seq(Lines \cup {NoLine})
      /\ readBuffer \in DOMAIN heap /\ readIndex \in Items /\ Size \in Nat \ {0}
  BY TypeParts, QueueAssumption
     DEF Typed, MemoryTyped, OthersTyped, LineInv, ReadInv, PopMove
<1>1. /\ UNCHANGED <<heap, freed, buffers, writeBuffer, pc>> /\ popped' = Append(popped, l)
      /\ Written(readBuffer, readIndex) /\ pop = "called" /\ readBuffer # NoBuffer
      /\ \/ readIndex + 1 = Size /\ pop' = "finished"
         \/ readIndex' = readIndex + 1 /\ pop' = "true" /\ readBuffer' = readBuffer
  BY DEF PopMove, IsWritten, Written, LineAt
<1>2. buffers # <<>> /\ readBuffer = buffers[1]
  BY <1>0, <1>1 DEF Reading
<1>3. readBuffer \notin freed
  BY <1>0, <1>2 DEF Queue
<1>4. ~Gone(readBuffer, readIndex)
  BY <1>0, <1>1, <1>3 DEF Gone, Passed, Items
<1>5. l \in Lines
  BY <1>0, <1>1 DEF WrittenSettled, Settled
<1>6. l \notin Range(popped)
  BY <1>0, <1>1, <1>4 DEF ReadGone, GoneRead, WrittenOnce
<1>7. Range(popped') = Range(popped) \cup {l} /\ IsInjective(popped)'
  BY <1>0, <1>1, <1>5, <1>6, AppendRange DEF ReadInv
<1>8. \A b \in DOMAIN heap, i \in Items :
        Gone(b, i)' <=> Gone(b, i) \/ (b = readBuffer /\ i = readIndex)
  <2>1. \A i \in Items : Passed(1, i)' <=> Passed(1, i) \/ i = readIndex
    BY <1>0, <1>1 DEF Passed, Items
  <2>. QED
    BY <1>1, <1>2, <2>1 DEF Gone
<1>. HIDE DEF l
<1>9. \A b \in DOMAIN heap, i \in Items :
        (Written(b, i)' <=> Written(b, i)) /\ LineAt(b, i)' = LineAt(b, i)
  BY <1>1 DEF Written, LineAt
<1>10. Queue'
  BY <1>0, <1>1 DEF Queue, Unqueued
<1>11. GoneRead'
  BY <1>0, <1>1, <1>7, <1>8, <1>9 DEF GoneRead, l
<1>12. ReadGone'
  <2>. SUFFICES ASSUME NEW m \in Range(popped')
                PROVE  \E b \in DOMAIN heap, i \in Items : Gone(b, i)' /\ LineAt(b, i) = m
    BY <1>1, <1>9 DEF ReadGone
  <2>1. CASE m \in Range(popped)
    BY <1>0, <1>8, <2>1 DEF ReadGone
  <2>2. CASE m = l
    BY <1>0, <1>8, <2>2 DEF l
  <2>. QED
    BY <1>7, <2>1, <2>2
<1>. QED
  BY <1>7, <1>10, <1>11, <1>12 DEF ReadInv

(* ... passes none by anything else, ... *)
LEMMA PopStays ==
  ASSUME ReadInv, UNCHANGED <<heap, popped>>, Queue',
         \A b \in DOMAIN heap, i \in Items : Gone(b, i)' <=> Gone(b, i)
  PROVE  ReadInv'
<1>1. \A b \in DOMAIN heap, i \in Items :
        (Written(b, i)' <=> Written(b, i)) /\ LineAt(b, i)' = LineAt(b, i)
  BY DEF Written, LineAt
<1>2. GoneRead' /\ ReadGone'
  BY <1>1 DEF ReadInv, GoneRead, ReadGone
<1>. QED
  BY <1>2 DEF ReadInv

(* ... and deletes the front Buffer when all its items are passed. *)
LEMMA PopRetires ==
  ASSUME Typed, ReadInv, PopRetire
  PROVE  ReadInv'
<1>0. Reading /\ Queue /\ buffers \in Seq(DOMAIN heap)
  BY TypeParts DEF Typed, MemoryTyped, ReadInv
<1>1. /\ UNCHANGED <<heap, popped, readBuffer, writeBuffer, pc>>
      /\ freed' = freed \cup {Head(buffers)} /\ buffers' = Tail(buffers)
      /\ pop = "retire" /\ pop' = "true" /\ readBuffer = NoBuffer /\ buffers # <<>>
  BY <1>0 DEF PopRetire, PopAt, producerVars, Reading
<1>2. /\ Len(buffers) \in Nat \ {0} /\ DOMAIN buffers = 1..Len(buffers)
      /\ DOMAIN buffers' = 1..(Len(buffers) - 1) /\ Head(buffers) = buffers[1]
      /\ \A k \in DOMAIN buffers' : buffers'[k] = buffers[k + 1]
  BY <1>0, <1>1
<1>3. Range(buffers) = Range(buffers') \cup {buffers[1]}
  <2>1. \A k \in DOMAIN buffers : k = 1 \/ (k - 1 \in DOMAIN buffers' /\ k = (k - 1) + 1)
    BY <1>2
  <2>2. \A k \in DOMAIN buffers : buffers[k] \in Range(buffers') \cup {buffers[1]}
    BY <1>2, <2>1 DEF Range
  <2>3. \A k \in DOMAIN buffers' : k + 1 \in DOMAIN buffers
    BY <1>2
  <2>4. \A k \in DOMAIN buffers' : buffers'[k] \in Range(buffers)
    BY <1>2, <2>3 DEF Range
  <2>5. 1 \in DOMAIN buffers
    BY <1>2
  <2>. QED
    BY <2>2, <2>4, <2>5 DEF Range
<1>4. Queue'
  <2>1. Unqueued' = Unqueued
    BY <1>1 DEF Unqueued
  <2>2. \A j, k \in DOMAIN buffers' : j < k => buffers'[j] < buffers'[k]
    <3>1. \A k \in DOMAIN buffers' : k \in Int /\ k + 1 \in DOMAIN buffers
      BY <1>2
    <3>2. \A j, k \in DOMAIN buffers : j < k => buffers[j] < buffers[k]
      BY <1>0 DEF Queue
    <3>. SUFFICES ASSUME NEW j \in DOMAIN buffers', NEW k \in DOMAIN buffers', j < k
                  PROVE  buffers'[j] < buffers'[k]
      OBVIOUS
    <3>3. j + 1 \in DOMAIN buffers /\ k + 1 \in DOMAIN buffers /\ j + 1 < k + 1
      BY <3>1
    <3>4. buffers[j + 1] < buffers[k + 1]
      BY <3>2, <3>3
    <3>. QED
      BY <1>2, <3>4
  <2>3. \A b \in freed', k \in DOMAIN buffers' : b < buffers'[k]
    BY <1>0, <1>1, <1>2 DEF Queue
  <2>. QED
    BY <1>0, <1>1, <1>2, <1>3, <2>1, <2>2, <2>3 DEF Queue
<1>5. \A b \in DOMAIN heap, i \in Items : Gone(b, i)' <=> Gone(b, i)
  BY <1>1, <1>2 DEF Gone, Passed
<1>. QED
  BY <1>1, <1>4, <1>5, PopStays

LEMMA ReadPop ==
  ASSUME Typed, LineInv, ReadInv, PopCall \/ TryPop
  PROVE  ReadInv'
<1>. USE DEF bufferVars, producerVars, PopAt
<1>0. Reading /\ Items \subseteq Nat
  BY DEF Typed, Items
<1>1. CASE PopCall \/ PopFrontLock \/ PopFront \/ PopFalse \/ PopRetireLock
  <2>1. UNCHANGED <<heap, freed, buffers, writeBuffer, pc, popped, readIndex>>
    BY <1>1 DEF PopCall, PopFrontLock, PopFront, PopFalse, PopRetireLock
  <2>2. \A i \in Items : Passed(1, i)' <=> Passed(1, i)
    BY <1>0, <1>1 DEF PopCall, PopFrontLock, PopFront, PopFalse, PopRetireLock,
         Passed, Reading
  <2>3. Queue'
    BY <2>1 DEF ReadInv, Queue, Unqueued
  <2>4. \A b \in DOMAIN heap, i \in Items : Gone(b, i)' <=> Gone(b, i)
    BY <2>1, <2>2 DEF Gone
  <2>. QED
    BY <2>1, <2>3, <2>4, PopStays
<1>2. CASE PopMove
  BY <1>2, PopMoves
<1>3. CASE PopRetire
  BY <1>3, PopRetires
<1>. QED
  BY <1>1, <1>2, <1>3 DEF TryPop

-------------------------------------------------------------------------------
(* The invariant: unless a producer has counted in reused memory, the claims *)
(* are exclusive, the lines are where they belong and none was read twice.   *)
QueueInv ==
  /\ Typed
  /\ ~RelaxedClaim
  /\ "reused" \notin FreedOutcomes => Sound
  /\ Sound => ClaimInv /\ LineInv /\ ReadInv

LEMMA QueueInit == ~RelaxedClaim /\ Init => QueueInv
<1>. SUFFICES ASSUME ~RelaxedClaim, Init PROVE QueueInv
  OBVIOUS
<1>0. Typed
  BY TypedInit
<1>1. /\ heap = <<NewBuffer(RawItems)>> /\ freed = {} /\ buffers = <<1>> /\ writeBuffer = 1
      /\ readBuffer = NoBuffer /\ readIndex = 0 /\ writeIndex = 0 /\ pop = "ready"
      /\ popped = <<>> /\ damage = {}
      /\ \A p \in Producers : pc[p] = "idle" /\ pushed[p] = 0
  BY DEF Init
<1>2. DOMAIN heap = {1} /\ Len(heap) = 1 /\ heap[1] = NewBuffer(RawItems)
  BY <1>1
<1>3. \A b \in DOMAIN heap : CountOf(b) = 0 /\ \A i \in Items : ~Written(b, i)
  BY <1>2 DEF CountOf, Written, NewBuffer
<1>4. Left = {} /\ Cardinality({}) = 0
  BY <1>1, FS_EmptySet DEF Left, Items
<1>5. Settled = {}
  BY <1>1, QueueAssumption DEF Settled, Lines, Sent
<1>6. Range(popped) = {} /\ IsInjective(popped)
  BY <1>1 DEF Range, IsInjective
<1>7. Range(buffers) = {1} /\ DOMAIN buffers = {1} /\ buffers # <<>> /\ buffers[1] = 1
  BY <1>1 DEF Range
<1>8. Unqueued = {}
  BY <1>1 DEF Unqueued
<1>9. ClaimInv
  BY <1>1, <1>3, <1>4
     DEF ClaimInv, Owners, Owner, Installers, Installing, Counts, Current, Finished
<1>10. LineInv
  BY <1>1, <1>3, <1>5
     DEF LineInv, WrittenSettled, WrittenOnce, SettledWritten, InOrder, Ahead
<1>11. Queue
  BY <1>1, <1>2, <1>7, <1>8 DEF Queue
<1>12. \A b \in DOMAIN heap, i \in Items : ~Gone(b, i)
  BY <1>1 DEF Gone, Passed
<1>13. ReadInv
  BY <1>6, <1>11, <1>12 DEF ReadInv, GoneRead, ReadGone
<1>14. Sound
  BY <1>1 DEF Sound
<1>. QED
  BY <1>0, <1>9, <1>10, <1>13, <1>14 DEF QueueInv

LEMMA QueueNext == QueueInv /\ [Next]_vars => QueueInv'
<1>. USE DEF bufferVars, producerVars, consumerVars
<1>1. ASSUME QueueInv, Next PROVE QueueInv'
  <2>1. Typed' /\ ~RelaxedClaim /\ (Sound' => Sound)
    <3>1. Sound' => Sound
      BY <1>1 DEF Sound, Next, Produce, PushStep, Claim, FetchAdd, WaitOver, Retry, Load,
           Construct, ConstructFault, Publish, Count, CountFreed, SetupLock, SetupStore,
           SetupThrow, SetupEnqueue, SetupReset, SetupUnlock, PopCall, TryPop,
           PopFrontLock, PopFront, PopFalse, PopMove, PopRetireLock, PopRetire
    <3>. QED
      BY <1>1, <3>1, TypedNext DEF QueueInv
  <2>2. "reused" \notin FreedOutcomes => Sound'
    <3>1. "reused" \in FreedOutcomes \/ damage' \in {damage, damage \cup {"fault"}}
      BY <1>1 DEF Next, Produce, PushStep, Claim, FetchAdd, WaitOver, Retry, Load,
           Construct, ConstructFault, Publish, Count, CountFreed, SetupLock, SetupStore,
           SetupThrow, SetupEnqueue, SetupReset, SetupUnlock, PopCall, TryPop,
           PopFrontLock, PopFront, PopFalse, PopMove, PopRetireLock, PopRetire
    <3>. QED
      BY <1>1, <3>1 DEF QueueInv, Sound
  <2>3. ASSUME Sound' PROVE ClaimInv' /\ LineInv' /\ ReadInv'
    <3>0. Typed /\ ~RelaxedClaim /\ ClaimInv /\ LineInv /\ ReadInv /\ writeBuffer = Len(heap)
      BY <1>1, <2>1, <2>3 DEF QueueInv, ReadInv, Queue
    <3>1. ASSUME NEW p \in Producers, Produce(p)
          PROVE  ClaimInv' /\ LineInv' /\ ReadInv'
      <4>1. Others(p) /\ UNCHANGED <<readBuffer, readIndex, pop, out, popped>>
        BY <3>0, <3>1, OthersKept
      <4>2. Step(p)
        BY <2>3, <3>0, <3>1, StepOf
      <4>. QED
        BY <3>0, <4>1, <4>2, ClaimNext, LineNext, ReadProduce
    <3>2. CASE PopCall \/ TryPop
      BY <3>0, <3>2, PopKeeps, ReadPop
    <3>. QED
      BY <1>1, <3>1, <3>2 DEF Next
  <2>. QED
    BY <2>1, <2>2, <2>3 DEF QueueInv
<1>2. ASSUME QueueInv, UNCHANGED vars PROVE QueueInv'
  <2>1. Typed'
    BY <1>2, TypedNext DEF QueueInv
  <2>2. /\ UNCHANGED <<heap, writeBuffer, writeIndex, pc, index, target, pushed>>
        /\ UNCHANGED <<freed, buffers, readBuffer, readIndex, pop, popped, damage>>
    BY <1>2 DEF vars
  <2>3. Sound' <=> Sound
    BY <2>2 DEF Sound
  <2>4. ASSUME Sound PROVE ClaimInv' /\ LineInv' /\ ReadInv'
    <3>0. ClaimInv /\ LineInv /\ ReadInv
      BY <1>2, <2>4 DEF QueueInv
    <3>1. ClaimInv' /\ LineInv'
      BY <2>2, <3>0, ClaimsKept
    <3>2. Queue'
      BY <2>2, <3>0 DEF ReadInv, Queue, Unqueued
    <3>3. \A b \in DOMAIN heap, i \in Items : Gone(b, i)' <=> Gone(b, i)
      BY <2>2 DEF Gone, Passed
    <3>. QED
      BY <2>2, <3>0, <3>1, <3>2, <3>3, PopStays
  <2>. QED
    BY <1>2, <2>1, <2>3, <2>4 DEF QueueInv
<1>. QED
  BY <1>1, <1>2

-------------------------------------------------------------------------------
(* What waits in the queue is what was published and not read. *)
LEMMA StoredIs ==
  ASSUME Typed, ClaimInv, LineInv, ReadInv
  PROVE  Stored = Settled \ Range(popped) /\ Range(popped) \subseteq Settled
<1>0. /\ WrittenSettled /\ WrittenOnce /\ SettledWritten /\ Queue /\ GoneRead /\ ReadGone
      /\ Current /\ buffers \in Seq(DOMAIN heap) /\ writeBuffer \in DOMAIN heap
  BY TypeParts DEF Typed, MemoryTyped, ClaimInv, LineInv, ReadInv
<1>1. /\ DOMAIN buffers = 1..Len(buffers) /\ Len(buffers) \in Nat
      /\ \A k \in DOMAIN buffers : buffers[k] \in DOMAIN heap
      /\ \A b \in DOMAIN heap : b \in Int
  BY <1>0
<1>2. \A k \in DOMAIN buffers : buffers[k] = buffers[1] => k = 1
  BY <1>0, <1>1 DEF Queue
<1>3. \A k \in DOMAIN buffers : buffers[k] \notin freed
  BY <1>0, <1>1 DEF Queue
<1>4. \A b \in DOMAIN heap, i \in Items :
        Written(b, i) => (Gone(b, i) <=> LineAt(b, i) \in Range(popped))
  BY <1>0 DEF GoneRead, ReadGone, WrittenOnce
<1>5. \A k \in DOMAIN buffers, i \in Items : Gone(buffers[k], i) <=> Passed(k, i)
  <2>1. \A k \in DOMAIN buffers, i \in Items : Passed(k, i) <=> k = 1 /\ Passed(1, i)
    BY DEF Passed
  <2>2. \A k \in DOMAIN buffers : buffers # <<>>
    BY <1>1
  <2>. QED
    BY <1>2, <1>3, <2>1, <2>2 DEF Gone
<1>6. Stored = {LineAt(buffers[ki[1]], ki[2]) : ki \in {kj \in (DOMAIN buffers) \X Items :
          Written(buffers[kj[1]], kj[2]) /\ ~Passed(kj[1], kj[2])}}
  BY DEF Stored, LineAt, Written
<1>7. ASSUME NEW l \in Stored PROVE l \in Settled \ Range(popped)
  <2>1. PICK k \in DOMAIN buffers, i \in Items :
          Written(buffers[k], i) /\ ~Passed(k, i) /\ l = LineAt(buffers[k], i)
    BY <1>6, <1>7
  <2>. QED
    BY <1>0, <1>1, <1>4, <1>5, <2>1 DEF WrittenSettled
<1>8. ASSUME NEW l \in Settled \ Range(popped) PROVE l \in Stored
  <2>1. PICK b \in DOMAIN heap, i \in Items : Written(b, i) /\ LineAt(b, i) = l
    BY <1>0, <1>8 DEF SettledWritten
  <2>2. ~Gone(b, i)
    BY <1>4, <1>8, <2>1
  <2>3. b \notin Unqueued
    BY <1>0, <2>1 DEF Current, Unqueued, Open
  <2>4. b \in Range(buffers)
    BY <1>0, <2>2, <2>3 DEF Queue, Gone
  <2>5. PICK k \in DOMAIN buffers : b = buffers[k]
    BY <2>4 DEF Range
  <2>6. ~Passed(k, i)
    BY <1>5, <2>2, <2>5
  <2>7. <<k, i>> \in {kj \in (DOMAIN buffers) \X Items :
          Written(buffers[kj[1]], kj[2]) /\ ~Passed(kj[1], kj[2])}
    BY <2>1, <2>5, <2>6
  <2>. QED
    BY <1>6, <2>1, <2>5, <2>7
<1>9. Range(popped) \subseteq Settled
  BY <1>0 DEF ReadGone, GoneRead, WrittenSettled
<1>. QED
  BY <1>7, <1>8, <1>9

Pending ==
  /\ InTransit \cup Stored = Logged \ Range(popped)
  /\ Range(popped) \subseteq Settled /\ Settled \subseteq Logged
  /\ Settled \cap InTransit = {}

LEMMA PendingIs == QueueInv /\ Sound => Pending
BY SettledIs, StoredIs DEF QueueInv, Pending

LEMMA PendingStays == (QueueInv /\ Sound => Pending)'
BY PendingIs, PTL

LEMMA NothingLostBy == QueueInv => NothingLost
<1>. SUFFICES ASSUME QueueInv, Sound
              PROVE  /\ Logged = InTransit \cup Stored \cup Range(popped)
                     /\ (InTransit \cup Stored) \cap Range(popped) = {}
                     /\ IsInjective(popped)
  BY DEF NothingLost, Sound
<1>1. IsInjective(popped)
  BY DEF QueueInv, ReadInv
<1>. QED
  BY <1>1, PendingIs DEF Pending

(* No line is lost or read twice, whatever the interleaving of any number   *)
(* of producers with the consumer, where the claim of an item is a full     *)
(* barrier and as long as nobody has counted in reused memory.              *)
THEOREM NoLineIsLost == ~RelaxedClaim => (Spec => []NothingLost)
  BY QueueInit, QueueNext, NothingLostBy, PTL DEF Spec

(* The items are handed out anew only when nobody is left in the old ones.  *)
THEOREM ResetIsSafe == ~RelaxedClaim => (Spec => ResetSafely)
<1>1. QueueInv /\ [Next]_vars =>
        [\A p \in Producers : SetupReset(p) /\ "reused" \notin damage =>
           \A q \in Producers :
             pc[q] \notin {"claimed", "loaded", "constructed", "published"}]_vars
  <2>. SUFFICES ASSUME QueueInv, NEW p \in Producers, SetupReset(p), "reused" \notin damage,
                       NEW q \in Producers
                PROVE  pc[q] \notin {"claimed", "loaded", "constructed", "published"}
    OBVIOUS
  <2>1. Installers /\ pc[p] = "enqueued"
    BY DEF QueueInv, Sound, ClaimInv, SetupReset, Goto, At
  <2>. QED
    BY <2>1 DEF Installers, Installing, Owner
<1>. QED
  BY QueueInit, QueueNext, <1>1, PTL DEF Spec, ResetSafely

(* Each Buffer is deleted when all of it was read, and none is left behind. *)
THEOREM BuffersAreReclaimed == ~RelaxedClaim => (Spec => []BuffersReclaimed)
<1>1. QueueInv => BuffersReclaimed
  <2>. SUFFICES ASSUME QueueInv, Sound
                PROVE  /\ \A b \in freed : Range(heap[b].logline) \subseteq Range(popped)
                       /\ (DOMAIN heap) \ freed = Range(buffers) \cup Unqueued
    BY DEF BuffersReclaimed, Sound, Unqueued
  <2>0. /\ Typed /\ Queue /\ GoneRead /\ Started
        /\ heap \in Seq(BufferType) /\ freed \subseteq DOMAIN heap /\ buffers \in Seq(DOMAIN heap)
    BY TypeParts DEF QueueInv, ReadInv, Typed, MemoryTyped
  <2>1. ASSUME NEW b \in freed PROVE Range(heap[b].logline) \subseteq Range(popped)
    <3>1. \A i \in Items : Written(b, i) /\ LineAt(b, i) \in Range(popped)
      BY <2>0, <2>1 DEF GoneRead, Gone
    <3>2. 0 \in Items
      BY QueueAssumption DEF Items
    <3>3. heap[b] \in BufferType /\ HasItems(b)
      BY <2>0, <2>1, <3>1, <3>2 DEF Started
    <3>4. heap[b].logline \in [Items -> Lines \cup {NoLine}]
      BY <3>3 DEF BufferType, HasItems
    <3>. QED
      BY <3>1, <3>4 DEF Range, LineAt
  <2>2. Range(buffers) \cap freed = {}
    <3>1. \A k \in DOMAIN buffers : buffers[k] \in DOMAIN heap /\ buffers[k] \in Int
      BY <2>0
    <3>. QED
      BY <2>0, <3>1 DEF Queue, Range
  <2>. QED
    BY <2>0, <2>1, <2>2 DEF Queue
<1>. QED
  BY QueueInit, QueueNext, <1>1, PTL DEF Spec

-------------------------------------------------------------------------------
(* The abstract buffer.  Only a claim hands a line to the queue, ... *)
LEMMA LoggedNext ==
  ASSUME Typed, Next
  PROVE  \/ \E l \in Lines : l \notin Logged /\ Logged' = Logged \cup {l} /\ popped' = popped
         \/ Logged' = Logged /\ (popped' = popped \/ PopMove)
<1>0. pushed \in [Producers -> 0..MaxPush] /\ MaxPush \in Nat
  BY TypeParts, QueueAssumption DEF Typed, OthersTyped
<1>1. ASSUME NEW p \in Producers, Claim(p)
      PROVE  \E l \in Lines : l \notin Logged /\ Logged' = Logged \cup {l} /\ popped' = popped
  <2>. DEFINE m == <<p, pushed[p] + 1>>
  <2>1. /\ pushed[p] + 1 \in 1..MaxPush /\ pushed'[p] = pushed[p] + 1 /\ popped' = popped
        /\ \A q \in Producers \ {p} : pushed'[q] = pushed[q]
    BY <1>0, <1>1 DEF Claim, FetchAdd, consumerVars
  <2>2. m \in Lines /\ m \notin Logged
    BY <1>0, <2>1 DEF Lines, Logged
  <2>3. \A l \in Lines : l[1] \in Producers /\ l[2] \in 1..MaxPush /\ l = <<l[1], l[2]>>
    BY DEF Lines
  <2>4. ASSUME NEW l \in Lines PROVE l \in Logged' <=> l \in Logged \/ l = m
    <3>1. CASE l[1] = p
      BY <1>0, <2>1, <2>3, <3>1 DEF Logged
    <3>2. CASE l[1] # p
      BY <2>1, <2>3, <3>2 DEF Logged
    <3>. QED
      BY <3>1, <3>2
  <2>5. Logged' \subseteq Lines /\ Logged \subseteq Lines
    BY DEF Logged
  <2>6. Logged' = Logged \cup {m}
    BY <2>2, <2>4, <2>5
  <2>. QED
    BY <2>1, <2>2, <2>6
<1>2. CASE \E p \in Producers : PushStep(p)
  <2>1. UNCHANGED <<pushed, popped>>
    BY <1>2 DEF PushStep, FetchAdd, WaitOver, Retry, Load, Construct, ConstructFault,
         Publish, Count, SetupLock, SetupStore, SetupThrow, SetupEnqueue, SetupReset,
         SetupUnlock, consumerVars, producerVars
  <2>. QED
    BY <2>1 DEF Logged
<1>3. CASE PopCall \/ TryPop
  <2>1. UNCHANGED pushed /\ (popped' = popped \/ PopMove)
    BY <1>3 DEF PopCall, TryPop, PopFrontLock, PopFront, PopFalse, PopMove,
         PopRetireLock, PopRetire, producerVars
  <2>. QED
    BY <2>1 DEF Logged
<1>. QED
  BY <1>1, <1>2, <1>3 DEF Next, Produce

(* ... and what the consumer moves out waits, its producer's first. *)
LEMMA MovedIsFirst ==
  ASSUME QueueInv, Sound, PopMove
  PROVE  \E l \in Lines :
           /\ l \in InTransit \cup Stored
           /\ \A k \in InTransit \cup Stored : ~(k[1] = l[1] /\ k[2] < l[2])
           /\ popped' = Append(popped, l) /\ Range(popped') = Range(popped) \cup {l}
<1>. DEFINE l == LineAt(readBuffer, readIndex)
<1>0. /\ Reading /\ WrittenSettled /\ WrittenOnce /\ SettledWritten /\ InOrder
      /\ Queue /\ GoneRead /\ ReadGone /\ MemoryTyped
      /\ buffers \in Seq(DOMAIN heap) /\ popped \in Seq(Lines \cup {NoLine})
      /\ readIndex \in Items /\ Items \subseteq Int
      /\ pushed \in [Producers -> 0..MaxPush] /\ MaxPush \in Nat
  BY TypeParts, QueueAssumption
     DEF QueueInv, Typed, MemoryTyped, OthersTyped, LineInv, ReadInv, Items
<1>1. /\ Written(readBuffer, readIndex) /\ popped' = Append(popped, l)
      /\ pop = "called" /\ readBuffer # NoBuffer
  BY DEF PopMove, PopAt, IsWritten, Written, LineAt
<1>2. buffers # <<>> /\ readBuffer = buffers[1] /\ readBuffer \in DOMAIN heap
  BY <1>0, <1>1 DEF Reading, MemoryTyped
<1>3. ~Gone(readBuffer, readIndex)
  <2>1. readBuffer \notin freed
    BY <1>0, <1>2 DEF Queue, MemoryTyped
  <2>. QED
    BY <1>0, <1>1, <1>2, <2>1 DEF Gone, Passed
<1>4. l \in Settled /\ l \in Lines
  BY <1>0, <1>1, <1>2 DEF WrittenSettled, Settled
<1>5. l \notin Range(popped)
  BY <1>0, <1>1, <1>2, <1>3 DEF ReadGone, GoneRead, WrittenOnce
<1>6. l \in InTransit \cup Stored
  BY <1>4, <1>5, PendingIs DEF Pending
<1>7. ASSUME NEW k \in InTransit \cup Stored, k[1] = l[1], k[2] < l[2]
      PROVE  FALSE
  <2>1. k \in Logged \ Range(popped) /\ (k \in InTransit \/ k \in Settled)
    BY <1>7, SettledIs, PendingIs DEF QueueInv, Pending
  <2>2. CASE k \in InTransit
    <3>1. PICK q \in Producers : k = Line(q)
      BY <2>2 DEF InTransit
    <3>2. k[1] = q /\ k[2] = pushed[q]
      BY <3>1 DEF Line
    <3>3. l \in Logged
      BY <1>4, PendingIs DEF Pending
    <3>4. l[2] <= pushed[q] /\ l[2] \in Int /\ pushed[q] \in Int
      <4>1. l[2] <= pushed[l[1]] /\ l[1] = q
        BY <1>7, <3>2, <3>3 DEF Logged
      <4>2. l[2] \in 1..MaxPush /\ pushed[q] \in 0..MaxPush
        BY <1>0, <1>4, <3>1 DEF Lines
      <4>. QED
        BY <1>0, <4>1, <4>2
    <3>. QED
      BY <1>7, <3>2, <3>4
  <2>3. CASE k \in Settled
    <3>1. PICK c \in DOMAIN heap, j \in Items : Written(c, j) /\ LineAt(c, j) = k
      BY <1>0, <2>3 DEF SettledWritten
    <3>2. Before(c, j, readBuffer, readIndex)
      BY <1>0, <1>1, <1>2, <1>7, <3>1 DEF InOrder
    <3>3. ~Gone(c, j)
      BY <1>0, <2>1, <3>1 DEF GoneRead
    <3>4. CASE c < readBuffer
      <4>1. c \notin Range(buffers)
        <5>1. \A n \in DOMAIN buffers :
                n = 1 \/ (1 \in DOMAIN buffers /\ 1 < n)
          BY <1>0
        <5>2. \A n \in DOMAIN buffers : buffers[n] = buffers[1] \/ buffers[1] < buffers[n]
          BY <1>0, <5>1 DEF Queue
        <5>3. \A n \in DOMAIN buffers : buffers[n] \in Int
          BY <1>0 DEF MemoryTyped
        <5>4. c \in Int /\ readBuffer \in Int
          BY <1>0, <1>2 DEF MemoryTyped
        <5>. QED
          BY <1>2, <3>4, <5>2, <5>3, <5>4 DEF Range
      <4>2. c \notin Unqueued
        <5>1. readBuffer <= writeBuffer /\ writeBuffer \in Int /\ readBuffer \in Int /\ c \in Int
          <6>1. DOMAIN heap = 1..Len(heap) /\ Len(heap) \in Nat
            BY <1>0 DEF MemoryTyped
          <6>2. writeBuffer = Len(heap)
            BY <1>0 DEF Queue
          <6>. QED
            BY <1>2, <3>1, <6>1, <6>2
        <5>. QED
          BY <3>4, <5>1 DEF Unqueued
      <4>. QED
        BY <1>0, <3>3, <4>1, <4>2 DEF Queue, Gone
    <3>5. CASE c = readBuffer /\ j < readIndex
      BY <1>1, <1>2, <3>3, <3>5 DEF Gone, Passed
    <3>. QED
      BY <3>2, <3>4, <3>5 DEF Before
  <2>. QED
    BY <2>1, <2>2, <2>3
<1>8. Range(popped') = Range(popped) \cup {l}
  BY <1>0, <1>1, <1>4, AppendRange
<1>. HIDE DEF l
<1>. QED
  BY <1>1, <1>4, <1>6, <1>7, <1>8

LEMMA BaseInit == QueueInv /\ Init => Base!Init
<1>. SUFFICES ASSUME QueueInv, Init PROVE Base!Init
  OBVIOUS
<1>1. Sound /\ popped = <<>>
  BY DEF Init, Sound
<1>2. Logged = {}
  BY QueueAssumption DEF Init, Logged, Lines
<1>. QED
  BY <1>1, <1>2, PendingIs DEF Base!Init, Pending

LEMMA BaseNext ==
  QueueInv /\ Sound /\ QueueInv' /\ Sound' /\ [Next]_vars => [Base!Next]_(Base!vars)
<1>. SUFFICES ASSUME QueueInv, Sound, QueueInv', Sound', [Next]_vars
              PROVE  [Base!Next]_(Base!vars)
  OBVIOUS
<1>. DEFINE pend == InTransit \cup Stored
<1>1. pend = Logged \ Range(popped) /\ Range(popped) \subseteq Logged
  BY PendingIs DEF Pending
<1>2. pend' = Logged' \ Range(popped')
  BY PendingStays DEF Pending
<1>3. CASE UNCHANGED vars
  <2>1. popped' = popped /\ Logged' = Logged
    BY <1>3 DEF vars, consumerVars, producerVars, Logged
  <2>. QED
    BY <1>1, <1>2, <2>1 DEF Base!vars
<1>4. ASSUME NEW l \in Lines, l \notin Logged, Logged' = Logged \cup {l}, popped' = popped
      PROVE  [Base!Next]_(Base!vars)
  <2>1. l \notin pend \cup Range(popped) \cup {}
    BY <1>1, <1>4
  <2>2. pend' = pend \cup {l}
    BY <1>1, <1>2, <1>4
  <2>3. Base!Push(l)
    BY <1>4, <2>1, <2>2 DEF Base!Push, Base!Range, Range
  <2>. QED
    BY <2>3 DEF Base!Next
<1>5. CASE Logged' = Logged /\ popped' = popped
  BY <1>1, <1>2, <1>5 DEF Base!vars
<1>6. CASE Logged' = Logged /\ PopMove
  <2>1. PICK l \in Lines :
          /\ l \in pend
          /\ \A k \in pend : ~(k[1] = l[1] /\ k[2] < l[2])
          /\ popped' = Append(popped, l) /\ Range(popped') = Range(popped) \cup {l}
    BY <1>6, MovedIsFirst
  <2>2. \A k \in pend :
          <<k, l>> \notin {kl \in Lines \X Lines : kl[1][1] = kl[2][1] /\ kl[1][2] < kl[2][2]}
    BY <2>1
  <2>3. pend' = pend \ {l}
    BY <1>1, <1>2, <1>6, <2>1
  <2>4. Base!Pop(l)
    BY <2>1, <2>2, <2>3 DEF Base!Pop
  <2>. QED
    BY <2>4 DEF Base!Next
<1>7. QueueInv => Typed
  BY DEF QueueInv
<1>. QED
  BY <1>3, <1>4, <1>5, <1>6, <1>7, LoggedNext

(* The queue is a lossless buffer that keeps each producer's order, as long *)
(* as memory that was freed is not reused under a producer's feet.          *)
THEOREM BufferImplemented ==
  ~RelaxedClaim /\ "reused" \notin FreedOutcomes => (Spec => ImplementsBufferBase)
<1>. SUFFICES ASSUME ~RelaxedClaim, "reused" \notin FreedOutcomes
              PROVE  Spec => ImplementsBufferBase
  OBVIOUS
<1>. DEFINE Inv == QueueInv /\ Sound
<1>1. Init => Inv
  BY QueueInit DEF QueueInv
<1>2. Inv /\ [Next]_vars => Inv'
  BY QueueNext DEF QueueInv
<1>3. Inv /\ Init => Base!Init
  BY BaseInit
<1>4. Inv /\ Inv' /\ [Next]_vars => [Base!Next]_(Base!vars)
  BY BaseNext
<1>. HIDE DEF Inv
<1>. QED
  BY <1>1, <1>2, <1>3, <1>4, PTL DEF Spec, ImplementsBufferBase, Base!Spec

-------------------------------------------------------------------------------
(* Nobody waits for nobody.  The count of the write Buffer is the number of  *)
(* items left, so who leaves the last of them knows it is the last; in all   *)
(* other cases there is an item that somebody has yet to leave.              *)
Replaced ==
  writeIndex >= Size /\ ~failed => \E p \in Producers : Installing(p) \/ Owner(p)

(* The way out of setupNextWriteBuffer without a Buffer is noted. *)
LEMMA FailedNext ==
  ASSUME Typed, NEW p \in Producers, Produce(p), ~failed'
  PROVE  ~failed /\ ~(pc[p] = "setup" /\ pc'[p] = "idle")
<1>. USE DEF Goto, At
<1>0. OthersTyped
  BY TypeParts DEF Typed
<1>1. ~SetupThrow(p)
  BY DEF SetupThrow
<1>2. failed' = failed
  BY <1>1 DEF Produce, PushStep, Claim, FetchAdd, WaitOver, Retry, Load, Construct,
       ConstructFault, Publish, Count, SetupLock, SetupStore, SetupEnqueue, SetupReset,
       SetupUnlock
<1>3. pc[p] # "setup" \/ SetupStore(p)
  BY <1>1 DEF Produce, PushStep, Claim, FetchAdd, WaitOver, Retry, Load, Construct,
       ConstructFault, Publish, Count, SetupLock, SetupStore, SetupEnqueue, SetupReset,
       SetupUnlock
<1>4. SetupStore(p) => pc'[p] = "stored"
  BY <1>0 DEF SetupStore, OthersTyped
<1>. QED
  BY <1>2, <1>3, <1>4

LEMMA ReplacedStep ==
  ASSUME Typed, ClaimInv, Replaced, NEW p \in Producers, Others(p), Step(p), Produce(p)
  PROVE  Replaced'
<1>. SUFFICES ASSUME writeIndex' >= Size, ~failed'
              PROVE  \E q \in Producers : (Installing(q) \/ Owner(q))'
  BY DEF Replaced
<1>0. /\ OthersTyped /\ writeIndex \in Nat /\ Size \in Nat \ {0}
      /\ ~failed /\ ~(pc[p] = "setup" /\ pc'[p] = "idle")
  BY TypeParts, QueueAssumption, FailedNext DEF Typed, OthersTyped
<1>1. ASSUME NEW q \in Producers \ {p}, Installing(q) \/ Owner(q)
      PROVE  (Installing(q) \/ Owner(q))'
  BY <1>1 DEF Others, Installing, Owner
<1>2. CASE Claims(p)
  <2>1. CASE writeIndex < Size
    BY <1>2, <2>1 DEF Claims, Owner
  <2>2. CASE writeIndex >= Size
    <3>1. PICK q \in Producers : Installing(q) \/ Owner(q)
      BY <1>0, <2>2 DEF Replaced
    <3>2. q # p
      BY <1>2, <3>1 DEF Claims, Installing, Owner
    <3>. QED
      BY <1>1, <3>1, <3>2
  <2>. QED
    BY <1>0, <2>1, <2>2
<1>3. CASE Moves(p)
  <2>1. PICK q \in Producers : Installing(q) \/ Owner(q)
    BY <1>0, <1>3 DEF Replaced, Moves
  <2>2. CASE q = p
    BY <1>0, <1>3, <2>1, <2>2 DEF Moves, Quiet, Installing, Owner
  <2>. QED
    BY <1>1, <2>1, <2>2
<1>4. CASE Adds(p)
  <2>1. CASE CountOf(target[p]) + 1 = Size
    BY <1>4, <2>1 DEF Adds, Installing
  <2>2. CASE CountOf(target[p]) + 1 # Size
    <3>1. Cardinality(Left') # Size /\ Left' \subseteq Items
      BY <1>4, <2>2, LeftByAdd, LeftFinite
    <3>2. PICK i \in Items : i \notin Left'
      <4>. DEFINE L == Left'
      <4>1. Cardinality(L) # Cardinality(Items) /\ L \subseteq Items
        BY <3>1, LeftFinite
      <4>. HIDE DEF L
      <4>2. L # Items
        BY <4>1
      <4>3. \E i \in Items : i \notin L
        BY <4>1, <4>2
      <4>. QED
        BY <4>3 DEF L
    <3>3. i < writeIndex'
      BY <1>0, <1>4 DEF Adds, Items
    <3>. QED
      BY <3>2, <3>3 DEF Left
  <2>. QED
    BY <2>1, <2>2
<1>5. CASE Resets(p)
  BY <1>0, <1>5 DEF Resets
<1>6. CASE Loads(p) \/ Builds(p) \/ Shows(p) \/ Installs(p) \/ Enqueues(p)
  BY <1>6 DEF Loads, Builds, Shows, Installs, Enqueues, Installing, Owner
<1>. QED
  BY <1>2, <1>3, <1>4, <1>5, <1>6 DEF Step

LEMMA ReplacedInit == Init => (Sound => Replaced)
  BY QueueAssumption DEF Init, Replaced

LEMMA ReplacedNext ==
  QueueInv /\ (Sound => Replaced) /\ [Next]_vars => (Sound' => Replaced')
<1>. SUFFICES ASSUME QueueInv, Sound => Replaced, [Next]_vars, Sound' PROVE Replaced'
  OBVIOUS
<1>1. CASE Next
  <2>1. Sound
    BY <1>1 DEF Sound, Next, Produce, PushStep, Claim, FetchAdd, WaitOver, Retry, Load,
         Construct, ConstructFault, Publish, Count, CountFreed, SetupLock, SetupStore,
         SetupThrow, SetupEnqueue, SetupReset, SetupUnlock, PopCall, TryPop,
         PopFrontLock, PopFront, PopFalse, PopMove, PopRetireLock, PopRetire
  <2>2. Typed /\ ClaimInv /\ Replaced /\ ~RelaxedClaim
    BY <2>1 DEF QueueInv
  <2>3. ASSUME NEW p \in Producers, Produce(p) PROVE Replaced'
    BY <2>2, <2>3, OthersKept, StepOf, ReplacedStep
  <2>4. CASE PopCall \/ TryPop
    BY <2>2, <2>4
       DEF PopCall, TryPop, PopFrontLock, PopFront, PopFalse, PopMove, PopRetireLock,
           PopRetire, bufferVars, producerVars, Replaced, Installing, Owner
  <2>. QED
    BY <1>1, <2>3, <2>4 DEF Next
<1>2. CASE UNCHANGED vars
  BY <1>2 DEF vars, bufferVars, producerVars, Sound, Replaced, Installing, Owner
<1>. QED
  BY <1>1, <1>2

(* A full Buffer is always about to be replaced, by one producer: while the *)
(* index is past the end somebody is in an item or installs, unless an      *)
(* allocation has failed, for any number of producers and any Buffer size,  *)
(* where the claim is a full barrier and as long as nobody has counted in   *)
(* reused memory.                                                           *)
THEOREM FullBufferIsReplaced == ~RelaxedClaim => (Spec => []FullIsReplaced)
<1>1. QueueInv /\ (Sound => Replaced) => FullIsReplaced
  BY DEF QueueInv, ClaimInv, Installers, Replaced, Sound, FullIsReplaced, Owner
<1>. QED
  BY QueueInit, QueueNext, ReplacedInit, ReplacedNext, <1>1, PTL DEF Spec

-------------------------------------------------------------------------------
(* Who has m_flag, step by step; it needs no more than the types. *)
LEMMA FlagProduce ==
  ASSUME Typed, FlagGuardsQueue, NEW p \in Producers, Produce(p)
  PROVE  FlagGuardsQueue'
<1>. USE DEF Goto, At, bufferVars, producerVars, consumerVars
<1>0. OthersTyped /\ MemoryTyped /\ flag \in BOOLEAN
  BY TypeParts DEF Typed, TypeOK
<1>1. pop' = pop /\ \A q \in Producers \ {p} : HasFlag(q)' <=> HasFlag(q)
  BY OthersKept DEF Others, HasFlag
<1>2. CASE SetupLock(p)
  <2>1. ~flag /\ flag' /\ HasFlag(p)'
    BY <1>0, <1>2 DEF SetupLock, HasFlag, OthersTyped
  <2>. QED
    BY <1>1, <2>1 DEF FlagGuardsQueue, PopHasFlag
<1>3. CASE SetupThrow(p) \/ SetupUnlock(p)
  <2>1. HasFlag(p) /\ ~flag' /\ ~HasFlag(p)'
    BY <1>0, <1>3 DEF SetupThrow, SetupUnlock, HasFlag, OthersTyped
  <2>. QED
    BY <1>1, <2>1 DEF FlagGuardsQueue, PopHasFlag
<1>4. CASE ~SetupLock(p) /\ ~SetupThrow(p) /\ ~SetupUnlock(p)
  <2>1. flag' = flag
    BY <1>4 DEF Produce, PushStep, Claim, FetchAdd, WaitOver, Retry, Load, Construct,
         ConstructFault, Publish, Count, SetupStore, SetupEnqueue, SetupReset
  <2>2. HasFlag(p)' <=> HasFlag(p)
    <3>1. CASE Claim(p) \/ WaitOver(p) \/ Retry(p) \/ Load(p) \/ Construct(p)
               \/ ConstructFault(p) \/ Publish(p)
      BY <1>0, <3>1 DEF Claim, FetchAdd, WaitOver, Retry, Load, Construct,
           ConstructFault, Publish, HasFlag, OthersTyped
    <3>2. CASE Count(p)
      BY <1>0, <3>2 DEF Count, CountIn, CountFreed, HasFlag, OthersTyped
    <3>3. CASE SetupStore(p) \/ SetupEnqueue(p) \/ SetupReset(p)
      BY <1>0, <3>3 DEF SetupStore, SetupEnqueue, SetupReset, HasFlag, OthersTyped
    <3>. QED
      BY <1>4, <3>1, <3>2, <3>3 DEF Produce, PushStep
  <2>. QED
    BY <1>1, <2>1, <2>2 DEF FlagGuardsQueue, PopHasFlag
<1>. QED
  BY <1>2, <1>3, <1>4

LEMMA FlagPop ==
  ASSUME Typed, FlagGuardsQueue, PopCall \/ TryPop
  PROVE  FlagGuardsQueue'
<1>. USE DEF PopAt, bufferVars, producerVars, PopHasFlag
<1>0. flag \in BOOLEAN
  BY DEF Typed, TypeOK
<1>1. \A q \in Producers : HasFlag(q)' <=> HasFlag(q)
  BY DEF PopCall, TryPop, PopFrontLock, PopFront, PopFalse, PopMove, PopRetireLock,
         PopRetire, HasFlag
<1>2. CASE PopFrontLock \/ PopRetireLock
  <2>1. ~flag /\ flag' /\ PopHasFlag'
    BY <1>2 DEF PopFrontLock, PopRetireLock
  <2>. QED
    BY <1>1, <2>1 DEF FlagGuardsQueue
<1>3. CASE PopFront \/ PopRetire
  <2>1. PopHasFlag /\ ~flag' /\ ~PopHasFlag'
    BY <1>3 DEF PopFront, PopRetire
  <2>. QED
    BY <1>1, <2>1 DEF FlagGuardsQueue
<1>4. CASE PopCall \/ PopFalse \/ PopMove
  <2>1. flag' = flag /\ ~PopHasFlag /\ ~PopHasFlag'
    BY <1>4 DEF PopCall, PopFalse, PopMove
  <2>. QED
    BY <1>1, <2>1 DEF FlagGuardsQueue
<1>. QED
  BY <1>2, <1>3, <1>4 DEF TryPop

(* The queue of Buffers is never used by two threads at once, and m_flag is *)
(* free whenever nobody is using it, whatever happens to freed memory and   *)
(* in whatever order loads are answered, for any number of producers.       *)
THEOREM QueueIsGuarded == Spec => []FlagGuardsQueue
<1>1. Init => FlagGuardsQueue
  BY DEF Init, FlagGuardsQueue, HasFlag, PopHasFlag
<1>2. Typed /\ FlagGuardsQueue /\ [Next]_vars => FlagGuardsQueue'
  <2>. SUFFICES ASSUME Typed, FlagGuardsQueue, [Next]_vars PROVE FlagGuardsQueue'
    OBVIOUS
  <2>1. CASE UNCHANGED vars
    BY <2>1 DEF vars, bufferVars, producerVars, consumerVars, FlagGuardsQueue, HasFlag,
       PopHasFlag
  <2>. QED
    BY <2>1, FlagProduce, FlagPop DEF Next
<1>. QED
  BY TypedInit, TypedNext, <1>1, <1>2, PTL DEF Spec
===============================================================================
