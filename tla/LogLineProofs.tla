----------------------------- MODULE LogLineProofs -----------------------------
(***************************************************************************)
(* Proofs about LogLine for any sizes, arguments and number of lines: no   *)
(* write leaves its buffer, and what is read back is what was written.     *)
(***************************************************************************)
EXTENDS LogLine, InductionProofs

(* A line whose fields are all inside its buffers. *)
Fits(l) ==
  /\ \A f \in l.stack : f.at + f.width <= StackSize
  /\ \A f \in l.heap : f.at + f.width <= l.size

(* A line that can be written to: m_bytesUsed and m_bufferSize belong to the *)
(* buffer in use, which starts with the header.                              *)
Writable(l) ==
  /\ HeaderSize <= l.used /\ l.used <= l.size
  /\ l.heap = NoHeap => l.size = StackSize /\ Header \in l.stack
  /\ l.heap # NoHeap => l.size >= HeapMin /\ Header \in l.heap

LineInv ==
  /\ TypeOK
  /\ \A o \in Places : Fits(line[o])
  /\ "thread" \in live => Writable(line["thread"])

(* The constructor's line is well-formed. *)
LEMMA BlankFits == Blank \in LineType /\ Fits(Blank) /\ Writable(Blank)
  BY LineAssumption
     DEF Blank, Header, LineType, FieldType, Fits, Writable, NoHeap

(* The field of an argument is a field. *)
LEMMA FieldTyped ==
  ASSUME TypeOK, NEW a \in Args, NEW at \in Nat
  PROVE  /\ Field(a, at) \in FieldType
         /\ Field(a, at).at = at
         /\ Field(a, at).width = Needed(a)
<1>1. a.kind \in Kinds /\ a.len \in Nat /\ a.text \in Texts
  BY LineAssumption DEF Texts
<1>2. Width(a) \in Nat \ {0} /\ Width(a) = Needed(a)
  BY <1>1, LineAssumption DEF Width, Needed, Kinds
<1>3. (IF a.kind = "array" THEN Address ELSE text[a.text]) \in Nat \cup {Address}
  BY <1>1, LineAssumption DEF TypeOK
<1>. QED
  BY <1>1, <1>2, <1>3 DEF Field, FieldType

(* resizeBufferIfNeeded makes room for what was asked and keeps the fields. *)
LEMMA GrowthFits ==
  ASSUME NEW l \in LineType, Fits(l), Writable(l), NEW n \in Nat
  PROVE  /\ Grown(l, n) \in LineType
         /\ Fits(Grown(l, n))
         /\ Writable(Grown(l, n))
         /\ Grown(l, n).used = l.used
         /\ l.used + n <= Grown(l, n).size
<1>. DEFINE required == l.used + n
            g == Grown(l, n)
<1>. USE LineAssumption DEF LineType
<1>1. CASE required <= l.size
  BY <1>1 DEF Grown
<1>2. ASSUME NEW fields \in SUBSET FieldType, Header \in fields,
             NEW size \in Nat, required <= size, HeapMin <= size,
             g = [l EXCEPT !.size = size, !.heap = FirstBytes(fields, l.used)]
      PROVE  /\ g \in LineType /\ Fits(g) /\ Writable(g)
             /\ g.used = l.used /\ required <= g.size
  <2>1. Header \in FirstBytes(fields, l.used)
    BY <1>2 DEF FirstBytes, Header, Writable
  <2>2. \A f \in FirstBytes(fields, l.used) :
          f \in FieldType /\ f.at + f.width <= size
    BY <1>2 DEF FirstBytes, FieldType
  <2>3. /\ g.used = l.used /\ g.stack = l.stack
        /\ g.size = size /\ g.heap = FirstBytes(fields, l.used)
    BY <1>2
  <2>4. g \in LineType
    BY <1>2, <2>2
  <2>5. Fits(g)
    BY <2>2, <2>3 DEF Fits
  <2>6. Writable(g)
    BY <1>2, <2>1, <2>3 DEF Writable, NoHeap
  <2>. QED
    BY <1>2, <2>3, <2>4, <2>5, <2>6
<1>3. CASE required > l.size /\ l.heap = NoHeap
  <2>1. g = GrownStack(l, required)
    BY <1>3 DEF Grown
  <2>2. /\ Larger(HeapMin, required) \in Nat
        /\ Larger(HeapMin, required) >= required
        /\ Larger(HeapMin, required) >= HeapMin
    BY DEF Larger
  <2>3. Header \in l.stack
    BY <1>3 DEF Writable
  <2>. QED
    BY <1>2, <2>1, <2>2, <2>3 DEF GrownStack
<1>4. CASE required > l.size /\ l.heap # NoHeap
  <2>1. g = GrownHeap(l, required)
    BY <1>4 DEF Grown
  <2>2. l.size >= HeapMin /\ Header \in l.heap
    BY <1>4 DEF Writable
  <2>3. /\ Larger(2 * l.size, required) \in Nat
        /\ Larger(2 * l.size, required) >= required
        /\ Larger(2 * l.size, required) >= HeapMin
    BY <2>2 DEF Larger
  <2>. QED
    BY <1>2, <2>1, <2>2, <2>3 DEF GrownHeap
<1>. QED
  BY <1>1, <1>3, <1>4

(* A field for which there is room is written inside the buffer in use. *)
LEMMA PutFits ==
  ASSUME NEW l \in LineType, Fits(l), Writable(l), NEW f \in FieldType,
         f.at = l.used, l.used + f.width <= l.size
  PROVE  Put(l, f) \in LineType /\ Fits(Put(l, f)) /\ Writable(Put(l, f))
<1>. DEFINE g == Put(l, f)
<1>. USE LineAssumption DEF LineType
<1>1. /\ f.width \in Nat /\ f.at \in Nat /\ l.used + f.width \in Nat
      /\ l.stack \cup {f} \in SUBSET FieldType
      /\ l.heap \cup {f} \in SUBSET FieldType
  <2>1. f.width \in Nat /\ f.at \in Nat
    BY DEF FieldType
  <2>. QED
    BY <2>1
<1>2. CASE l.heap = NoHeap
  <2>1. g = [l EXCEPT !.stack = l.stack \cup {f}, !.used = l.used + f.width]
    BY <1>2 DEF Put
  <2>2. /\ g.used = l.used + f.width /\ g.stack = l.stack \cup {f}
        /\ g.size = l.size /\ g.heap = l.heap
    BY <2>1
  <2>3. g \in LineType
    BY <1>1, <2>1
  <2>4. Fits(g)
    BY <1>1, <1>2, <2>2 DEF Fits, Writable
  <2>5. Writable(g)
    BY <1>1, <1>2, <2>2 DEF Writable
  <2>. QED
    BY <2>3, <2>4, <2>5
<1>3. CASE l.heap # NoHeap
  <2>1. g = [l EXCEPT !.heap = l.heap \cup {f}, !.used = l.used + f.width]
    BY <1>3 DEF Put
  <2>2. /\ g.used = l.used + f.width /\ g.heap = l.heap \cup {f}
        /\ g.size = l.size /\ g.stack = l.stack
    BY <2>1
  <2>3. g \in LineType
    BY <1>1, <2>1
  <2>4. Fits(g)
    BY <1>1, <2>2 DEF Fits
  <2>5. Writable(g)
    BY <1>1, <1>3, <2>2 DEF Writable, NoHeap
  <2>. QED
    BY <2>3, <2>4, <2>5
<1>. QED
  BY <1>2, <1>3

-------------------------------------------------------------------------------
(* The invariant holds at first ... *)
LEMMA LineInvInit == Init => LineInv
<1>. SUFFICES ASSUME Init PROVE LineInv
  OBVIOUS
<1>1. TypeOK
  BY BlankFits, LineAssumption DEF Init, TypeOK
<1>. QED
  BY <1>1, BlankFits DEF Init, LineInv

(* ... and every step keeps it. *)
LEMMA LineInvNext == LineInv /\ [Next]_vars => LineInv'
<1>. SUFFICES ASSUME LineInv, [Next]_vars PROVE LineInv'
  OBVIOUS
<1>. USE LineAssumption
<1>1. CASE New
  BY <1>1, BlankFits DEF New, LineInv, TypeOK, Places
<1>2. ASSUME NEW a \in Args, Encode(a) PROVE LineInv'
  <2>. DEFINE l == line["thread"]
              g == Grown(l, Needed(a))
              f == Field(a, l.used)
  <2>1. l \in LineType /\ Fits(l) /\ Writable(l) /\ l.used \in Nat
    BY <1>2 DEF Encode, LineInv, TypeOK, Places, LineType
  <2>2. f \in FieldType /\ f.at = l.used /\ f.width = Needed(a)
    BY <2>1, FieldTyped DEF LineInv
  <2>3. Needed(a) \in Nat
    BY <2>2 DEF FieldType
  <2>4. /\ g \in LineType /\ Fits(g) /\ Writable(g)
        /\ g.used = l.used /\ l.used + Needed(a) <= g.size
    BY <2>1, <2>3, GrowthFits
  <2>5. Put(g, f) \in LineType /\ Fits(Put(g, f)) /\ Writable(Put(g, f))
    BY <2>2, <2>4, PutFits
  <2>6. /\ line' = [line EXCEPT !["thread"] = Put(g, f)]
        /\ live' = live /\ text' = text /\ lines' = lines
    BY <1>2 DEF Encode
  <2>. QED
    BY <2>5, <2>6 DEF LineInv, TypeOK, Places
<1>3. ASSUME NEW from \in Places, NEW to \in Places \ {"thread", from}, Move(from, to)
      PROVE  LineInv'
  <2>1. MovedFrom(line[from]) \in LineType /\ Fits(MovedFrom(line[from]))
    BY DEF LineInv, TypeOK, MovedFrom, LineType, Fits, NoHeap
  <2>2. \A o \in Places : line'[o] \in {line[o], line[from], MovedFrom(line[from])}
    BY <1>3 DEF Move, LineInv, TypeOK
  <2>3. TypeOK'
    BY <1>3, <2>1 DEF Move, LineInv, TypeOK
  <2>4. \A o \in Places : Fits(line'[o])
    BY <2>1, <2>2 DEF LineInv
  <2>5. "thread" \in live' => "thread" \in live /\ line'["thread"] = line["thread"]
    BY <1>3 DEF Move, LineInv, TypeOK, Places
  <2>. QED
    BY <2>3, <2>4, <2>5 DEF LineInv
<1>4. CASE Stringify
  BY <1>4 DEF Stringify, LineInv, TypeOK
<1>5. ASSUME NEW t \in Mutable, Change(t) PROVE LineInv'
  BY <1>5 DEF Change, LineInv, TypeOK
<1>6. CASE UNCHANGED vars
  BY <1>6 DEF vars, LineInv, TypeOK
<1>. QED
  BY <1>1, <1>2, <1>3, <1>4, <1>5, <1>6 DEF Next, Push, TryPop, Places

(* No write leaves its buffer: for any sizes of the stack buffer, the heap   *)
(* buffers and the arguments, the check that precedes each write suffices.   *)
THEOREM WritesStayInside == Spec => []WithinBuffer
<1>1. LineInv => WithinBuffer
  BY DEF LineInv, Fits, WithinBuffer
<1>. QED
  BY LineInvInit, LineInvNext, <1>1, PTL DEF Spec

(* The members of a line keep their types. *)
THEOREM LineTypeCorrect == Spec => []TypeOK
<1>1. LineInv => TypeOK
  BY DEF LineInv
<1>. QED
  BY LineInvInit, LineInvNext, <1>1, PTL DEF Spec

-------------------------------------------------------------------------------
(* Reading.  The function that Fields defines exists, since every field has  *)
(* a byte at least: ...                                                      *)
InUse(l) == IF l.heap = NoHeap THEN l.stack ELSE l.heap

Reads(from, fields, used, b) ==
  from[b] = IF b >= used THEN <<>>
            ELSE <<FieldAt(fields, b)>> \o from[b + Skip(FieldAt(fields, b))]

Reader(from, fields, used) ==
  from = [b \in Nat |->
            IF b >= used THEN <<>>
            ELSE <<FieldAt(fields, b)>> \o from[b + Skip(FieldAt(fields, b))]]

LEMMA SkipPositive ==
  ASSUME NEW fields \in SUBSET FieldType, NEW b
  PROVE  Skip(FieldAt(fields, b)) \in Nat \ {0}
<1>. DEFINE f == FieldAt(fields, b)
<1>1. f.len \in Nat /\ f.kind \in Kinds \cup {"header", "garbage"}
  <2>1. CASE \E g \in fields : g.at = b
    <3>1. f \in FieldType
      BY <2>1 DEF FieldAt
    <3>. QED
      BY <3>1 DEF FieldType
  <2>2. CASE ~\E g \in fields : g.at = b
    BY <2>2 DEF FieldAt, Garbage, Header
  <2>. QED
    BY <2>1, <2>2
<1>. HIDE DEF f
<1>2. Skip(f) \in Nat \ {0}
  BY <1>1, LineAssumption DEF Skip, Kinds
<1>. QED
  BY <1>2 DEF f

LEMMA ReaderExists ==
  ASSUME NEW fields \in SUBSET FieldType, NEW used \in Nat
  PROVE  \E from : Reader(from, fields, used)
<1>. DEFINE Good(f, k) == /\ f = [b \in Nat |-> f[b]]
                          /\ \A b \in Nat : b + k >= used => Reads(f, fields, used, b)
            S == {k \in Nat : \E f : Good(f, k)}
            at(b) == b + Skip(FieldAt(fields, b))
<1>0. \A b \in Nat : at(b) \in Nat /\ at(b) > b
  BY SkipPositive
<1>. HIDE DEF at
<1>1. 0 \in S
  <2>. DEFINE f == [b \in Nat |-> <<>>]
  <2>1. Good(f, 0)
    BY DEF Reads
  <2>. QED
    BY <2>1
<1>2. ASSUME NEW k \in Nat, k \in S PROVE k + 1 \in S
  <2>1. PICK f : Good(f, k)
    BY <1>2
  <2>2. CASE k >= used
    <3>1. Good(f, k + 1)
      BY <2>1, <2>2
    <3>. QED
      BY <3>1
  <2>3. CASE k < used
    <3>. DEFINE c == used - (k + 1)
                g == [b \in Nat |-> IF b = c THEN <<FieldAt(fields, c)>> \o f[at(c)] ELSE f[b]]
    <3>1. c \in Nat /\ c < used
      BY <2>3
    <3>2. \A b \in Nat : b > c => b + k >= used
      BY <3>1
    <3>3. ASSUME NEW b \in Nat, b + (k + 1) >= used PROVE Reads(g, fields, used, b)
      <4>1. b >= c
        BY <3>1, <3>3
      <4>2. g[at(b)] = f[at(b)]
        BY <1>0, <3>1, <4>1
      <4>3. CASE b = c
        <5>1. g[b] = <<FieldAt(fields, b)>> \o g[at(b)]
          BY <4>2, <4>3
        <5>2. ~(b >= used)
          BY <3>1, <4>3
        <5>. HIDE DEF g
        <5>. QED
          BY <5>1, <5>2 DEF Reads, at
      <4>4. CASE b # c
        <5>1. Reads(f, fields, used, b) /\ g[b] = f[b]
          BY <2>1, <3>1, <3>2, <4>1, <4>4
        <5>. QED
          BY <4>2, <5>1 DEF Reads, at
      <4>. QED
        BY <4>3, <4>4
    <3>4. g = [b \in Nat |-> g[b]]
      OBVIOUS
    <3>. HIDE DEF g
    <3>5. Good(g, k + 1)
      BY <3>3, <3>4
    <3>. QED
      BY <3>5
  <2>. QED
    BY <2>2, <2>3
<1>. HIDE DEF S
<1>3. used \in S
  BY <1>1, <1>2, SetInduction
<1>4. PICK f : Good(f, used)
  BY <1>3 DEF S
<1>5. \A b \in Nat : Reads(f, fields, used, b)
  BY <1>4
<1>6. Reader(f, fields, used)
  BY <1>4, <1>5 DEF Reads, Reader
<1>. QED
  BY <1>6

LEMMA FieldsIs ==
  ASSUME NEW l \in LineType
  PROVE  \E from : /\ \A b \in Nat : Reads(from, InUse(l), l.used, b)
                   /\ Fields(l) = from[HeaderSize]
<1>. DEFINE from == CHOOSE f : Reader(f, InUse(l), l.used)
<1>1. InUse(l) \in SUBSET FieldType /\ l.used \in Nat
  BY DEF InUse, LineType
<1>2. Reader(from, InUse(l), l.used)
  BY <1>1, ReaderExists
<1>3. Fields(l) = from[HeaderSize]
  BY DEF Fields, Reader, InUse
<1>. HIDE DEF from
<1>4. \A b \in Nat : Reads(from, InUse(l), l.used, b)
  BY <1>2 DEF Reader, Reads
<1>. QED
  BY <1>3, <1>4

(* ... and it reads a buffer that holds fields one after the other, each at  *)
(* a place of its own, as those fields.                                      *)
Behind(l, fs, i) == IF i = Len(fs) + 1 THEN l.used ELSE fs[i].at

Chain(l, fs) ==
  /\ fs \in Seq(FieldType)
  /\ Behind(l, fs, 1) = HeaderSize
  /\ \A i \in 1..Len(fs) :
       /\ fs[i] \in InUse(l)
       /\ Behind(l, fs, i + 1) = fs[i].at + Skip(fs[i])

Neat(l) ==
  /\ \A f \in InUse(l) : f.at + f.width <= l.used
  /\ \A f, g \in InUse(l) : f.at = g.at => f = g

LEMMA FieldFound ==
  ASSUME NEW l \in LineType, Neat(l), NEW f \in InUse(l)
  PROVE  FieldAt(InUse(l), f.at) = f /\ f.at < l.used
<1>1. f \in FieldType /\ l.used \in Nat
  BY DEF InUse, LineType
<1>2. f.at + f.width <= l.used /\ f.at \in Nat /\ f.width \in Nat \ {0}
  BY <1>1 DEF Neat, FieldType
<1>3. FieldAt(InUse(l), f.at) = f
  BY DEF Neat, FieldAt
<1>. QED
  BY <1>1, <1>2, <1>3

LEMMA ReadBack ==
  ASSUME NEW l \in LineType, Neat(l), NEW fs, Chain(l, fs)
  PROVE  Fields(l) = fs
<1>. DEFINE n == Len(fs)
<1>0. fs \in Seq(FieldType) /\ n \in Nat /\ l.used \in Nat
  BY DEF Chain, LineType
<1>1. PICK from : /\ \A b \in Nat : Reads(from, InUse(l), l.used, b)
                  /\ Fields(l) = from[HeaderSize]
  BY FieldsIs
<1>. DEFINE S == {k \in Nat : k <= n =>
                    from[Behind(l, fs, (n + 1) - k)] = SubSeq(fs, (n + 1) - k, n)}
<1>2. 0 \in S
  <2>1. from[l.used] = <<>>
    <3>1. Reads(from, InUse(l), l.used, l.used) /\ l.used >= l.used
      BY <1>0, <1>1
    <3>. QED
      BY <3>1 DEF Reads
  <2>2. SubSeq(fs, n + 1, n) = <<>>
    BY <1>0, SubSeqEmpty
  <2>3. (n + 1) - 0 = n + 1 /\ Behind(l, fs, n + 1) = l.used
    BY <1>0 DEF Behind
  <2>. QED
    BY <2>1, <2>2, <2>3
<1>3. ASSUME NEW k \in Nat, k \in S PROVE k + 1 \in S
  <2>. SUFFICES ASSUME k + 1 <= n
                PROVE  from[Behind(l, fs, (n + 1) - (k + 1))] = SubSeq(fs, (n + 1) - (k + 1), n)
    OBVIOUS
  <2>. DEFINE i == n - k
  <2>1. i \in 1..n /\ i + 1 = (n + 1) - k /\ i = (n + 1) - (k + 1)
    BY <1>0
  <2>2. from[Behind(l, fs, i + 1)] = SubSeq(fs, i + 1, n)
    BY <1>0, <1>3, <2>1
  <2>. HIDE DEF i
  <2>3. /\ fs[i] \in InUse(l) /\ fs[i].at \in Nat
        /\ Behind(l, fs, i + 1) = fs[i].at + Skip(fs[i])
    <3>1. fs[i] \in FieldType
      BY <1>0, <2>1
    <3>2. fs[i].at \in Nat
      BY <3>1 DEF FieldType
    <3>. QED
      BY <2>1, <3>2 DEF Chain
  <2>4. FieldAt(InUse(l), fs[i].at) = fs[i] /\ fs[i].at < l.used
    BY <2>3, FieldFound
  <2>5. from[fs[i].at] = <<fs[i]>> \o from[Behind(l, fs, i + 1)]
    <3>1. Reads(from, InUse(l), l.used, fs[i].at)
      BY <1>1, <2>3
    <3>2. ~(fs[i].at >= l.used)
      BY <1>0, <2>3, <2>4
    <3>. QED
      BY <2>3, <2>4, <3>1, <3>2 DEF Reads
  <2>6. SubSeq(fs, i, n) = <<fs[i]>> \o SubSeq(fs, i + 1, n)
    <3>1. n \in i..n
      BY <1>0, <2>1
    <3>. QED
      BY <1>0, <2>1, <3>1, SubSeqRecursiveFirst
  <2>7. Behind(l, fs, i) = fs[i].at
    BY <1>0, <2>1 DEF Behind
  <2>. QED
    BY <2>1, <2>2, <2>5, <2>6, <2>7
<1>. HIDE DEF S
<1>4. n \in S
  BY <1>0, <1>2, <1>3, SetInduction
<1>5. from[Behind(l, fs, (n + 1) - n)] = SubSeq(fs, (n + 1) - n, n)
  BY <1>0, <1>4 DEF S
<1>6. (n + 1) - n = 1 /\ SubSeq(fs, 1, n) = fs
  BY <1>0, SubSeqFull
<1>. QED
  BY <1>1, <1>5, <1>6 DEF Chain

-------------------------------------------------------------------------------
(* What the line of a place was told, and how it has it.                     *)
Told == [text : Texts, kind : Kinds, shows : Nat]

(* A field has the argument: its text and kind, and of a copy what it showed. *)
Has(f, s) ==
  /\ f.kind = s.kind /\ f.text = s.text
  /\ s.kind # "array" => f.shows = s.shows

Holds(l, told) ==
  \E fs : /\ Chain(l, fs) /\ Len(fs) = Len(told)
          /\ \A i \in 1..Len(told) : Has(fs[i], told[i])

(* A text the program cannot change shows what it showed at first. *)
Fixed(t) == t \notin Mutable => text[t] = 0
SaidFixed(s) == s.text \notin Mutable => s.shows = 0

ReadInv ==
  /\ said \in [Places -> Seq(Told)]
  /\ \A t \in Texts : Fixed(t)
  /\ \A o \in Places : \A i \in DOMAIN said[o] : SaidFixed(said[o][i])
  /\ \A o \in live : Neat(line[o]) /\ Holds(line[o], said[o])

LEMMA ReadsBackSuffices == LineInv /\ ReadInv => ReadsBack
<1>. SUFFICES ASSUME LineInv, ReadInv, NEW o \in live
              PROVE  /\ Len(Fields(line[o])) = Len(said[o])
                     /\ \A i \in DOMAIN said[o] :
                          /\ Fields(line[o])[i].kind = said[o][i].kind
                          /\ Fields(line[o])[i].text = said[o][i].text
  BY DEF ReadsBack
<1>1. o \in Places /\ line[o] \in LineType /\ said[o] \in Seq(Told)
  BY DEF LineInv, TypeOK, ReadInv
<1>2. PICK fs : /\ Chain(line[o], fs) /\ Len(fs) = Len(said[o])
                /\ \A i \in 1..Len(said[o]) : Has(fs[i], said[o][i])
  BY DEF ReadInv, Holds
<1>3. Fields(line[o]) = fs
  BY <1>1, <1>2, ReadBack DEF ReadInv
<1>. QED
  BY <1>1, <1>2, <1>3 DEF Has

(* resizeBufferIfNeeded moves all of the fields. *)
LEMMA GrowthKeeps ==
  ASSUME NEW l \in LineType, Writable(l), Neat(l), NEW n \in Nat
  PROVE  /\ InUse(Grown(l, n)) = InUse(l)
         /\ Grown(l, n).used = l.used
<1>1. \A fields : (\A f \in fields : f.at + f.width <= l.used) => FirstBytes(fields, l.used) = fields
  BY DEF FirstBytes
<1>2. CASE l.used + n <= l.size
  BY <1>2 DEF Grown
<1>3. CASE ~(l.used + n <= l.size) /\ l.heap = NoHeap
  <2>1. Header \in l.stack /\ InUse(l) = l.stack
    BY <1>3 DEF Writable, InUse
  <2>2. FirstBytes(l.stack, l.used) = l.stack
    BY <1>1, <2>1 DEF Neat
  <2>3. /\ Grown(l, n).heap = l.stack /\ Grown(l, n).used = l.used
    BY <1>3, <2>2 DEF Grown, GrownStack, LineType
  <2>. QED
    BY <2>1, <2>3 DEF InUse, NoHeap
<1>4. CASE ~(l.used + n <= l.size) /\ l.heap # NoHeap
  <2>1. InUse(l) = l.heap
    BY <1>4 DEF InUse
  <2>2. FirstBytes(l.heap, l.used) = l.heap
    BY <1>1, <2>1 DEF Neat
  <2>3. /\ Grown(l, n).heap = l.heap /\ Grown(l, n).used = l.used
    BY <1>4, <2>2 DEF Grown, GrownHeap, LineType
  <2>. QED
    BY <1>4, <2>1, <2>3 DEF InUse
<1>. QED
  BY <1>2, <1>3, <1>4

(* A field is added behind the others, which stay where they are. *)
LEMMA PutKeeps ==
  ASSUME NEW l \in LineType, NEW f \in FieldType
  PROVE  /\ InUse(Put(l, f)) = InUse(l) \cup {f}
         /\ Put(l, f).used = l.used + f.width
<1>1. CASE l.heap = NoHeap
  <2>1. /\ Put(l, f).stack = l.stack \cup {f} /\ Put(l, f).used = l.used + f.width
        /\ Put(l, f).heap = l.heap
    BY <1>1 DEF Put, LineType
  <2>. QED
    BY <1>1, <2>1 DEF InUse
<1>2. CASE l.heap # NoHeap
  <2>1. Put(l, f).heap = l.heap \cup {f} /\ Put(l, f).used = l.used + f.width
    BY <1>2 DEF Put, LineType
  <2>. QED
    BY <1>2, <2>1 DEF InUse, NoHeap
<1>. QED
  BY <1>1, <1>2

(* So a line that << encoded an argument into holds one more. *)
LEMMA EncodeHolds ==
  ASSUME TypeOK, NEW l \in LineType, Writable(l), Neat(l), Fits(l),
         NEW a \in Args, NEW told \in Seq(Told), Holds(l, told),
         NEW g, g = Put(Grown(l, Needed(a)), Field(a, l.used)),
         NEW s, s = [text |-> a.text, kind |-> a.kind, shows |-> text[a.text]]
  PROVE  /\ Neat(g) /\ s \in Told /\ Holds(g, Append(told, s))
<1>. DEFINE f == Field(a, l.used)
<1>1. /\ a.kind \in Kinds /\ a.len \in Nat /\ a.text \in Texts
      /\ text[a.text] \in Nat /\ l.used \in Nat
  BY LineAssumption DEF Texts, TypeOK, LineType
<1>2. s \in Told
  BY <1>1 DEF Told
<1>3. f \in FieldType /\ f.at = l.used /\ f.width = Needed(a) /\ Needed(a) \in Nat \ {0}
  <2>1. f \in FieldType /\ f.at = l.used /\ f.width = Needed(a)
    BY <1>1, FieldTyped
  <2>. QED
    BY <2>1 DEF FieldType
<1>4. Has(f, s) /\ Skip(f) = f.width
  BY <1>1 DEF Has, Field, Skip, Width, Kinds
<1>. HIDE DEF f
<1>5. InUse(g) = InUse(l) \cup {f} /\ g.used = l.used + f.width
  <2>1. /\ Grown(l, Needed(a)) \in LineType
        /\ InUse(Grown(l, Needed(a))) = InUse(l) /\ Grown(l, Needed(a)).used = l.used
    BY <1>3, GrowthFits, GrowthKeeps
  <2>. QED
    BY <1>3, <2>1, PutKeeps DEF f
<1>6. \A h \in InUse(l) : h.at \in Nat /\ h.width \in Nat /\ h.at < l.used
  <2>1. \A h \in InUse(l) : h \in FieldType
    BY DEF InUse, LineType
  <2>. QED
    BY <2>1, FieldFound DEF FieldType
<1>7. Neat(g)
  <2>1. \A h \in InUse(g) : h.at + h.width <= g.used
    BY <1>1, <1>3, <1>5, <1>6 DEF Neat
  <2>2. \A h, k \in InUse(g) : h.at = k.at => h = k
    BY <1>1, <1>3, <1>5, <1>6 DEF Neat
  <2>. QED
    BY <2>1, <2>2 DEF Neat
<1>8. PICK fs : /\ Chain(l, fs) /\ Len(fs) = Len(told)
                /\ \A i \in 1..Len(told) : Has(fs[i], told[i])
  BY DEF Holds
<1>. DEFINE n == Len(fs)
            gs == Append(fs, f)
<1>9. fs \in Seq(FieldType) /\ n \in Nat
  BY <1>8 DEF Chain
<1>10. /\ gs \in Seq(FieldType) /\ Len(gs) = n + 1 /\ gs[n + 1] = f
       /\ \A i \in 1..n : gs[i] = fs[i]
  BY <1>3, <1>9
<1>. HIDE DEF gs
<1>11. \A i \in 1..(n + 1) : Behind(g, gs, i) = Behind(l, fs, i)
  <2>. SUFFICES ASSUME NEW i \in 1..(n + 1) PROVE Behind(g, gs, i) = Behind(l, fs, i)
    OBVIOUS
  <2>1. Behind(g, gs, i) = gs[i].at
    BY <1>9, <1>10 DEF Behind
  <2>2. CASE i = n + 1
    BY <1>3, <1>10, <2>1, <2>2 DEF Behind
  <2>3. CASE i # n + 1
    <3>1. i \in 1..n
      BY <1>9, <2>3
    <3>. QED
      BY <1>10, <2>1, <2>3, <3>1 DEF Behind
  <2>. QED
    BY <2>2, <2>3
<1>12. Behind(g, gs, (n + 1) + 1) = f.at + Skip(f)
  BY <1>3, <1>4, <1>5, <1>9, <1>10 DEF Behind
<1>13. Chain(g, gs)
  <2>1. Behind(g, gs, 1) = HeaderSize
    BY <1>8, <1>9, <1>11 DEF Chain
  <2>2. ASSUME NEW i \in 1..Len(gs)
        PROVE  gs[i] \in InUse(g) /\ Behind(g, gs, i + 1) = gs[i].at + Skip(gs[i])
    <3>1. CASE i = n + 1
      BY <1>5, <1>10, <1>12, <3>1
    <3>2. CASE i # n + 1
      <4>1. i \in 1..n /\ i + 1 \in 1..(n + 1)
        BY <1>9, <1>10, <3>2
      <4>. QED
        BY <1>5, <1>8, <1>10, <1>11, <4>1 DEF Chain
    <3>. QED
      BY <3>1, <3>2
  <2>. QED
    BY <1>10, <2>1, <2>2 DEF Chain
<1>14. /\ Len(Append(told, s)) = n + 1 /\ Append(told, s)[n + 1] = s
       /\ \A i \in 1..n : Append(told, s)[i] = told[i]
  BY <1>2, <1>8
<1>15. \A i \in 1..(n + 1) : Has(gs[i], Append(told, s)[i])
  <2>. SUFFICES ASSUME NEW i \in 1..(n + 1) PROVE Has(gs[i], Append(told, s)[i])
    OBVIOUS
  <2>1. i = n + 1 \/ i \in 1..n
    BY <1>9
  <2>. QED
    BY <1>4, <1>8, <1>10, <1>14, <2>1
<1>. QED
  BY <1>2, <1>7, <1>10, <1>13, <1>14, <1>15 DEF Holds

(* A line that is new holds nothing. *)
LEMMA BlankHolds == Neat(Blank) /\ Holds(Blank, <<>>)
<1>1. InUse(Blank) = {Header} /\ Blank.used = HeaderSize
  BY DEF Blank, InUse
<1>2. Neat(Blank)
  BY <1>1, LineAssumption DEF Neat, Header
<1>3. Chain(Blank, <<>>)
  BY <1>1 DEF Chain, Behind
<1>. QED
  BY <1>2, <1>3 DEF Holds

LEMMA ReadInvInit == Init => ReadInv
  BY LineAssumption DEF Init, ReadInv, Fixed

LEMMA ReadInvNext == LineInv /\ ReadInv /\ [Next]_vars => ReadInv'
<1>. SUFFICES ASSUME LineInv, ReadInv, [Next]_vars PROVE ReadInv'
  OBVIOUS
<1>0. TypeOK /\ line \in [Places -> LineType] /\ live \subseteq Places
  BY DEF LineInv, TypeOK
<1>1. CASE New
  <2>1. /\ line' = [line EXCEPT !["thread"] = Blank]
        /\ said' = [said EXCEPT !["thread"] = <<>>]
        /\ live' = live \cup {"thread"} /\ text' = text
    BY <1>1 DEF New
  <2>0. /\ line'["thread"] = Blank /\ said'["thread"] = <<>>
        /\ \A o \in Places \ {"thread"} : line'[o] = line[o] /\ said'[o] = said[o]
        /\ "thread" \in Places
    BY <1>0, <2>1 DEF ReadInv, Places
  <2>2. \A o \in live' : Neat(line'[o]) /\ Holds(line'[o], said'[o])
    BY <1>0, <2>0, <2>1, BlankHolds DEF ReadInv
  <2>3. said' \in [Places -> Seq(Told)]
    <3>1. <<>> \in Seq(Told)
      OBVIOUS
    <3>. QED
      BY <2>1, <3>1 DEF ReadInv
  <2>4. \A o \in Places : \A i \in DOMAIN said'[o] : SaidFixed(said'[o][i])
    BY <2>1 DEF ReadInv
  <2>5. \A t \in Texts : Fixed(t)'
    BY <2>1 DEF ReadInv, Fixed
  <2>. QED
    BY <2>2, <2>3, <2>4, <2>5 DEF ReadInv
<1>2. ASSUME NEW a \in Args, Encode(a) PROVE ReadInv'
  <2>. DEFINE l == line["thread"]
              told == said["thread"]
              g == Put(Grown(l, Needed(a)), Field(a, l.used))
              s == [text |-> a.text, kind |-> a.kind, shows |-> text[a.text]]
  <2>1. /\ "thread" \in live /\ "thread" \in Places
        /\ line' = [line EXCEPT !["thread"] = g]
        /\ said' = [said EXCEPT !["thread"] = Append(told, s)]
        /\ live' = live /\ text' = text
    BY <1>2 DEF Encode, Places
  <2>2. /\ l \in LineType /\ Writable(l) /\ Neat(l) /\ Fits(l)
        /\ told \in Seq(Told) /\ Holds(l, told)
    BY <1>0, <2>1 DEF ReadInv, LineInv
  <2>. HIDE DEF l, told
  <2>3. Neat(g) /\ s \in Told /\ Holds(g, Append(told, s))
    BY <1>0, <2>2, EncodeHolds
  <2>4. SaidFixed(s)
    <3>1. a.text \in Texts
      BY DEF Texts
    <3>. QED
      BY <3>1 DEF ReadInv, Fixed, SaidFixed
  <2>. HIDE DEF g, s
  <2>5. Append(told, s) \in Seq(Told)
    BY <2>2, <2>3
  <2>6. \A o \in live' : Neat(line'[o]) /\ Holds(line'[o], said'[o])
    BY <1>0, <2>1, <2>3 DEF ReadInv
  <2>7. said' \in [Places -> Seq(Told)]
    BY <2>1, <2>5 DEF ReadInv
  <2>8. \A o \in Places : \A i \in DOMAIN said'[o] : SaidFixed(said'[o][i])
    <3>. SUFFICES ASSUME NEW o \in Places, NEW i \in DOMAIN said'[o] PROVE SaidFixed(said'[o][i])
      OBVIOUS
    <3>1. CASE o = "thread"
      <4>1. said'[o] = Append(told, s)
        BY <2>1, <3>1 DEF ReadInv
      <4>2. \A k \in DOMAIN Append(told, s) :
              Append(told, s)[k] = s \/ (k \in DOMAIN told /\ Append(told, s)[k] = told[k])
        BY <2>2, <2>3
      <4>3. \A k \in DOMAIN told : SaidFixed(told[k])
        BY <3>1 DEF ReadInv, told
      <4>. QED
        BY <2>4, <4>1, <4>2, <4>3
    <3>2. CASE o # "thread"
      BY <2>1, <3>2 DEF ReadInv
    <3>. QED
      BY <3>1, <3>2
  <2>9. \A t \in Texts : Fixed(t)'
    BY <2>1 DEF ReadInv, Fixed
  <2>. QED
    BY <2>6, <2>7, <2>8, <2>9 DEF ReadInv
<1>3. ASSUME NEW from \in Places, NEW to \in Places, from # to, Move(from, to)
      PROVE  ReadInv'
  <2>1. /\ from \in live /\ live' = (live \ {from}) \cup {to} /\ text' = text
        /\ line'[to] = line[from] /\ said'[to] = said[from]
        /\ \A o \in Places \ {from, to} : line'[o] = line[o]
        /\ \A o \in Places \ {to} : said'[o] = said[o]
        /\ said' \in [Places -> Seq(Told)]
    BY <1>0, <1>3 DEF Move, ReadInv
  <2>2. \A o \in live' : Neat(line'[o]) /\ Holds(line'[o], said'[o])
    BY <1>0, <2>1 DEF ReadInv
  <2>3. \A o \in Places : \A i \in DOMAIN said'[o] : SaidFixed(said'[o][i])
    BY <2>1 DEF ReadInv
  <2>4. \A t \in Texts : Fixed(t)'
    BY <2>1 DEF ReadInv, Fixed
  <2>. QED
    BY <2>1, <2>2, <2>3, <2>4 DEF ReadInv
<1>4. CASE Stringify
  BY <1>4 DEF Stringify, ReadInv, Fixed
<1>5. ASSUME NEW t \in Mutable, Change(t) PROVE ReadInv'
  <2>1. \A u \in Texts : Fixed(u)'
    BY <1>0, <1>5 DEF Change, ReadInv, Fixed, TypeOK
  <2>. QED
    BY <1>5, <2>1 DEF Change, ReadInv
<1>6. CASE UNCHANGED vars
  BY <1>6 DEF vars, ReadInv, Fixed
<1>. QED
  BY <1>1, <1>2, <1>3, <1>4, <1>5, <1>6 DEF Next, Push, TryPop, Places

(* Wherever a line is, stringify() reads back the arguments that were logged *)
(* into it, each once and in their order, however often the buffer grew.     *)
THEOREM ArgumentsReadBack == Spec => []ReadsBack
<1>1. LineInv /\ ReadInv /\ [Next]_vars => (LineInv /\ ReadInv)'
  BY LineInvNext, ReadInvNext
<1>. QED
  BY LineInvInit, ReadInvInit, <1>1, ReadsBackSuffices, PTL DEF Spec

-------------------------------------------------------------------------------
(* What was printed stays what was meant. *)
Out == Texts \X (Nat \cup {Address})

PrintInv ==
  /\ printed \in Seq([said : Seq(Told), out : Seq(Out)])
  /\ PrintsCopies

(* What comes of printing a line, with the texts as they are by then. *)
LEMMA PrintedRight ==
  ASSUME LineInv, ReadInv, NEW o \in live
  PROVE  LET out == [i \in DOMAIN Fields(line[o]) |-> Shown(Fields(line[o])[i])]
         IN  /\ out \in Seq(Out) /\ Len(out) = Len(said[o])
             /\ \A i \in DOMAIN said[o] :
                  said[o][i].kind # "array" \/ said[o][i].text \notin Mutable =>
                    out[i] = <<said[o][i].text, said[o][i].shows>>
<1>. DEFINE told == said[o]
            out == [i \in DOMAIN Fields(line[o]) |-> Shown(Fields(line[o])[i])]
<1>1. o \in Places /\ line[o] \in LineType /\ told \in Seq(Told)
  BY DEF LineInv, TypeOK, ReadInv
<1>2. PICK fs : /\ Chain(line[o], fs) /\ Len(fs) = Len(told)
                /\ \A i \in 1..Len(told) : Has(fs[i], told[i])
  BY DEF ReadInv, Holds
<1>3. Fields(line[o]) = fs /\ fs \in Seq(FieldType)
  BY <1>1, <1>2, ReadBack DEF ReadInv, Chain
<1>4. out = [i \in 1..Len(told) |-> Shown(fs[i])]
  BY <1>2, <1>3
<1>. HIDE DEF out
<1>5. ASSUME NEW i \in 1..Len(told)
      PROVE  /\ Shown(fs[i]) \in Out
             /\ told[i].kind # "array" \/ told[i].text \notin Mutable =>
                  Shown(fs[i]) = <<told[i].text, told[i].shows>>
  <2>1. told[i] \in Told /\ Has(fs[i], told[i])
    BY <1>1, <1>2
  <2>2. told[i].text \in Texts /\ told[i].shows \in Nat
    BY <2>1 DEF Told
  <2>3. text[told[i].text] \in Nat
    BY <2>2, LineAssumption DEF LineInv, TypeOK
  <2>4. CASE told[i].kind = "array"
    <3>1. Shown(fs[i]) = <<told[i].text, text[told[i].text]>>
      BY <2>1, <2>4 DEF Has, Shown
    <3>2. told[i].text \notin Mutable => text[told[i].text] = 0 /\ told[i].shows = 0
      <4>1. i \in DOMAIN said[o]
        BY <1>1
      <4>. QED
        BY <1>1, <2>2, <4>1 DEF ReadInv, Fixed, SaidFixed
    <3>. QED
      BY <2>2, <2>3, <2>4, <3>1, <3>2 DEF Out
  <2>5. CASE told[i].kind # "array"
    BY <2>1, <2>2, <2>5 DEF Has, Shown, Out
  <2>. QED
    BY <2>4, <2>5
<1>6. out \in Seq(Out) /\ Len(out) = Len(told)
  BY <1>1, <1>4, <1>5
<1>7. DOMAIN told = 1..Len(told)
  BY <1>1
<1>. QED
  BY <1>4, <1>5, <1>6, <1>7 DEF out

LEMMA PrintInvNext == LineInv /\ ReadInv /\ PrintInv /\ [Next]_vars => PrintInv'
<1>. SUFFICES ASSUME LineInv, ReadInv, PrintInv, [Next]_vars PROVE PrintInv'
  OBVIOUS
<1>1. CASE Stringify
  <2>. DEFINE told == said["worker"]
              out == [i \in DOMAIN Fields(line["worker"]) |-> Shown(Fields(line["worker"])[i])]
              p == [said |-> told, out |-> out]
  <2>1. "worker" \in live /\ printed' = Append(printed, p)
    BY <1>1 DEF Stringify
  <2>2. told \in Seq(Told)
    BY DEF ReadInv, Places
  <2>3. /\ out \in Seq(Out) /\ Len(out) = Len(told)
        /\ \A i \in DOMAIN told :
             told[i].kind # "array" \/ told[i].text \notin Mutable =>
               out[i] = <<told[i].text, told[i].shows>>
    BY <2>1, PrintedRight
  <2>. HIDE DEF told, out
  <2>4. p \in [said : Seq(Told), out : Seq(Out)] /\ p.said = told /\ p.out = out
    BY <2>2, <2>3
  <2>. HIDE DEF p
  <2>5. \A n \in DOMAIN printed' :
          printed'[n] = p \/ (n \in DOMAIN printed /\ printed'[n] = printed[n])
    BY <2>1, <2>4 DEF PrintInv
  <2>6. printed' \in Seq([said : Seq(Told), out : Seq(Out)])
    BY <2>1, <2>4 DEF PrintInv
  <2>. DEFINE Right(q) == /\ Len(q.out) = Len(q.said)
                          /\ \A i \in DOMAIN q.said :
                               q.said[i].kind # "array" \/ q.said[i].text \notin Mutable =>
                                 q.out[i] = <<q.said[i].text, q.said[i].shows>>
  <2>7. Right(p)
    BY <2>3, <2>4
  <2>8. \A n \in DOMAIN printed : Right(printed[n])
    BY DEF PrintInv, PrintsCopies
  <2>. HIDE DEF Right
  <2>9. \A n \in DOMAIN printed' : Right(printed'[n])
    BY <2>5, <2>7, <2>8
  <2>10. PrintsCopies'
    BY <2>9 DEF PrintsCopies, Right
  <2>. QED
    BY <2>6, <2>10 DEF PrintInv
<1>2. CASE UNCHANGED printed
  BY <1>2 DEF PrintInv, PrintsCopies
<1>. QED
  BY <1>1, <1>2 DEF Next, New, Push, TryPop, Move, Encode, Change, vars

(* However late a line is printed, its copies show what they showed when it  *)
(* was logged, and so do arrays that are never changed.                      *)
THEOREM CopiesArePrinted == Spec => []PrintsCopies
<1>1. Init => PrintInv
  BY DEF Init, PrintInv, PrintsCopies
<1>2. LineInv /\ ReadInv /\ PrintInv /\ [Next]_vars => (LineInv /\ ReadInv /\ PrintInv)'
  BY LineInvNext, ReadInvNext, PrintInvNext
<1>3. PrintInv => PrintsCopies
  BY DEF PrintInv
<1>. QED
  BY LineInvInit, ReadInvInit, <1>1, <1>2, <1>3, PTL DEF Spec
================================================================================
