-------------------------------- MODULE LogLine --------------------------------
(***************************************************************************)
(* A log line (logline.h, logline.cpp) from its construction by a logging  *)
(* thread to its formatting by the worker.  Arguments are encoded one      *)
(* after the other into the line's buffer: 224 bytes inside the object,    *)
(* and on the heap once they do not suffice.  The line is moved into an    *)
(* item of a buffer and from there into the worker's own line, and read    *)
(* back only there.                                                        *)
(*                                                                         *)
(* The contents of a buffer are the set of the fields written to it, each  *)
(* at its offset and as wide as its bytes.  Of the data only what the      *)
(* field shows is kept: a text and which of its successive contents.       *)
(***************************************************************************)
EXTENDS Integers, Sequences

CONSTANTS
  StackSize,   \* STACK_BUFFER_SIZE, 224
  HeapMin,     \* the least heap buffer, 512
  HeaderSize,  \* bytes the constructor writes, 37
  PointerSize, \* bytes of a pointer and of a size_t, 8
  Args,        \* the arguments that are logged
  Mutable,     \* the texts among them that the program may change later
  MaxLines,    \* bound: lines that are built
  MaxArgs,     \* bound: arguments of a line
  MaxChanges   \* bound: changes of each text

(* CHAR to DOUBLE are "value"s of `len' bytes; "array" is an argument of     *)
(* array type, of which the line keeps the address; "string" is a            *)
(* std::string or a char pointer, of which it copies `len' bytes.            *)
Kinds == {"value", "array", "string"}

Texts == {a.text : a \in Args}

ASSUME LineAssumption ==
  /\ StackSize \in Nat /\ HeapMin \in Nat /\ StackSize <= HeapMin
  /\ HeaderSize \in 1..StackSize
  /\ PointerSize \in Nat \ {0}
  /\ \A a \in Args : a.kind \in Kinds /\ a.len \in Nat
  /\ Mutable \subseteq Texts
  /\ MaxLines \in Nat /\ MaxArgs \in Nat /\ MaxChanges \in Nat

(* The LogLines a line passes through: the temporary of the logging thread,  *)
(* an item of the buffer and the local variable of the worker.               *)
Places == {"thread", "item", "worker"}

VARIABLES
  line,     \* line[o]: the members of the LogLine at o
  live,     \* the places whose LogLine is still to be used
  text,     \* text[t]: which of its contents t has now
  said,     \* history: said[o]: what the arguments of the line at o showed
  printed,  \* history: for each stringify() what was meant and what came out
  lines     \* the number of lines built so far

vars == <<line, live, text, said, printed, lines>>

(* A null m_heapBuffer; one in use holds the header at least. *)
NoHeap == {}

(* LogLine::LogLine writes six fields of fixed width, here one. *)
Header == [at |-> 0, width |-> HeaderSize, kind |-> "header", len |-> 0,
           text |-> "header", shows |-> 0]

Blank == [used |-> HeaderSize, size |-> StackSize, heap |-> NoHeap,
          stack |-> {Header}]

Init ==
  /\ line = [o \in Places |-> Blank]
  /\ live = {}
  /\ text = [t \in Texts |-> 0]
  /\ said = [o \in Places |-> <<>>]
  /\ printed = <<>>
  /\ lines = 0

Larger(m, n) == IF m < n THEN n ELSE m

(* memcpy of the first n bytes. *)
FirstBytes(fields, n) == {f \in fields : f.at + f.width <= n}

-------------------------------------------------------------------------------
(* Slips that the properties below catch.  No action uses them: to put one   *)
(* in the place of the definition it is named after shows that the property  *)
(* named with it is violated.                                                *)

(* TypeOK: the first heap buffer is as large as needed and no larger. *)
GrownStackTight(l, required) ==
  [l EXCEPT !.size = required, !.heap = FirstBytes(l.stack, l.used)]

(* WithinBuffer: the byte of the ArgType is forgotten. *)
NeededUntagged(a) ==
  CASE a.kind = "value"  -> a.len
    [] a.kind = "array"  -> PointerSize
    [] a.kind = "string" -> PointerSize + a.len

(* PrintsCopies: strings are read when they are printed. *)
ShownLate(f) == <<f.text, text[f.text]>>

(* ReadsBack: what was moved from is used again. *)
MoveAndKeep(from, to) ==
  /\ from \in live
  /\ line' = [line EXCEPT ![to] = line[from], ![from] = [line[from] EXCEPT !.heap = NoHeap]]
  /\ said' = [said EXCEPT ![to] = said[from]]
  /\ live' = live \cup {to}
  /\ UNCHANGED <<text, printed, lines>>

-------------------------------------------------------------------------------
(* Encoding. *)

(* The bytes the encode functions write: the ArgType and the argument. *)
Width(a) ==
  1 + CASE a.kind = "value"  -> a.len
        [] a.kind = "array"  -> PointerSize
        [] a.kind = "string" -> PointerSize + a.len

(* The bytes they ask for before they write. *)
Needed(a) ==
  1 + CASE a.kind = "value"  -> a.len
        [] a.kind = "array"  -> PointerSize
        [] a.kind = "string" -> PointerSize + a.len

(* resizeBufferIfNeeded *)
GrownStack(l, required) ==
  [l EXCEPT !.size = Larger(HeapMin, required),
            !.heap = FirstBytes(l.stack, l.used)]

GrownHeap(l, required) ==
  [l EXCEPT !.size = Larger(2 * l.size, required),
            !.heap = FirstBytes(l.heap, l.used)]

Grown(l, additional) ==
  LET required == l.used + additional
  IN  IF required <= l.size THEN l
      ELSE IF l.heap = NoHeap THEN GrownStack(l, required)
      ELSE GrownHeap(l, required)

(* A copy shows the text as it was; an address what is there when it is read. *)
Address == -1
Field(a, at) ==
  [at |-> at, width |-> Width(a), kind |-> a.kind, len |-> a.len,
   text |-> a.text, shows |-> IF a.kind = "array" THEN Address ELSE text[a.text]]

(* The field is written at buffer(), in whichever buffer is in use. *)
Put(l, f) ==
  IF l.heap = NoHeap
    THEN [l EXCEPT !.stack = @ \cup {f}, !.used = @ + f.width]
    ELSE [l EXCEPT !.heap = @ \cup {f}, !.used = @ + f.width]

-------------------------------------------------------------------------------
(* Formatting. *)

(* How far stringify() goes on after a field of this kind. *)
Skip(f) ==
  1 + CASE f.kind = "value"  -> f.len
        [] f.kind = "array"  -> PointerSize
        [] f.kind = "string" -> PointerSize + f.len
        [] OTHER -> 0

(* What is at offset b, if anything sensible. *)
Garbage == [Header EXCEPT !.kind = "garbage"]
FieldAt(fields, b) ==
  IF \E f \in fields : f.at = b
    THEN CHOOSE f \in fields : f.at = b
    ELSE Garbage

(* The loop of stringify(), from behind the header to m_bytesUsed. *)
Fields(l) ==
  LET fields == IF l.heap = NoHeap THEN l.stack ELSE l.heap
      from[b \in Nat] ==
        IF b >= l.used THEN <<>>
        ELSE <<FieldAt(fields, b)>> \o from[b + Skip(FieldAt(fields, b))]
  IN  from[HeaderSize]

Shown(f) ==
  IF f.kind = "array" THEN <<f.text, text[f.text]>> ELSE <<f.text, f.shows>>

-------------------------------------------------------------------------------
(* A logging statement: LOG builds the line, ... *)
New ==
  /\ "thread" \notin live
  /\ lines < MaxLines
  /\ line' = [line EXCEPT !["thread"] = Blank]
  /\ said' = [said EXCEPT !["thread"] = <<>>]
  /\ live' = live \cup {"thread"}
  /\ lines' = lines + 1
  /\ UNCHANGED <<text, printed>>

(* ... each << encodes an argument ... *)
Encode(a) ==
  /\ "thread" \in live
  /\ Len(said["thread"]) < MaxArgs
  /\ line' = [line EXCEPT !["thread"] = Put(Grown(@, Needed(a)), Field(a, @.used))]
  /\ said' = [said EXCEPT !["thread"] =
                Append(@, [text |-> a.text, kind |-> a.kind, shows |-> text[a.text]])]
  /\ UNCHANGED <<live, text, printed, lines>>

(* The defaulted move of a LogLine: the heap buffer is handed over, all the *)
(* rest is copied and stays behind.                                         *)
MovedFrom(l) == [l EXCEPT !.heap = NoHeap]

Move(from, to) ==
  /\ from \in live
  /\ line' = [line EXCEPT ![to] = line[from], ![from] = MovedFrom(line[from])]
  /\ said' = [said EXCEPT ![to] = said[from]]
  /\ live' = (live \ {from}) \cup {to}
  /\ UNCHANGED <<text, printed, lines>>

(* ... and push() moves it into an item, whatever that holds. *)
Push == Move("thread", "item")

(* tryPop() moves the item into the worker's line. *)
TryPop == Move("item", "worker")

(* FileWriter::write formats it, once for each output. *)
Stringify ==
  /\ "worker" \in live
  /\ Len(printed) < 2 * MaxLines
  /\ printed' = Append(printed,
       [said |-> said["worker"],
        out |-> [i \in DOMAIN Fields(line["worker"]) |->
                   Shown(Fields(line["worker"])[i])]])
  /\ UNCHANGED <<line, live, text, said, lines>>

(* The program writes to one of its texts, or its memory is used anew. *)
Change(t) ==
  /\ text[t] < MaxChanges
  /\ text' = [text EXCEPT ![t] = @ + 1]
  /\ UNCHANGED <<line, live, said, printed, lines>>

Next ==
  \/ New \/ Push \/ TryPop \/ Stringify
  \/ \E a \in Args : Encode(a)
  \/ \E t \in Mutable : Change(t)

Spec == Init /\ [][Next]_vars

-------------------------------------------------------------------------------
(* Type invariant. *)
FieldType ==
  [at : Nat, width : Nat \ {0}, kind : Kinds \cup {"header"}, len : Nat,
   text : Texts \cup {"header"}, shows : Nat \cup {Address}]

(* A heap buffer is never smaller than HeapMin. *)
LineType ==
  [used : Nat, size : {StackSize} \cup {n \in Nat : n >= HeapMin},
   heap : SUBSET FieldType, stack : SUBSET FieldType]

TypeOK ==
  /\ line \in [Places -> LineType]
  /\ live \in SUBSET Places
  /\ text \in [Texts -> 0..MaxChanges]
  /\ lines \in 0..MaxLines

(* No write leaves its buffer: the object's 224 bytes, or the bytes that    *)
(* were allocated.  This holds for the lines a buffer moved out of, too.    *)
WithinBuffer ==
  \A o \in Places :
    /\ \A f \in line[o].stack : f.at + f.width <= StackSize
    /\ \A f \in line[o].heap : f.at + f.width <= line[o].size

(* Wherever a line is that is still to be used, stringify() would read back *)
(* every argument in its place, once: growing loses none, and no line is    *)
(* used after its heap buffer was moved away.                               *)
ReadsBack ==
  \A o \in live :
    /\ Len(Fields(line[o])) = Len(said[o])
    /\ \A i \in DOMAIN said[o] :
         /\ Fields(line[o])[i].kind = said[o][i].kind
         /\ Fields(line[o])[i].text = said[o][i].text

(* What is printed is what was logged, however late it is printed, except   *)
(* for arguments of array type that the program has changed since.          *)
PrintsCopies ==
  \A n \in DOMAIN printed :
    LET s == printed[n].said
    IN  /\ Len(printed[n].out) = Len(s)
        /\ \A i \in DOMAIN s :
             s[i].kind # "array" \/ s[i].text \notin Mutable =>
               printed[n].out[i] = <<s[i].text, s[i].shows>>
================================================================================
