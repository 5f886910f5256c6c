---------------------------- MODULE InductionProofs ----------------------------
(***************************************************************************)
(* Induction over the natural numbers as a fact about sets, and what it    *)
(* says of recursive functions on sequences.                               *)
(***************************************************************************)
EXTENDS SequencesExt, WellFoundedInduction, SequenceTheorems, TLAPS

(* A set of numbers that is not empty has a least element ... *)
LEMMA LeastNumber ==
  ASSUME NEW T, T \subseteq Nat, T # {}
  PROVE  \E m \in T : \A n \in T : m <= n
<1>. DEFINE R == OpToRel(<, Nat)
<1>1. IsWellFoundedOn(R, Nat)
  BY NatLessThanWellFounded
<1>. HIDE DEF R
<1>2. PICK m \in T : \A n \in T : ~(<<n, m>> \in R)
  BY <1>1, WFMin
<1>3. \A i, j \in Nat : <<i, j>> \in R <=> i < j
  BY DEF R, OpToRel
<1>4. \A n \in T : m \in Nat /\ n \in Nat /\ ~(n < m)
  BY <1>2, <1>3
<1>. QED
  BY <1>4

(* ... so that a set with 0 that is closed under + 1 has all of them. *)
LEMMA SetInduction ==
  ASSUME NEW S, 0 \in S, \A n \in Nat : n \in S => n + 1 \in S
  PROVE  \A n \in Nat : n \in S
<1>. DEFINE T == {n \in Nat : n \notin S}
<1>. SUFFICES ASSUME T # {} PROVE FALSE
  OBVIOUS
<1>1. PICK m \in T : \A n \in T : m <= n
  BY LeastNumber
<1>2. m \in Nat /\ m # 0 /\ m - 1 \in Nat /\ m - 1 \notin T
  BY <1>1
<1>3. (m - 1) + 1 \in S
  BY <1>2
<1>. QED
  BY <1>1, <1>3

-------------------------------------------------------------------------------
(* FlattenSeq: the function it defines exists, ... *)
Flattened(f, seqs, n) ==
  f = [i \in 1..n |-> IF i = 1 THEN seqs[i] ELSE f[i - 1] \o seqs[i]]

LEMMA FlattenedExists == ASSUME NEW seqs, NEW n \in Nat PROVE \E f : Flattened(f, seqs, n)
<1>. DEFINE S == {k \in Nat : \E f : Flattened(f, seqs, k)}
<1>1. 0 \in S
  <2>. DEFINE f == [i \in 1..0 |-> 0]
  <2>1. Flattened(f, seqs, 0)
    BY DEF Flattened
  <2>. QED
    BY <2>1
<1>2. ASSUME NEW k \in Nat, k \in S PROVE k + 1 \in S
  <2>1. PICK f : Flattened(f, seqs, k)
    BY <1>2
  <2>. DEFINE last == IF k = 0 THEN seqs[1] ELSE f[k] \o seqs[k + 1]
              g == [i \in 1..(k + 1) |-> IF i = k + 1 THEN last ELSE f[i]]
  <2>2. \A i \in 1..(k + 1) :
          g[i] = IF i = 1 THEN seqs[i] ELSE g[i - 1] \o seqs[i]
    <3>. SUFFICES ASSUME NEW i \in 1..(k + 1)
                  PROVE  g[i] = IF i = 1 THEN seqs[i] ELSE g[i - 1] \o seqs[i]
      OBVIOUS
    <3>1. i # 1 => g[i - 1] = f[i - 1]
      OBVIOUS
    <3>2. CASE i = k + 1
      BY <3>1, <3>2
    <3>3. CASE i # k + 1
      <4>1. i \in 1..k /\ g[i] = f[i]
        BY <3>3
      <4>2. f[i] = IF i = 1 THEN seqs[i] ELSE f[i - 1] \o seqs[i]
        BY <2>1, <4>1 DEF Flattened
      <4>. QED
        BY <3>1, <4>1, <4>2
    <3>. QED
      BY <3>2, <3>3
  <2>3. g = [i \in 1..(k + 1) |-> g[i]]
    OBVIOUS
  <2>. HIDE DEF g
  <2>4. Flattened(g, seqs, k + 1)
    BY <2>2, <2>3 DEF Flattened
  <2>. QED
    BY <2>4
<1>. HIDE DEF S
<1>3. n \in S
  BY <1>1, <1>2, SetInduction
<1>. QED
  BY <1>3 DEF S

(* ... FlattenSeq uses such a function, ... *)
LEMMA FlattenIs ==
  ASSUME NEW seqs, Len(seqs) \in Nat \ {0}
  PROVE  \E f : Flattened(f, seqs, Len(seqs)) /\ FlattenSeq(seqs) = f[Len(seqs)]
<1>. DEFINE n == Len(seqs)
            f == CHOOSE g : Flattened(g, seqs, n)
<1>1. Flattened(f, seqs, n)
  BY FlattenedExists
<1>2. FlattenSeq(seqs) = f[n]
  BY DEF FlattenSeq, Flattened
<1>. QED
  BY <1>1, <1>2

LEMMA FlattenedAt ==
  ASSUME NEW f, NEW seqs, NEW n \in Nat, Flattened(f, seqs, n), NEW i \in 1..n
  PROVE  f[i] = IF i = 1 THEN seqs[i] ELSE f[i - 1] \o seqs[i]
  BY DEF Flattened

(* ... and it is the same for sequences that begin in the same way. *)
LEMMA FlattenedUnique ==
  ASSUME NEW f, NEW g, NEW seqs, NEW others, NEW n \in Nat, NEW m \in Nat, n <= m,
         Flattened(f, seqs, n), Flattened(g, others, m),
         \A i \in 1..n : seqs[i] = others[i]
  PROVE  \A i \in 1..n : f[i] = g[i]
<1>. DEFINE S == {k \in Nat : k \in 1..n => f[k] = g[k]}
<1>1. 0 \in S
  OBVIOUS
<1>2. ASSUME NEW k \in Nat, k \in S PROVE k + 1 \in S
  <2>. SUFFICES ASSUME k + 1 \in 1..n PROVE f[k + 1] = g[k + 1]
    OBVIOUS
  <2>1. f[k + 1] = IF k + 1 = 1 THEN seqs[k + 1] ELSE f[(k + 1) - 1] \o seqs[k + 1]
    BY FlattenedAt
  <2>2. g[k + 1] = IF k + 1 = 1 THEN others[k + 1] ELSE g[(k + 1) - 1] \o others[k + 1]
    <3>1. k + 1 \in 1..m
      OBVIOUS
    <3>. QED
      BY <3>1, FlattenedAt
  <2>3. k + 1 # 1 => f[k] = g[k] /\ (k + 1) - 1 = k
    BY <1>2
  <2>. QED
    BY <2>1, <2>2, <2>3
<1>. HIDE DEF S
<1>3. \A k \in Nat : k \in S
  BY <1>1, <1>2, SetInduction
<1>. QED
  BY <1>3 DEF S

(* No sequences, and one more sequence. *)
LEMMA FlattenEmpty == FlattenSeq(<<>>) = <<>>
  BY DEF FlattenSeq

LEMMA FlattenAppend ==
  ASSUME NEW S, NEW seqs \in Seq(Seq(S)), NEW e \in Seq(S)
  PROVE  FlattenSeq(Append(seqs, e)) = FlattenSeq(seqs) \o e
<1>. DEFINE t == Append(seqs, e)
            n == Len(seqs)
<1>1. /\ n \in Nat /\ Len(t) = n + 1 /\ t[n + 1] = e
      /\ \A i \in 1..n : seqs[i] = t[i]
  OBVIOUS
<1>. HIDE DEF t
<1>2. PICK g : Flattened(g, t, n + 1) /\ FlattenSeq(t) = g[n + 1]
  BY <1>1, FlattenIs
<1>3. g[n + 1] = IF n + 1 = 1 THEN e ELSE g[(n + 1) - 1] \o e
  <2>1. n + 1 \in 1..(n + 1)
    BY <1>1
  <2>. QED
    BY <1>1, <1>2, <2>1 DEF Flattened
<1>4. CASE n = 0
  <2>1. seqs = <<>> /\ <<>> \o e = e
    BY <1>4, ConcatEmptySeq
  <2>. QED
    BY <1>2, <1>3, <1>4, <2>1, FlattenEmpty DEF t
<1>5. CASE n # 0
  <2>1. PICK f : Flattened(f, seqs, n) /\ FlattenSeq(seqs) = f[n]
    BY <1>1, <1>5, FlattenIs
  <2>2. \A i \in 1..n : f[i] = g[i]
    <3>1. n \in Nat /\ n + 1 \in Nat /\ n <= n + 1
      BY <1>1
    <3>2. \A i \in 1..n : seqs[i] = t[i]
      BY <1>1
    <3>3. Flattened(f, seqs, n) /\ Flattened(g, t, n + 1)
      BY <1>2, <2>1
    <3>. HIDE DEF n
    <3>. QED
      BY <3>1, <3>2, <3>3, FlattenedUnique
  <2>3. f[n] = g[n] /\ (n + 1) - 1 = n /\ n + 1 # 1
    BY <1>1, <1>5, <2>2
  <2>. QED
    BY <1>2, <1>3, <2>1, <2>3 DEF t
<1>. QED
  BY <1>4, <1>5

(* A sequence is its first elements and the last one. *)
LEMMA SeqIsAppend ==
  ASSUME NEW S, NEW seq \in Seq(S), seq # <<>>
  PROVE  /\ Front(seq) \in Seq(S) /\ Len(Front(seq)) = Len(seq) - 1
         /\ \A i \in 1..(Len(seq) - 1) : Front(seq)[i] = seq[i]
         /\ seq[Len(seq)] \in S
         /\ seq = Append(Front(seq), seq[Len(seq)])
<1>. DEFINE n == Len(seq)
            s == SubSeq(seq, 1, n - 1)
<1>1. n \in Nat \ {0} /\ \A i \in 1..n : seq[i] \in S
  OBVIOUS
<1>2. /\ s \in Seq(S) /\ Len(s) = n - 1
      /\ \A i \in 1..(n - 1) : s[i] = seq[i]
  <2>1. \A i \in 1..(n - 1) : seq[i] \in S
    BY <1>1
  <2>2. /\ s \in Seq(S)
        /\ Len(s) = IF 1 <= n - 1 THEN (n - 1) - 1 + 1 ELSE 0
        /\ \A i \in 1..((n - 1) - 1 + 1) : s[i] = seq[1 + i - 1]
    BY <1>1, <2>1, SubSeqProperties
  <2>. HIDE DEF s, n
  <2>3. Len(s) = n - 1 /\ (n - 1) - 1 + 1 = n - 1
    BY <1>1, <2>2
  <2>4. \A i \in 1..(n - 1) : s[i] = seq[i]
    <3>. SUFFICES ASSUME NEW i \in 1..(n - 1) PROVE s[i] = seq[i]
      OBVIOUS
    <3>1. 1 + i - 1 = i /\ i \in 1..((n - 1) - 1 + 1)
      BY <1>1
    <3>2. s[i] = seq[1 + i - 1]
      BY <2>2, <3>1
    <3>. QED
      BY <3>1, <3>2
  <2>. QED
    BY <2>2, <2>3, <2>4
<1>. HIDE DEF s
<1>3. seq = Append(s, seq[n])
  <2>1. /\ Append(s, seq[n]) \in Seq(S) /\ Len(Append(s, seq[n])) = n
        /\ \A i \in 1..n : Append(s, seq[n])[i] = seq[i]
    BY <1>1, <1>2
  <2>. QED
    BY <2>1, SeqEqual
<1>. QED
  BY <1>1, <1>2, <1>3 DEF s, Front

LEMMA FrontOfAppend ==
  ASSUME NEW S, NEW seq \in Seq(S), NEW e \in S
  PROVE  Front(Append(seq, e)) = seq
<1>1. Append(seq, e) \in Seq(S) /\ Append(seq, e) # <<>>
      /\ Len(Append(seq, e)) = Len(seq) + 1 /\ Len(seq) \in Nat
  OBVIOUS
<1>2. /\ Front(Append(seq, e)) \in Seq(S) /\ Len(Front(Append(seq, e))) = Len(seq)
      /\ \A i \in 1..Len(seq) : Front(Append(seq, e))[i] = seq[i]
  <2>. DEFINE t == Append(seq, e)
  <2>1. \A i \in 1..Len(seq) : t[i] = seq[i]
    OBVIOUS
  <2>. HIDE DEF t
  <2>2. t \in Seq(S) /\ t # <<>> /\ Len(t) - 1 = Len(seq)
    BY <1>1 DEF t
  <2>3. /\ Front(t) \in Seq(S) /\ Len(Front(t)) = Len(t) - 1
        /\ \A i \in 1..(Len(t) - 1) : Front(t)[i] = t[i]
    BY <2>2, SeqIsAppend
  <2>4. Front(t) \in Seq(S) /\ Len(Front(t)) = Len(seq) /\ \A i \in 1..Len(seq) : Front(t)[i] = seq[i]
    BY <2>1, <2>2, <2>3
  <2>. QED
    BY <2>4 DEF t
<1>. QED
  BY <1>2, SeqEqual

(* What the sequences hold is what the flattened sequence holds, ... *)
LEMMA FlattenTyped ==
  ASSUME NEW S, NEW seqs \in Seq(Seq(S)) PROVE FlattenSeq(seqs) \in Seq(S)
<1>. DEFINE T == {n \in Nat : \A s \in Seq(Seq(S)) : Len(s) = n => FlattenSeq(s) \in Seq(S)}
<1>1. 0 \in T
  <2>1. \A s \in Seq(Seq(S)) : Len(s) = 0 => s = <<>>
    OBVIOUS
  <2>. QED
    BY <2>1, FlattenEmpty
<1>2. ASSUME NEW n \in Nat, n \in T PROVE n + 1 \in T
  <2>. SUFFICES ASSUME NEW s \in Seq(Seq(S)), Len(s) = n + 1 PROVE FlattenSeq(s) \in Seq(S)
    OBVIOUS
  <2>1. /\ Front(s) \in Seq(Seq(S)) /\ Len(Front(s)) = n
        /\ s[n + 1] \in Seq(S) /\ s = Append(Front(s), s[n + 1])
    <3>1. s # <<>> /\ (n + 1) - 1 = n
      OBVIOUS
    <3>. QED
      BY <3>1, SeqIsAppend
  <2>2. FlattenSeq(Front(s)) \in Seq(S)
    BY <1>2, <2>1
  <2>3. FlattenSeq(s) = FlattenSeq(Front(s)) \o s[n + 1]
    BY <2>1, FlattenAppend
  <2>. QED
    BY <2>1, <2>2, <2>3
<1>. HIDE DEF T
<1>3. Len(seqs) \in T
  BY <1>1, <1>2, SetInduction
<1>. QED
  BY <1>3 DEF T

(* ... and an element more at the end of the last is one more of it. *)
LEMMA FlattenGrown ==
  ASSUME NEW S, NEW seqs \in Seq(Seq(S)), NEW grown \in Seq(Seq(S)), NEW e \in S,
         seqs # <<>>, Len(grown) = Len(seqs),
         \A i \in 1..(Len(seqs) - 1) : grown[i] = seqs[i],
         grown[Len(seqs)] = Append(seqs[Len(seqs)], e)
  PROVE  FlattenSeq(grown) = Append(FlattenSeq(seqs), e)
<1>. DEFINE n == Len(seqs)
<1>1. /\ Front(seqs) \in Seq(Seq(S)) /\ Len(Front(seqs)) = n - 1
      /\ \A i \in 1..(n - 1) : Front(seqs)[i] = seqs[i]
      /\ seqs[n] \in Seq(S) /\ seqs = Append(Front(seqs), seqs[n])
  BY SeqIsAppend
<1>2. /\ Front(grown) \in Seq(Seq(S)) /\ Len(Front(grown)) = n - 1
      /\ \A i \in 1..(n - 1) : Front(grown)[i] = grown[i]
      /\ grown = Append(Front(grown), grown[n])
  <2>1. grown # <<>>
    OBVIOUS
  <2>. QED
    BY <2>1, SeqIsAppend
<1>3. Front(grown) = Front(seqs)
  <2>1. \A i \in 1..Len(Front(grown)) : Front(grown)[i] = Front(seqs)[i]
    BY <1>1, <1>2
  <2>. DEFINE T == Seq(S)
  <2>2. /\ Front(grown) \in Seq(T) /\ Front(seqs) \in Seq(T)
        /\ Len(Front(grown)) = Len(Front(seqs))
    BY <1>1, <1>2
  <2>. HIDE DEF T
  <2>. QED
    BY <2>1, <2>2, SeqEqual
<1>4. /\ FlattenSeq(seqs) = FlattenSeq(Front(seqs)) \o seqs[n]
      /\ FlattenSeq(grown) = FlattenSeq(Front(seqs)) \o Append(seqs[n], e)
  <2>1. Append(seqs[n], e) \in Seq(S)
    BY <1>1
  <2>. QED
    BY <1>1, <1>2, <1>3, <2>1, FlattenAppend
<1>5. FlattenSeq(Front(seqs)) \in Seq(S)
  BY <1>1, FlattenTyped
<1>6. \A a, b \in Seq(S) : a \o Append(b, e) = Append(a \o b, e)
  OBVIOUS
<1>. QED
  BY <1>1, <1>4, <1>5, <1>6

-------------------------------------------------------------------------------
(* The contents of the files 1..n, one after the other.  A file that is      *)
(* extended has one more piece at the end, if it is the last one, and an     *)
(* empty file adds none.                                                     *)
PiecesIn(files, n) == FlattenSeq([m \in 1..n |-> files[m]])

LEMMA FilesAreSeq ==
  ASSUME NEW S, NEW files, NEW n \in Nat, \A m \in 1..n : files[m] \in Seq(S)
  PROVE  /\ [m \in 1..n |-> files[m]] \in Seq(Seq(S))
         /\ Len([m \in 1..n |-> files[m]]) = n
  OBVIOUS

LEMMA PiecesTyped ==
  ASSUME NEW S, NEW files, NEW n \in Nat, \A m \in 1..n : files[m] \in Seq(S)
  PROVE  PiecesIn(files, n) \in Seq(S)
<1>. DEFINE s == [m \in 1..n |-> files[m]]
<1>1. s \in Seq(Seq(S))
  BY FilesAreSeq
<1>. QED
  BY <1>1, FlattenTyped DEF PiecesIn

LEMMA OneMorePiece ==
  ASSUME NEW S, NEW files, NEW others, NEW n \in Nat \ {0}, NEW p \in S,
         \A m \in 1..n : files[m] \in Seq(S),
         \A m \in 1..(n - 1) : others[m] = files[m],
         others[n] = Append(files[n], p)
  PROVE  PiecesIn(others, n) = Append(PiecesIn(files, n), p)
<1>. DEFINE s == [m \in 1..n |-> files[m]]
            t == [m \in 1..n |-> others[m]]
<1>0. n \in 1..n /\ Append(files[n], p) \in Seq(S)
  OBVIOUS
<1>1. ASSUME NEW m \in 1..n PROVE others[m] \in Seq(S)
  <2>1. m = n \/ m \in 1..(n - 1)
    OBVIOUS
  <2>. QED
    BY <1>0, <2>1
<1>2. /\ s \in Seq(Seq(S)) /\ t \in Seq(Seq(S))
      /\ Len(s) = n /\ Len(t) = n
  BY <1>1, FilesAreSeq
<1>3. t[n] = Append(s[n], p) /\ \A m \in 1..(n - 1) : t[m] = s[m]
  BY <1>0
<1>. HIDE DEF s, t
<1>4. /\ s # <<>> /\ Len(t) = Len(s) /\ t[Len(s)] = Append(s[Len(s)], p)
      /\ \A m \in 1..(Len(s) - 1) : t[m] = s[m]
  BY <1>2, <1>3
<1>5. FlattenSeq(t) = Append(FlattenSeq(s), p)
  BY <1>2, <1>4, FlattenGrown
<1>. QED
  BY <1>5 DEF PiecesIn, s, t

LEMMA OneMoreFile ==
  ASSUME NEW S, NEW files, NEW others, NEW n \in Nat,
         \A m \in 1..n : files[m] \in Seq(S),
         \A m \in 1..n : others[m] = files[m],
         others[n + 1] = <<>>
  PROVE  PiecesIn(others, n + 1) = PiecesIn(files, n)
<1>. DEFINE s == [m \in 1..n |-> files[m]]
            t == [m \in 1..(n + 1) |-> others[m]]
<1>1. s \in Seq(Seq(S)) /\ Len(s) = n
  BY FilesAreSeq
<1>2. <<>> \in Seq(S)
  OBVIOUS
<1>3. t = Append(s, <<>>)
  OBVIOUS
<1>. HIDE DEF s, t
<1>4. FlattenSeq(t) = FlattenSeq(s) \o <<>> /\ FlattenSeq(s) \in Seq(S)
  BY <1>1, <1>2, <1>3, FlattenAppend, FlattenTyped
<1>5. FlattenSeq(t) = FlattenSeq(s)
  BY <1>4, ConcatEmptySeq
<1>. QED
  BY <1>5 DEF PiecesIn, s, t

LEMMA NoFiles == \A files : PiecesIn(files, 0) = <<>>
<1>. SUFFICES ASSUME NEW files PROVE PiecesIn(files, 0) = <<>>
  OBVIOUS
<1>1. [m \in 1..0 |-> files[m]] = <<>>
  OBVIOUS
<1>. QED
  BY <1>1, FlattenEmpty DEF PiecesIn
===============================================================================
