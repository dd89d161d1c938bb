--------------------------- MODULE SequenceLemmas ---------------------------
(***************************************************************************)
(* Induction over the natural numbers, for sets, and what flattening a     *)
(* sequence of sequences preserves: what the proofs about loops over       *)
(* sequences rest on.                                                      *)
(***************************************************************************)
EXTENDS SequencesExt, SequenceTheorems, WellFoundedInduction, TLAPS

(* A set that 0 is in, and every successor, has all natural numbers: there *)
(* would be a least one missing.                                           *)
LEMMA SetInduction ==
  ASSUME NEW S, 0 \in S, \A n \in Nat : n \in S => n + 1 \in S
  PROVE  Nat \subseteq S
<1> DEFINE T == Nat \ S
           R == OpToRel(<, Nat)
<1> SUFFICES ASSUME T # {} PROVE FALSE
  OBVIOUS
<1>1. IsWellFoundedOn(R, Nat)
  BY NatLessThanWellFounded
<1>2. T \subseteq Nat
  OBVIOUS
<1> HIDE DEF T, R
<1>3. PICK m \in T : \A k \in T : <<k, m>> \notin R
  BY <1>1, <1>2, WFMin
<1>4. \A k \in T : ~(k < m)
  BY <1>2, <1>3 DEF R, OpToRel
<1>5. m \in Nat /\ m \notin S /\ m # 0
  BY DEF T
<1>6. m - 1 \in Nat /\ m - 1 < m /\ (m - 1) + 1 = m
  BY <1>5
<1>7. m - 1 \in S
  BY <1>4, <1>6 DEF T
<1> QED
  BY <1>5, <1>6, <1>7

-----------------------------------------------------------------------------
(* Flattening.  f[k] is what the first k of the sequences give.            *)
Flattening(f, seqs, n) ==
  /\ f[0] = <<>>
  /\ \A k \in 1..n : f[k] = f[k - 1] \o seqs[k]

(* What is put together from sequences over T is one.                      *)
LEMMA FlatteningTyped ==
  ASSUME NEW T, NEW n \in Nat, NEW seqs, NEW f, Flattening(f, seqs, n),
         \A k \in 1..n : seqs[k] \in Seq(T)
  PROVE  \A k \in 0..n : f[k] \in Seq(T)
<1> DEFINE S == {k \in Nat : k <= n => f[k] \in Seq(T)}
<1>1. 0 \in S
  BY EmptySeq DEF Flattening
<1>2. ASSUME NEW k \in Nat, k \in S PROVE k + 1 \in S
  <2>1. SUFFICES ASSUME k + 1 <= n PROVE f[k + 1] \in Seq(T)
    OBVIOUS
  <2>2. k + 1 \in 1..n /\ (k + 1) - 1 = k /\ k <= n
    BY <2>1
  <2>3. f[k + 1] = f[k] \o seqs[k + 1]
    BY <2>2 DEF Flattening
  <2>4. f[k] \in Seq(T) /\ seqs[k + 1] \in Seq(T)
    BY <1>2, <2>2
  <2> QED
    BY <2>3, <2>4, ConcatProperties
<1>3. Nat \subseteq S
  <2> HIDE DEF S
  <2> QED
    BY <1>1, <1>2, SetInduction
<1> QED
  BY <1>3

(* Two flattenings of the same sequences are the same sequence.            *)
LEMMA FlatteningUnique ==
  ASSUME NEW n \in Nat, NEW s, NEW t, NEW f, NEW g,
         Flattening(f, s, n), Flattening(g, t, n), \A k \in 1..n : s[k] = t[k]
  PROVE  f[n] = g[n]
<1> DEFINE S == {k \in Nat : k <= n => f[k] = g[k]}
<1>1. 0 \in S
  BY DEF Flattening
<1>2. ASSUME NEW k \in Nat, k \in S PROVE k + 1 \in S
  <2>1. SUFFICES ASSUME k + 1 <= n PROVE f[k + 1] = g[k + 1]
    OBVIOUS
  <2>2. k + 1 \in 1..n /\ (k + 1) - 1 = k /\ k <= n
    BY <2>1
  <2>3. f[k + 1] = f[k] \o s[k + 1] /\ g[k + 1] = g[k] \o t[k + 1]
    BY <2>2 DEF Flattening
  <2> QED
    BY <1>2, <2>2, <2>3
<1>3. Nat \subseteq S
  <2> HIDE DEF S
  <2> QED
    BY <1>1, <1>2, SetInduction
<1> QED
  BY <1>3

(* FlattenSeq is a flattening: the recursion is well founded.              *)
LEMMA FlattenSeqIs ==
  ASSUME NEW T, NEW seqs \in Seq(Seq(T))
  PROVE  \E f : Flattening(f, seqs, Len(seqs)) /\ FlattenSeq(seqs) = f[Len(seqs)]
<1> DEFINE n == Len(seqs)
           Repeats(f, m) == f = [i \in 1..m |-> IF i = 1 THEN seqs[i] ELSE f[i - 1] \o seqs[i]]
           S == {m \in Nat : \E f : Repeats(f, m)}
<1>0. n \in Nat /\ \A i \in 1..n : seqs[i] \in Seq(T)
  BY LenProperties, ElementOfSeq
<1>1. 0 \in S
  <2>1. Repeats([i \in 1..0 |-> <<>>], 0)
    OBVIOUS
  <2> QED
    BY <2>1
<1>2. ASSUME NEW m \in Nat, m \in S PROVE m + 1 \in S
  <2>1. PICK f : Repeats(f, m)
    BY <1>2
  <2> DEFINE g == [i \in 1..(m + 1) |->
                     IF i = m + 1 THEN IF m = 0 THEN seqs[1] ELSE f[m] \o seqs[m + 1]
                     ELSE f[i]]
  <2>2. ASSUME NEW i \in 1..(m + 1)
        PROVE  g[i] = IF i = 1 THEN seqs[i] ELSE g[i - 1] \o seqs[i]
    <3>1. CASE i = m + 1
      <4>1. i # 1 => i - 1 = m /\ i - 1 \in 1..(m + 1) /\ i - 1 # m + 1 /\ m # 0
        BY <3>1
      <4>2. i = 1 => m = 0
        BY <3>1
      <4> HIDE DEF n, S, Repeats
      <4> QED
        BY <3>1, <4>1, <4>2
    <3>2. CASE i # m + 1
      <4>1. i \in 1..m /\ (i # 1 => i - 1 \in 1..m /\ i - 1 \in 1..(m + 1) /\ i - 1 # m + 1)
        BY <3>2
      <4>2. f[i] = IF i = 1 THEN seqs[i] ELSE f[i - 1] \o seqs[i]
        BY <2>1, <4>1
      <4> HIDE DEF n, S, Repeats
      <4> QED
        BY <3>2, <4>1, <4>2
    <3> QED
      BY <3>1, <3>2
  <2>3. Repeats(g, m + 1)
    BY <2>2
  <2> HIDE DEF Repeats, g
  <2> QED
    BY <2>3
<1>3. n \in S
  <2> HIDE DEF S, n
  <2> QED
    BY <1>0, <1>1, <1>2, SetInduction
<1>4. \E f : Repeats(f, n)
  BY <1>3
<1> DEFINE flat == CHOOSE f : Repeats(f, n)
<1>5. Repeats(flat, n)
  BY <1>4
<1>6. CASE n = 0
  <2>1. seqs = <<>> /\ FlattenSeq(seqs) = <<>>
    BY <1>6, EmptySeq DEF FlattenSeq
  <2>2. Flattening([i \in 0..0 |-> <<>>], seqs, n)
    BY <1>6 DEF Flattening
  <2> QED
    BY <1>6, <2>1, <2>2
<1>7. CASE n # 0
  <2>1. FlattenSeq(seqs) = flat[n]
    BY <1>7, SMTT(30) DEF FlattenSeq
  <2> DEFINE g == [i \in 0..n |-> IF i = 0 THEN <<>> ELSE flat[i]]
  <2> HIDE DEF n
  <2>2. \A i \in 1..n : flat[i] = IF i = 1 THEN seqs[i] ELSE flat[i - 1] \o seqs[i]
    BY <1>0, <1>5
  <2> HIDE DEF flat
  <2>3. g[0] = <<>> /\ g[n] = flat[n]
    BY <1>0, <1>7
  <2>4. ASSUME NEW k \in 1..n PROVE g[k] = g[k - 1] \o seqs[k]
    <3>1. seqs[k] \in Seq(T)
      BY <1>0
    <3>2. <<>> \o seqs[k] = seqs[k]
      BY <3>1, ConcatEmptySeq
    <3>3. CASE k = 1
      BY <1>0, <2>2, <3>2, <3>3
    <3>4. CASE k # 1
      <4>1. k - 1 \in 0..n /\ k \in 0..n /\ k - 1 # 0 /\ k # 0
        BY <1>0, <3>4
      <4>2. flat[k] = flat[k - 1] \o seqs[k]
        BY <2>2, <3>4
      <4>3. g[k] = flat[k] /\ g[k - 1] = flat[k - 1]
        BY <4>1
      <4> HIDE DEF g
      <4> QED
        BY <4>2, <4>3
    <3> QED
      BY <3>3, <3>4
  <2>5. Flattening(g, seqs, n)
    <3> HIDE DEF g
    <3> QED
      BY <2>3, <2>4 DEF Flattening
  <2> HIDE DEF g
  <2> QED
    BY <2>1, <2>3, <2>5 DEF n
<1> QED
  BY <1>6, <1>7

LEMMA FlattenEmpty == FlattenSeq(<<>>) = <<>>
BY DEF FlattenSeq

(* One more sequence at the end.                                           *)
LEMMA FlattenAppend ==
  ASSUME NEW T, NEW seqs \in Seq(Seq(T)), NEW s \in Seq(T)
  PROVE  /\ FlattenSeq(seqs) \in Seq(T)
         /\ FlattenSeq(Append(seqs, s)) = FlattenSeq(seqs) \o s
<1> DEFINE more == Append(seqs, s)
           n == Len(seqs)
<1>1. /\ more \in Seq(Seq(T)) /\ n \in Nat /\ Len(more) = n + 1
      /\ \A k \in 1..n : more[k] = seqs[k]
      /\ more[n + 1] = s
  BY AppendProperties, LenProperties
<1>0. \A k \in 1..n : seqs[k] \in Seq(T)
  BY ElementOfSeq
<1>2. PICK f : Flattening(f, seqs, n) /\ FlattenSeq(seqs) = f[n]
  BY FlattenSeqIs
<1> HIDE DEF more
<1>3. PICK g : Flattening(g, more, n + 1) /\ FlattenSeq(more) = g[n + 1]
  BY <1>1, FlattenSeqIs
<1> HIDE DEF n
<1>4. f[n] \in Seq(T)
  <2>1. \A k \in 0..n : f[k] \in Seq(T)
    BY <1>0, <1>1, <1>2, FlatteningTyped
  <2> QED
    BY <1>1, <2>1
<1>5. Flattening(g, more, n)
  <2>1. \A k \in 1..n : k \in 1..(n + 1)
    BY <1>1
  <2> QED
    BY <1>3, <2>1 DEF Flattening
<1>6. g[n] = f[n]
  BY <1>1, <1>2, <1>5, FlatteningUnique
<1>7. n + 1 \in 1..(n + 1) /\ (n + 1) - 1 = n
  BY <1>1
<1>8. g[n + 1] = g[n] \o s
  BY <1>1, <1>3, <1>7 DEF Flattening
<1> QED
  BY <1>2, <1>3, <1>4, <1>6, <1>8 DEF more, n

(* Flattening sequences over T, and flattening one sequence.               *)
LEMMA FlattenTyped ==
  ASSUME NEW T, NEW seqs \in Seq(Seq(T))
  PROVE  FlattenSeq(seqs) \in Seq(T)
BY FlattenAppend, EmptySeq

LEMMA FlattenOne ==
  ASSUME NEW T, NEW s \in Seq(T)
  PROVE  FlattenSeq(<<s>>) = s
<1>1. <<>> \in Seq(Seq(T)) /\ Append(<<>>, s) = <<s>>
  BY EmptySeq
<1>2. FlattenSeq(<<s>>) = <<>> \o s
  BY <1>1, FlattenAppend, FlattenEmpty
<1> QED
  BY <1>2, ConcatEmptySeq

(* Appending an element to the second part appends it to the whole.        *)
LEMMA ConcatSnoc ==
  ASSUME NEW R, NEW a \in Seq(R), NEW b \in Seq(R), NEW x \in R
  PROVE  a \o Append(b, x) = Append(a \o b, x)
<1>0. <<x>> \in Seq(R)
  OBVIOUS
<1>1. PICK one \in Seq(R) : one = <<x>>
  BY <1>0
<1>2. Append(b, x) = b \o one
  BY <1>1, AppendIsConcat
<1>3. a \o b \in Seq(R)
  OBVIOUS
<1>4. Append(a \o b, x) = (a \o b) \o one
  BY <1>1, <1>3, AppendIsConcat
<1>5. (a \o b) \o one = a \o (b \o one)
  BY ConcatAssociative
<1> QED
  BY <1>2, <1>4, <1>5

(* Flattening two parts is flattening the whole.                           *)
LEMMA FlattenConcat ==
  ASSUME NEW T, NEW s \in Seq(Seq(T)), NEW t \in Seq(Seq(T))
  PROVE  FlattenSeq(s \o t) = FlattenSeq(s) \o FlattenSeq(t)
<1> DEFINE Part(m) == SubSeq(t, 1, m)
           S == {m \in Nat : m <= Len(t) =>
                   FlattenSeq(s \o Part(m)) = FlattenSeq(s) \o FlattenSeq(Part(m))}
<1>1. Len(t) \in Nat /\ \A i \in 1..Len(t) : t[i] \in Seq(T)
  BY LenProperties, ElementOfSeq
<1>2. FlattenSeq(s) \in Seq(T)
  BY FlattenTyped
<1>3. 0 \in S
  <2>1. Part(0) = <<>>
    BY SubSeqEmpty
  <2>2. s \o <<>> = s /\ FlattenSeq(s) \o <<>> = FlattenSeq(s)
    BY <1>2, ConcatEmptySeq
  <2> HIDE DEF Part
  <2> QED
    BY <2>1, <2>2, FlattenEmpty
<1>4. ASSUME NEW m \in Nat, m \in S PROVE m + 1 \in S
  <2>1. SUFFICES ASSUME m + 1 <= Len(t)
                 PROVE  FlattenSeq(s \o Part(m + 1)) = FlattenSeq(s) \o FlattenSeq(Part(m + 1))
    OBVIOUS
  <2>2. m + 1 \in 1..Len(t) /\ m <= Len(t) /\ (m + 1) - 1 = m /\ 1 \in 1..Len(t) /\ m + 1 \in 1..Len(t)
    BY <1>1, <2>1
  <2>3. Part(m) \in Seq(Seq(T))
    BY <1>1, <2>2, SubSeqProperties
  <2>4. Part(m + 1) = Part(m) \o <<t[m + 1]>>
    BY <2>2, SubSeqRecursiveSecond
  <2>5. Part(m + 1) = Append(Part(m), t[m + 1])
    <3> HIDE DEF Part
    <3> QED
      BY <1>1, <2>2, <2>3, <2>4, AppendIsConcat
  <2>6. FlattenSeq(s \o Part(m)) = FlattenSeq(s) \o FlattenSeq(Part(m))
    BY <1>4, <2>2
  <2> HIDE DEF Part, S
  <2> DEFINE u == t[m + 1]
  <2>7. u \in Seq(T) /\ <<u>> \in Seq(Seq(T))
    BY <1>1, <2>2
  <2>8. Part(m + 1) = Append(Part(m), u) /\ Part(m + 1) = Part(m) \o <<u>>
    BY <2>4, <2>5
  <2> HIDE DEF u
  <2>9. s \o Part(m) \in Seq(Seq(T))
    BY <2>3, ConcatProperties
  <2>10. s \o Part(m + 1) = Append(s \o Part(m), u)
    <3>1. PICK p \in Seq(Seq(T)) : p = Part(m)
      BY <2>3
    <3>2. s \o Append(p, u) = Append(s \o p, u)
      BY <2>7, ConcatSnoc
    <3> QED
      BY <2>8, <3>1, <3>2
  <2>11. FlattenSeq(s \o Part(m + 1)) = FlattenSeq(s \o Part(m)) \o u
    BY <2>7, <2>9, <2>10, FlattenAppend
  <2>12. FlattenSeq(Part(m + 1)) = FlattenSeq(Part(m)) \o u /\ FlattenSeq(Part(m)) \in Seq(T)
    BY <2>3, <2>7, <2>8, FlattenAppend
  <2>13. (FlattenSeq(s) \o FlattenSeq(Part(m))) \o u = FlattenSeq(s) \o (FlattenSeq(Part(m)) \o u)
    BY <1>2, <2>7, <2>12, ConcatAssociative, SMTT(30)
  <2> QED
    BY <2>6, <2>11, <2>12, <2>13
<1>5. Nat \subseteq S
  <2> HIDE DEF S
  <2> QED
    BY <1>3, <1>4, SetInduction
<1>6. Part(Len(t)) = t
  BY SubSeqFull
<1>7. FlattenSeq(s \o Part(Len(t))) = FlattenSeq(s) \o FlattenSeq(Part(Len(t)))
  <2> HIDE DEF Part
  <2>1. Len(t) \in S
    <3> HIDE DEF S
    <3> QED
      BY <1>1, <1>5
  <2> QED
    BY <1>1, <2>1
<1> QED
  BY <1>6, <1>7

(* The front of a concatenation.                                           *)
LEMMA FrontOfConcat ==
  ASSUME NEW T, NEW s \in Seq(T), NEW t \in Seq(T)
  PROVE  SubSeq(s \o t, 1, Len(s)) = s
<1>1. Len(s) \in Nat
  BY LenProperties
<1>2. CASE Len(s) = 0
  <2>1. s = <<>>
    BY <1>2, EmptySeq
  <2>2. SubSeq(s \o t, 1, 0) = <<>>
    BY SubSeqEmpty
  <2> QED
    BY <1>2, <2>1, <2>2
<1>3. CASE Len(s) # 0
  <2>1. 1 \in 1..Len(s) /\ Len(s) \in 1..Len(s)
    BY <1>1, <1>3
  <2>2. SubSeq(s \o t, 1, Len(s)) = SubSeq(s, 1, Len(s))
    BY <2>1, SubSeqOfConcat1
  <2> QED
    BY <2>2, SubSeqFull
<1> QED
  BY <1>2, <1>3

(* The front of a sequence, one element longer.                            *)
LEMMA FrontGrows ==
  ASSUME NEW T, NEW s \in Seq(T), NEW i \in Nat, i < Len(s)
  PROVE  /\ SubSeq(s, 1, i) \in Seq(T)
         /\ SubSeq(s, 1, i + 1) = Append(SubSeq(s, 1, i), s[i + 1])
<1>1. Len(s) \in Nat /\ i + 1 \in 1..Len(s) /\ 1 \in 1..Len(s) /\ (i + 1) - 1 = i
  BY LenProperties
<1>2. \A k \in 1..Len(s) : s[k] \in T
  BY ElementOfSeq
<1>3. SubSeq(s, 1, i) \in Seq(T)
  <2>1. \A k \in 1..i : s[k] \in T
    BY <1>1, <1>2
  <2> QED
    BY <2>1, SubSeqProperties
<1>4. i + 1 \in 1..Len(s)
  BY <1>1
<1>5. SubSeq(s, 1, i + 1) = SubSeq(s, 1, (i + 1) - 1) \o <<s[i + 1]>>
  BY <1>1, <1>4, SubSeqRecursiveSecond
<1>6. s[i + 1] \in T
  BY <1>1, <1>2
<1>7. Append(SubSeq(s, 1, i), s[i + 1]) = SubSeq(s, 1, i) \o <<s[i + 1]>>
  BY <1>3, <1>6, AppendIsConcat
<1> QED
  BY <1>1, <1>3, <1>5, <1>7

(* Cut in two, a sequence is its front and its rest.                       *)
LEMMA CutInTwo ==
  ASSUME NEW T, NEW s \in Seq(T), NEW i \in 0..Len(s)
  PROVE  /\ SubSeq(s, 1, i) \in Seq(T) /\ SubSeq(s, i + 1, Len(s)) \in Seq(T)
         /\ s = SubSeq(s, 1, i) \o SubSeq(s, i + 1, Len(s))
<1>1. PICK n \in Nat : n = Len(s) /\ i \in 0..n
  BY LenProperties
<1>2. \A k \in 1..n : s[k] \in T
  BY <1>1, ElementOfSeq
<1>3. SubSeq(s, 1, i) \in Seq(T)
  <2>1. \A k \in 1..i : s[k] \in T
    BY <1>1, <1>2
  <2> QED
    BY <1>1, <2>1, SubSeqProperties
<1>4. SubSeq(s, i + 1, n) \in Seq(T)
  <2>1. \A k \in (i + 1)..n : s[k] \in T
    BY <1>1, <1>2
  <2>2. i + 1 \in Int /\ n \in Int
    BY <1>1
  <2> QED
    BY <2>1, <2>2, SubSeqProperties
<1>5. 1 \in 1..(Len(s) + 1) /\ i \in (1 - 1)..Len(s) /\ Len(s) \in i..Len(s)
  BY <1>1
<1>6. SubSeq(s, 1, i) \o SubSeq(s, i + 1, Len(s)) = SubSeq(s, 1, Len(s))
  BY <1>5, ConcatAdjacentSubSeq
<1>7. SubSeq(s, 1, Len(s)) = s
  BY SubSeqFull
<1> QED
  BY <1>1, <1>3, <1>4, <1>6, <1>7

(* A sequence that is one element longer and agrees with another one.      *)
LEMMA LongerByOne ==
  ASSUME NEW T, NEW s \in Seq(T), NEW x \in T, NEW more \in Seq(T),
         Len(more) = Len(s) + 1, \A k \in 1..Len(s) : more[k] = s[k], more[Len(s) + 1] = x
  PROVE  more = Append(s, x)
<1>1. PICK n \in Nat : n = Len(s)
  BY LenProperties
<1>2. PICK t \in Seq(T) : /\ t = Append(s, x) /\ Len(t) = n + 1
                          /\ \A k \in 1..n : t[k] = s[k]
                          /\ t[n + 1] = x
  <2>1. Append(s, x) \in Seq(T)
    OBVIOUS
  <2> QED
    BY <1>1, <2>1, AppendProperties
<1>3. \A k \in 1..(n + 1) : more[k] = t[k]
  <2> SUFFICES ASSUME NEW k \in 1..(n + 1) PROVE more[k] = t[k]
    OBVIOUS
  <2>1. k \in 1..n \/ k = n + 1
    OBVIOUS
  <2> QED
    BY <1>1, <1>2, <2>1
<1> QED
  BY <1>1, <1>2, <1>3, SeqEqual
=============================================================================
