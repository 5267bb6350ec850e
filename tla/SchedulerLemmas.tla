--------------------------- MODULE SchedulerLemmas ---------------------------
(***************************************************************************)
(* bitmap_leadingzeroes finds the lowest one bit of every non-zero 64-bit  *)
(* word.  Used in the proofs of the scheduler and of the kernel.           *)
(***************************************************************************)
EXTENDS SchedulerOps, SequenceTheorems, TLAPS

(***************************************************************************)
(* What the binary search keeps true of its local variables: s.bitmap is   *)
(* `word` shifted right by s.count - 1 places, and the bits shifted out    *)
(* were all zero.                                                          *)
(***************************************************************************)
Shifted(word, s) ==
    /\ s.count \in Nat \ {0}
    /\ s.bitmap \subseteq Nat
    /\ \A i \in word : i >= s.count - 1
    /\ \A x \in Nat : x \in s.bitmap <=> x + (s.count - 1) \in word

\* A one bit is left among the lowest k.
Within(s, k) == \E i \in s.bitmap : i < k

\* One halving keeps Shifted and halves the window that holds a one bit.
LEMMA NarrowLemma ==
    ASSUME NEW word \in SUBSET Nat, NEW s, NEW k \in Nat \ {0},
           Shifted(word, s), Within(s, 2 * k)
    PROVE  Shifted(word, Narrow(s, k)) /\ Within(Narrow(s, k), k)
<1>1. CASE LowBits(s.bitmap, k) = {}
  <2> DEFINE n == [bitmap |-> ShiftRight(s.bitmap, k), count |-> s.count + k]
  <2>1. Narrow(s, k) = n
    BY <1>1 DEF Narrow
  <2>2. \A i \in s.bitmap : i >= k
    BY <1>1 DEF LowBits, Shifted
  <2>3. n.bitmap \subseteq Nat /\ n.count \in Nat \ {0}
    BY DEF ShiftRight, Shifted
  <2>4. \A i \in word : i >= n.count - 1
    <3> TAKE i \in word
    <3>1. i \in Nat /\ i >= s.count - 1 /\ s.count \in Nat \ {0}
      BY DEF Shifted
    <3>2. i - (s.count - 1) \in Nat /\ (i - (s.count - 1)) + (s.count - 1) = i
      BY <3>1
    <3>3. i - (s.count - 1) \in s.bitmap
      BY <3>2 DEF Shifted
    <3> QED BY <3>1, <3>3, <2>2
  <2>5. \A x \in Nat : x \in n.bitmap <=> x + k \in s.bitmap
    BY DEF ShiftRight, Shifted
  <2>6. \A x \in Nat : x \in n.bitmap <=> x + (n.count - 1) \in word
    <3> TAKE x \in Nat
    <3>1. x + k \in Nat /\ (x + k) + (s.count - 1) = x + (n.count - 1)
      BY DEF Shifted
    <3> QED BY <2>5, <3>1 DEF Shifted
  <2>7. PICK j \in s.bitmap : j < 2 * k
    BY DEF Within
  <2>8. j - k \in Nat /\ j - k < k /\ (j - k) + k = j
    BY <2>2, <2>7 DEF Shifted
  <2>9. Within(n, k)
    BY <2>5, <2>7, <2>8 DEF Within
  <2> QED BY <2>1, <2>3, <2>4, <2>6, <2>9 DEF Shifted
<1>2. CASE LowBits(s.bitmap, k) # {}
  BY <1>2 DEF Narrow, LowBits, Within
<1> QED BY <1>1, <1>2

\* The position of the lowest one bit of every non-zero 64-bit word is what the
\* binary search of bitmap_leadingzeroes returns.
THEOREM LowestBit ==
    ASSUME NEW word \in SUBSET (0 .. WordSize - 1), word # {}
    PROVE  /\ bitmap_leadingzeroes(word) \in word
           /\ \A i \in word : bitmap_leadingzeroes(word) <= i
<1>1. CASE 0 \in word
  BY <1>1 DEF bitmap_leadingzeroes, WordSize
<1>2. CASE 0 \notin word
  <2> DEFINE s0 == [bitmap |-> word, count |-> 1]
             s1 == Narrow(s0, 32)
             s2 == Narrow(s1, 16)
             s3 == Narrow(s2, 8)
             s4 == Narrow(s3, 4)
             s5 == Narrow(s4, 2)
  <2>0. word \in SUBSET Nat
    BY DEF WordSize
  <2>1. Shifted(word, s0) /\ Within(s0, 64)
    <3>1. s0.bitmap = word /\ s0.count = 1
      OBVIOUS
    <3>2. PICK i \in word : TRUE
      OBVIOUS
    <3>3. i < 64
      BY DEF WordSize
    <3> HIDE DEF s0
    <3> QED BY <2>0, <3>1, <3>3 DEF Shifted, Within
  <2>2. Shifted(word, s1) /\ Within(s1, 32)
    BY <2>0, <2>1, NarrowLemma
  <2>3. Shifted(word, s2) /\ Within(s2, 16)
    <3> HIDE DEF s1
    <3> QED BY <2>0, <2>2, NarrowLemma
  <2>4. Shifted(word, s3) /\ Within(s3, 8)
    <3> HIDE DEF s2
    <3> QED BY <2>0, <2>3, NarrowLemma
  <2>5. Shifted(word, s4) /\ Within(s4, 4)
    <3> HIDE DEF s3
    <3> QED BY <2>0, <2>4, NarrowLemma
  <2>6. Shifted(word, s5) /\ Within(s5, 2)
    <3> HIDE DEF s4
    <3> QED BY <2>0, <2>5, NarrowLemma
  <2>7. bitmap_leadingzeroes(word) = s5.count - (IF 0 \in s5.bitmap THEN 1 ELSE 0)
    BY <1>2 DEF bitmap_leadingzeroes
  <2> HIDE DEF s0, s1, s2, s3, s4, s5
  <2>8. CASE 0 \in s5.bitmap
    BY <2>6, <2>7, <2>8 DEF Shifted
  <2>9. CASE 0 \notin s5.bitmap
    <3>1. 1 \in s5.bitmap
      BY <2>6, <2>9 DEF Shifted, Within
    <3>2. s5.count \in word
      BY <2>6, <3>1 DEF Shifted
    <3>3. s5.count - 1 \notin word
      BY <2>6, <2>9 DEF Shifted
    <3> QED BY <2>0, <2>6, <2>7, <2>9, <3>2, <3>3 DEF Shifted
  <2> QED BY <2>8, <2>9
<1> QED BY <1>1, <1>2

\* What queue_empty sees after a get: nothing is left of a queue of one.
LEMMA TailEmpty ==
    ASSUME NEW S, NEW s \in Seq(S), s # <<>>
    PROVE  Tail(s) = <<>> <=> Len(s) = 1
<1>1. Tail(s) \in Seq(S) /\ Len(Tail(s)) = Len(s) - 1 /\ Len(s) \in Nat
  BY HeadTailProperties, LenProperties
<1>2. Tail(s) = <<>> => Len(Tail(s)) = 0
  <2>1. Len(<< >>) = 0
    BY EmptySeq
  <2> QED BY <2>1, Zenon
<1>3. Tail(s) # <<>> => Len(Tail(s)) # 0
  BY <1>1, EmptySeq
<1> QED BY <1>1, <1>2, <1>3
=============================================================================
