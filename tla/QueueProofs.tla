----------------------------- MODULE QueueProofs -----------------------------
(***************************************************************************)
(* The linked lists of queue.c are sequences: for any finite set of nodes, *)
(* any number of queues and any uses of them that QueueAssumption allows,  *)
(* module Queue implements module Deques, and counts and links agree, as   *)
(* long as queue_mtf is called with the front of its queue only.           *)
(***************************************************************************)
EXTENDS Queue, FiniteSetTheorems, SequenceTheorems, WellFoundedInduction, TLAPS

-----------------------------------------------------------------------------
(* When pointers are sequences. *)

\* One list: the nodes of s, all different, are linked by nx from the front f to the back b,
\* and counted by e.
Holds(q, s, nx, f, b, e) ==
    /\ e = Len(s)
    /\ f = IF Len(s) = 0 THEN Null ELSE s[1]
    /\ \A i \in 1 .. Len(s) : nx[s[i]] = IF i = Len(s) THEN Null ELSE s[i + 1]
    /\ "put" \in Uses[q] /\ Len(s) > 0 => b = s[Len(s)]
    /\ \A i, j \in 1 .. Len(s) : s[i] = s[j] => i = j

\* The lists s and t have no node in common.
Apart(s, t) == \A i \in 1 .. Len(s), j \in 1 .. Len(t) : s[i] # t[j]

\* The sequences L are what the links, the ends and the counts of the queues hold.  Each
\* node is in one place, so that its one `next` can be the link of that place.
ListsIn(L, nx, fr, bk, el) ==
    /\ L \in [Queues -> Seq(Nodes)]
    /\ nx \in [Nodes -> Nodes \cup {Null}]
    /\ fr \in [Queues -> Nodes \cup {Null}]
    /\ bk \in [Queues -> Nodes \cup {Null}]
    /\ el \in [Queues -> Nat]
    /\ \A q \in Queues : Holds(q, L[q], nx, fr[q], bk[q], el[q])
    /\ \A q, r \in Queues : q # r => Apart(L[q], L[r])

\* A set of numbers has a smallest element.
LEMMA Least ==
    ASSUME NEW T \in SUBSET Nat, T # {}
    PROVE  \E m \in T : \A n \in T : m <= n
<1> DEFINE R == OpToRel(<, Nat)
<1>1. IsWellFoundedOn(R, Nat)
  BY NatLessThanWellFounded
<1>2. \A x, y \in Nat : <<x, y>> \in R <=> x < y
  BY DEF OpToRel
<1> HIDE DEF R
<1>3. PICK x \in T : \A y \in T : ~(<<y, x>> \in R)
  BY <1>1, WFMin
<1>4. \A y \in T : ~(y < x) /\ y \in Nat /\ x \in Nat
  BY <1>2, <1>3
<1> QED BY <1>3, <1>4

\* The walk from front that At defines by recursion.
Steps(q, g) == [i \in 1 .. Cardinality(Nodes) + 1 |->
                  IF i = 1 THEN front[q] ELSE IF g[i - 1] = Null THEN Null ELSE next[g[i - 1]]]

LEMMA AtUnfolds ==
    ASSUME NEW q, NEW g, g = Steps(q, g)
    PROVE  At(q) = Steps(q, At(q))
<1> DEFINE P(f) == f = Steps(q, f)
<1>1. At(q) = CHOOSE f : P(f)
  BY DEF At, Steps
<1>2. \E f : P(f)
  OBVIOUS
<1>3. P(CHOOSE f : P(f))
  <2> HIDE DEF P
  <2> QED BY <1>2
<1> QED BY <1>1, <1>3

\* No list is longer than there are nodes, since no node is in it twice.
LEMMA Fits ==
    ASSUME NEW L, ListsIn(L, next, front, back, elements), NEW q \in Queues
    PROVE  Cardinality(Nodes) \in Nat /\ Len(L[q]) \in Nat /\ Len(L[q]) <= Cardinality(Nodes)
<1>1. L[q] \in Seq(Nodes)
  BY DEF ListsIn
<1>2. Len(L[q]) \in Nat /\ L[q] \in [1 .. Len(L[q]) -> Nodes]
  BY <1>1, LenProperties
<1>3. \A i, j \in 1 .. Len(L[q]) : L[q][i] = L[q][j] => i = j
  BY DEF ListsIn, Holds
<1>4. L[q] \in Injection(1 .. Len(L[q]), Nodes)
  BY <1>2, <1>3 DEF Injection, IsInjective
<1>5. IsFiniteSet(Nodes)
  BY QueueAssumption
<1>6. Cardinality(1 .. Len(L[q])) <= Cardinality(Nodes)
  BY <1>4, <1>5, FS_Injection
<1>7. Cardinality(1 .. Len(L[q])) = Len(L[q])
  BY <1>2, FS_Interval
<1>8. Cardinality(Nodes) \in Nat
  BY <1>5, FS_CardinalityType
<1> QED BY <1>2, <1>6, <1>7, <1>8

\* The walk from front meets the nodes of L[q] and then NULL.
LEMMA WalkReads ==
    ASSUME NEW L, ListsIn(L, next, front, back, elements), NEW q \in Queues
    PROVE  /\ \A i \in 1 .. Len(L[q]) : At(q)[i] = L[q][i]
           /\ At(q)[Len(L[q]) + 1] = Null
<1> DEFINE s == L[q]
           N == Cardinality(Nodes)
           g == [i \in 1 .. N + 1 |-> IF i <= Len(s) THEN s[i] ELSE Null]
<1>1. N \in Nat /\ Len(s) \in Nat /\ Len(s) <= N
  BY Fits
<1>2. /\ s \in Seq(Nodes) /\ Null \notin Nodes
      /\ \A i \in 1 .. Len(s) : s[i] \in Nodes /\ s[i] # Null
      /\ front[q] = IF Len(s) = 0 THEN Null ELSE s[1]
      /\ \A i \in 1 .. Len(s) : next[s[i]] = IF i = Len(s) THEN Null ELSE s[i + 1]
  BY QueueAssumption, ElementOfSeq DEF ListsIn, Holds
<1> HIDE DEF N, s
<1>3. g = Steps(q, g)
  <2>1. ASSUME NEW i \in 1 .. N + 1
        PROVE  g[i] = IF i = 1 THEN front[q] ELSE IF g[i - 1] = Null THEN Null ELSE next[g[i - 1]]
    <3>1. CASE i = 1
      BY <1>1, <1>2, <3>1
    <3>2. CASE i # 1 /\ i - 1 <= Len(s)
      <4>1. i - 1 \in 1 .. Len(s) /\ i - 1 \in 1 .. N + 1
        BY <1>1, <3>2
      <4>2. g[i - 1] = s[i - 1] /\ s[i - 1] # Null
        BY <1>2, <3>2, <4>1
      <4>3. next[s[i - 1]] = IF i - 1 = Len(s) THEN Null ELSE s[(i - 1) + 1]
        BY <1>2, <4>1
      <4>4. g[i] = IF i - 1 = Len(s) THEN Null ELSE s[i]
        BY <1>1, <3>2, <4>1
      <4>5. (i - 1) + 1 = i
        BY <4>1
      <4> HIDE DEF g
      <4> QED BY <3>2, <4>2, <4>3, <4>4, <4>5
    <3>3. CASE i # 1 /\ ~(i - 1 <= Len(s))
      <4>1. i - 1 \in 1 .. N + 1 /\ ~(i <= Len(s))
        BY <1>1, <3>3
      <4> QED BY <3>3, <4>1
    <3> QED BY <3>1, <3>2, <3>3
  <2> QED BY <2>1 DEF Steps, N
<1>4. At(q) = Steps(q, At(q))
  BY <1>3, AtUnfolds
<1>5. \A i \in 1 .. N + 1 :
         At(q)[i] = IF i = 1 THEN front[q] ELSE IF At(q)[i - 1] = Null THEN Null ELSE next[At(q)[i - 1]]
  BY <1>4 DEF Steps, N
<1>6. \A i \in 1 .. N + 1 :
         g[i] = IF i = 1 THEN front[q] ELSE IF g[i - 1] = Null THEN Null ELSE next[g[i - 1]]
  BY <1>3 DEF Steps, N
<1> DEFINE a == At(q)
<1> HIDE DEF g, a
<1>7. \A i \in 1 .. N + 1 : a[i] = g[i]
  <2> DEFINE Bad == {i \in 1 .. N + 1 : a[i] # g[i]}
  <2> SUFFICES ASSUME Bad # {} PROVE FALSE
    OBVIOUS
  <2>1. Bad \in SUBSET Nat
    BY <1>1
  <2>2. PICK m \in Bad : \A n \in Bad : m <= n
    BY <2>1, Least
  <2>3. m # 1 /\ m - 1 \in 1 .. N + 1 /\ ~(m <= m - 1)
    BY <1>1, <1>5, <1>6, <2>2 DEF a
  <2>4. a[m - 1] = g[m - 1]
    BY <2>2, <2>3
  <2> QED BY <1>5, <1>6, <2>2, <2>3, <2>4 DEF a
<1>8. \A i \in 1 .. Len(s) : At(q)[i] = s[i]
  BY <1>1, <1>7 DEF a, g
<1>9. At(q)[Len(s) + 1] = Null
  BY <1>1, <1>7 DEF a, g
<1> QED BY <1>8, <1>9 DEF s

\* Pointers that hold sequences hold one family of them, and it is the one Contents reads.
LEMMA ListsRead == \A L : ListsIn(L, next, front, back, elements) => lists = L
<1> SUFFICES ASSUME NEW L, ListsIn(L, next, front, back, elements) PROVE lists = L
  OBVIOUS
<1>1. ASSUME NEW q \in Queues PROVE Contents(q) = L[q]
  <2>1. /\ L[q] \in Seq(Nodes) /\ elements[q] = Len(L[q]) /\ Len(L[q]) \in Nat
        /\ \A i \in 1 .. Len(L[q]) : At(q)[i] = L[q][i]
    <3>1. L[q] \in Seq(Nodes) /\ elements[q] = Len(L[q])
      BY <1>1 DEF ListsIn, Holds
    <3>2. Len(L[q]) \in Nat
      BY <3>1, LenProperties
    <3>3. \A i \in 1 .. Len(L[q]) : At(q)[i] = L[q][i]
      BY <1>1, WalkReads
    <3> QED BY <3>1, <3>2, <3>3
  <2>2. \A i \in 1 .. Len(L[q]) : At(q)[i] \in Nodes
    BY <2>1, ElementOfSeq
  <2> DEFINE c == SubSeq(At(q), 1, Len(L[q]))
  <2>3. 1 \in Int /\ Len(L[q]) \in Int
    BY <2>1
  <2>4. /\ c \in Seq(Nodes) /\ Len(c) = IF 1 <= Len(L[q]) THEN Len(L[q]) - 1 + 1 ELSE 0
        /\ \A i \in 1 .. Len(L[q]) - 1 + 1 : c[i] = At(q)[1 + i - 1]
    BY <2>2, <2>3, SubSeqProperties
  <2> HIDE DEF c
  <2>5. Len(c) = Len(L[q])
    BY <2>1, <2>4
  <2>6. \A i \in 1 .. Len(L[q]) : i \in 1 .. Len(L[q]) - 1 + 1 /\ 1 + i - 1 = i
    BY <2>1
  <2>7. \A i \in 1 .. Len(c) : c[i] = L[q][i]
    BY <2>1, <2>4, <2>5, <2>6
  <2>8. c = L[q]
    BY <2>1, <2>4, <2>5, <2>7, SeqEqual
  <2> QED BY <2>1, <2>8 DEF Contents, c
<1> QED BY <1>1 DEF lists, ListsIn

\* The same after a step.
LEMMA ListsReadNext == \A L : ListsIn(L, next', front', back', elements') => lists' = L
<1>1. (\A L : ListsIn(L, next, front, back, elements) => lists = L)'
  BY ListsRead, PTL
<1> QED BY <1>1 DEF ListsIn, Holds, Apart

-----------------------------------------------------------------------------
(* The operations. *)

\* The invariant: the pointers hold the sequences read from them.
ListsInv == ListsIn(lists, next, front, back, elements)

\* n is in no list, as callers ensure before they put it.
Unlinked(L, n) == \A r \in Queues : \A j \in 1 .. Len(L[r]) : L[r][j] # n

LEMMA LinkedReads ==
    ASSUME ListsInv, NEW n, ~Linked(n)
    PROVE  Unlinked(lists, n) /\ Abstract!Free(n)
<1>1. ASSUME NEW r \in Queues, NEW j \in 1 .. Len(lists[r]) PROVE lists[r][j] # n
  <2>1. elements[r] = Len(lists[r])
    BY <1>1 DEF ListsInv, ListsIn, Holds
  <2>2. At(r)[j] = lists[r][j]
    BY <1>1, WalkReads DEF ListsInv
  <2> QED BY <2>1, <2>2 DEF Linked
<1>2. \A r \in Queues : DOMAIN lists[r] = 1 .. Len(lists[r])
  BY LenProperties DEF ListsInv, ListsIn
<1> QED BY <1>1, <1>2 DEF Unlinked, Abstract!Free

\* m is a node of q or of no list.
Own(L, q, m) == Unlinked(L, m) \/ \E j \in 1 .. Len(L[q]) : m = L[q][j]

\* An operation on q that makes its list s out of its own nodes and those of no list, and
\* changes the links of such nodes only.
LEMMA Relisted ==
    ASSUME ListsInv, NEW q \in Queues, NEW s \in Seq(Nodes),
           next' \in [Nodes -> Nodes \cup {Null}], front' \in [Queues -> Nodes \cup {Null}],
           back' \in [Queues -> Nodes \cup {Null}], elements' \in [Queues -> Nat],
           Holds(q, s, next', front'[q], back'[q], elements'[q]),
           \A i \in 1 .. Len(s) : Own(lists, q, s[i]),
           \A m \in Nodes : next'[m] = next[m] \/ Own(lists, q, m),
           \A r \in Queues \ {q} : front'[r] = front[r] /\ back'[r] = back[r] /\ elements'[r] = elements[r]
    PROVE  ListsInv' /\ lists' = [lists EXCEPT ![q] = s]
<1> DEFINE L == lists
           M == [L EXCEPT ![q] = s]
<1>0. ListsIn(L, next, front, back, elements)
  BY DEF ListsInv
<1>a. /\ \A i \in 1 .. Len(s) : Own(L, q, s[i])
      /\ \A m \in Nodes : next'[m] = next[m] \/ Own(L, q, m)
  OBVIOUS
<1> HIDE DEF L
<1>1. L \in [Queues -> Seq(Nodes)]
  BY <1>0 DEF ListsIn
<1>2. M \in [Queues -> Seq(Nodes)] /\ M[q] = s /\ \A r \in Queues \ {q} : M[r] = L[r]
  BY <1>1
<1> HIDE DEF M
<1>3. ASSUME NEW r \in Queues \ {q}, NEW m, Own(L, q, m), NEW j \in 1 .. Len(L[r]) PROVE m # L[r][j]
  <2>1. Apart(L[q], L[r])
    BY <1>0, <1>3 DEF ListsIn
  <2> QED BY <1>3, <2>1 DEF Apart, Own, Unlinked
<1>4. ASSUME NEW r \in Queues PROVE Holds(r, M[r], next', front'[r], back'[r], elements'[r])
  <2>1. CASE r = q
    BY <1>2, <2>1
  <2>2. CASE r # q
    <3>1. Holds(r, L[r], next, front[r], back[r], elements[r])
      BY <1>0 DEF ListsIn
    <3>2. \A j \in 1 .. Len(L[r]) : L[r][j] \in Nodes
      BY <1>1, ElementOfSeq
    <3>3. \A j \in 1 .. Len(L[r]) : next'[L[r][j]] = next[L[r][j]]
      BY <1>a, <1>3, <2>2, <3>2
    <3>4. M[r] = L[r] /\ front'[r] = front[r] /\ back'[r] = back[r] /\ elements'[r] = elements[r]
      BY <1>2, <2>2
    <3> QED BY <3>1, <3>3, <3>4 DEF Holds
  <2> QED BY <2>1, <2>2
<1>5. ASSUME NEW r \in Queues \ {q} PROVE Apart(s, L[r]) /\ Apart(L[r], s)
  BY <1>a, <1>3, <1>5 DEF Apart
<1>6. ASSUME NEW r \in Queues, NEW p \in Queues, r # p PROVE Apart(M[r], M[p])
  <2>1. CASE r = q
    BY <1>2, <1>5, <1>6, <2>1
  <2>2. CASE p = q
    BY <1>2, <1>5, <1>6, <2>2
  <2>3. CASE r # q /\ p # q
    BY <1>0, <1>2, <1>6, <2>3 DEF ListsIn
  <2> QED BY <2>1, <2>2, <2>3
<1>7. ListsIn(M, next', front', back', elements')
  BY <1>2, <1>4, <1>6 DEF ListsIn
<1>8. lists' = M
  BY <1>7, ListsReadNext
<1>9. ListsIn(lists', next', front', back', elements')
  BY <1>7, <1>8
<1>10. ListsInv'
  BY <1>9 DEF ListsInv, ListsIn, Holds, Apart
<1> QED BY <1>8, <1>10 DEF M, L

\* The sequences of the abstract operations, position by position.
LEMMA ConsFacts ==
    ASSUME NEW S, NEW s \in Seq(S), NEW n \in S
    PROVE  /\ <<n>> \o s \in Seq(S) /\ Len(<<n>> \o s) = Len(s) + 1
           /\ \A i \in 1 .. Len(s) + 1 : (<<n>> \o s)[i] = IF i = 1 THEN n ELSE s[i - 1]
<1>1. <<n>> \in Seq(S) /\ Len(<<n>>) = 1 /\ <<n>>[1] = n /\ Len(s) \in Nat
  BY LenProperties
<1>2. /\ <<n>> \o s \in Seq(S) /\ Len(<<n>> \o s) = 1 + Len(s)
      /\ \A i \in 1 .. 1 + Len(s) : (<<n>> \o s)[i] = IF i <= 1 THEN <<n>>[i] ELSE s[i - 1]
  BY <1>1, ConcatProperties
<1> QED BY <1>1, <1>2

LEMMA InsertFacts ==
    ASSUME NEW S, NEW s \in Seq(S), NEW n \in S, NEW k \in 1 .. Len(s)
    PROVE  LET t == Abstract!InsertAt(s, k + 1, n)
           IN  /\ t \in Seq(S) /\ Len(t) = Len(s) + 1
               /\ \A i \in 1 .. Len(s) + 1 :
                     t[i] = IF i <= k THEN s[i] ELSE IF i = k + 1 THEN n ELSE s[i - 1]
<1> DEFINE a == SubSeq(s, 1, k)
           b == SubSeq(s, k + 1, Len(s))
           c == a \o <<n>>
           t == c \o b
<1>1. Len(s) \in Nat /\ k \in Nat /\ \A i \in 1 .. Len(s) : s[i] \in S
  BY LenProperties, ElementOfSeq
<1>2. \A i \in 1 .. k : s[i] \in S
  BY <1>1
<1>3. \A i \in k + 1 .. Len(s) : s[i] \in S
  BY <1>1
<1>4. /\ a \in Seq(S) /\ Len(a) = IF 1 <= k THEN k - 1 + 1 ELSE 0
      /\ \A i \in 1 .. k - 1 + 1 : a[i] = s[1 + i - 1]
  BY <1>1, <1>2, SubSeqProperties
<1>5. /\ b \in Seq(S) /\ Len(b) = IF k + 1 <= Len(s) THEN Len(s) - (k + 1) + 1 ELSE 0
      /\ \A i \in 1 .. Len(s) - (k + 1) + 1 : b[i] = s[k + 1 + i - 1]
  BY <1>1, <1>3, SubSeqProperties
<1>6. <<n>> \in Seq(S) /\ Len(<<n>>) = 1 /\ <<n>>[1] = n
  OBVIOUS
<1> HIDE DEF a, b
<1>7. Len(a) = k /\ \A i \in 1 .. k : a[i] = s[i]
  BY <1>1, <1>4
<1>8. Len(b) = Len(s) - k /\ \A i \in 1 .. Len(s) - k : b[i] = s[k + i]
  BY <1>1, <1>5
<1>9. /\ c \in Seq(S) /\ Len(c) = Len(a) + Len(<<n>>)
      /\ \A i \in 1 .. Len(a) + Len(<<n>>) : c[i] = IF i <= Len(a) THEN a[i] ELSE <<n>>[i - Len(a)]
  BY <1>4, <1>6, ConcatProperties
<1> HIDE DEF c
<1>10. Len(c) = k + 1 /\ \A i \in 1 .. k + 1 : c[i] = IF i <= k THEN s[i] ELSE n
  BY <1>1, <1>6, <1>7, <1>9
<1>11. /\ t \in Seq(S) /\ Len(t) = Len(c) + Len(b)
       /\ \A i \in 1 .. Len(c) + Len(b) : t[i] = IF i <= Len(c) THEN c[i] ELSE b[i - Len(c)]
  <2>1. c \in Seq(S) /\ b \in Seq(S)
    BY <1>5, <1>9
  <2> QED BY <2>1, ConcatProperties
<1> HIDE DEF t
<1>12. Len(t) = Len(s) + 1
  BY <1>1, <1>8, <1>10, <1>11
<1>13. ASSUME NEW i \in 1 .. Len(s) + 1
       PROVE  t[i] = IF i <= k THEN s[i] ELSE IF i = k + 1 THEN n ELSE s[i - 1]
  <2>1. t[i] = IF i <= k + 1 THEN c[i] ELSE b[i - (k + 1)]
    BY <1>1, <1>8, <1>10, <1>11
  <2>2. CASE i <= k + 1
    BY <1>1, <1>10, <2>1, <2>2
  <2>3. CASE ~(i <= k + 1)
    <3>1. i - (k + 1) \in 1 .. Len(s) - k /\ k + (i - (k + 1)) = i - 1
      BY <1>1, <2>3
    <3>2. b[i - (k + 1)] = s[i - 1]
      BY <1>8, <3>1
    <3> QED BY <1>1, <2>1, <2>3, <3>2
  <2> QED BY <2>2, <2>3
<1>14. Abstract!InsertAt(s, k + 1, n) = t
  <2>1. (k + 1) - 1 = k
    BY <1>1
  <2> QED BY <2>1 DEF Abstract!InsertAt, t, c, a, b
<1> QED BY <1>11, <1>12, <1>13, <1>14

LEMMA ToFrontFacts ==
    ASSUME NEW S, NEW s \in Seq(S), 2 <= Len(s)
    PROVE  LET t == Abstract!ToFront(s, 1)
           IN  /\ t \in Seq(S) /\ Len(t) = Len(s)
               /\ \A i \in 1 .. Len(s) : t[i] = IF i = 1 THEN s[2] ELSE IF i = 2 THEN s[1] ELSE s[i]
<1> DEFINE a == SubSeq(s, 1, 1)
           b == SubSeq(s, 3, Len(s))
           c == a \o b
           t == <<s[2]>> \o c
<1>1. Len(s) \in Nat /\ \A i \in 1 .. Len(s) : s[i] \in S
  BY LenProperties, ElementOfSeq
<1>2. /\ a \in Seq(S) /\ Len(a) = IF 1 <= 1 THEN 1 - 1 + 1 ELSE 0
      /\ \A i \in 1 .. 1 - 1 + 1 : a[i] = s[1 + i - 1]
  <2>1. \A i \in 1 .. 1 : s[i] \in S
    BY <1>1
  <2> QED BY <2>1, SubSeqProperties
<1>3. /\ b \in Seq(S) /\ Len(b) = IF 3 <= Len(s) THEN Len(s) - 3 + 1 ELSE 0
      /\ \A i \in 1 .. Len(s) - 3 + 1 : b[i] = s[3 + i - 1]
  <2>1. \A i \in 3 .. Len(s) : s[i] \in S
    BY <1>1
  <2> QED BY <1>1, <2>1, SubSeqProperties
<1> HIDE DEF a, b
<1>4. Len(a) = 1 /\ a[1] = s[1]
  BY <1>2
<1>5. Len(b) = Len(s) - 2 /\ \A i \in 1 .. Len(s) - 2 : b[i] = s[i + 2]
  <2>1. Len(b) = Len(s) - 2
    <3>1. Len(b) = IF 3 <= Len(s) THEN Len(s) - 3 + 1 ELSE 0
      BY <1>3
    <3>2. CASE 3 <= Len(s)
      BY <1>1, <3>1, <3>2
    <3>3. CASE ~(3 <= Len(s))
      <4>1. \A k \in Nat : 2 <= k /\ ~(3 <= k) => k = 2
        OBVIOUS
      <4>2. Len(s) = 2
        BY <1>1, <3>3, <4>1
      <4> QED BY <3>1, <3>3, <4>2
    <3> QED BY <3>2, <3>3
  <2>2. \A i \in 1 .. Len(s) - 2 : i \in 1 .. Len(s) - 3 + 1 /\ 3 + i - 1 = i + 2
    BY <1>1
  <2> QED BY <1>3, <2>1, <2>2
<1>6. /\ c \in Seq(S) /\ Len(c) = Len(a) + Len(b)
      /\ \A i \in 1 .. Len(a) + Len(b) : c[i] = IF i <= Len(a) THEN a[i] ELSE b[i - Len(a)]
  <2>1. a \in Seq(S) /\ b \in Seq(S)
    BY <1>2, <1>3
  <2> QED BY <2>1, ConcatProperties
<1> HIDE DEF c
<1>7. Len(c) = Len(s) - 1 /\ \A i \in 1 .. Len(s) - 1 : c[i] = IF i = 1 THEN s[1] ELSE s[i + 1]
  <2>1. Len(c) = Len(s) - 1
    BY <1>1, <1>4, <1>5, <1>6
  <2>2. ASSUME NEW i \in 1 .. Len(s) - 1 PROVE c[i] = IF i = 1 THEN s[1] ELSE s[i + 1]
    <3>1. c[i] = IF i <= 1 THEN a[i] ELSE b[i - 1]
      BY <1>1, <1>4, <1>5, <1>6
    <3>2. CASE i = 1
      BY <1>4, <3>1, <3>2
    <3>3. CASE i # 1
      <4>1. i - 1 \in 1 .. Len(s) - 2 /\ (i - 1) + 2 = i + 1 /\ ~(i <= 1)
        BY <1>1, <3>3
      <4>2. b[i - 1] = s[i + 1]
        BY <1>5, <4>1
      <4> QED BY <3>1, <3>3, <4>1, <4>2
    <3> QED BY <3>2, <3>3
  <2> QED BY <2>1, <2>2
<1>8. /\ t \in Seq(S) /\ Len(t) = Len(c) + 1
      /\ \A i \in 1 .. Len(c) + 1 : t[i] = IF i = 1 THEN s[2] ELSE c[i - 1]
  <2>1. s[2] \in S
    BY <1>1
  <2> QED BY <1>6, <2>1, ConsFacts
<1> HIDE DEF t
<1>9. Len(t) = Len(s)
  BY <1>1, <1>7, <1>8
<1>10. ASSUME NEW i \in 1 .. Len(s) PROVE t[i] = IF i = 1 THEN s[2] ELSE IF i = 2 THEN s[1] ELSE s[i]
  <2>1. t[i] = IF i = 1 THEN s[2] ELSE c[i - 1]
    BY <1>1, <1>7, <1>8
  <2>2. CASE i # 1
    <3>1. i - 1 \in 1 .. Len(s) - 1 /\ (i - 1) + 1 = i /\ (i - 1 = 1 <=> i = 2)
      BY <1>1, <2>2
    <3>2. c[i - 1] = IF i = 2 THEN s[1] ELSE s[i]
      BY <1>7, <3>1
    <3> QED BY <2>1, <2>2, <3>2
  <2> QED BY <2>1, <2>2
<1>11. Abstract!ToFront(s, 1) = t
  <2>1. 1 + 1 = 2 /\ 2 - 1 = 1 /\ 2 + 1 = 3
    OBVIOUS
  <2> QED BY <2>1 DEF Abstract!ToFront, Abstract!RemoveAt, t, c, a, b
<1> QED BY <1>8, <1>9, <1>10, <1>11

\* What the invariant says of one queue, whose list is s.
ListOK(q, s) ==
    /\ s = lists[q] /\ s \in Seq(Nodes) /\ Len(s) \in Nat /\ DOMAIN s = 1 .. Len(s)
    /\ \A i \in 1 .. Len(s) : s[i] \in Nodes /\ Own(lists, q, s[i])
    /\ Holds(q, s, next, front[q], back[q], elements[q])
    /\ \A i \in 1 .. Len(s) : At(q)[i] = s[i]
    /\ s = <<>> <=> Len(s) = 0

PointersTyped ==
    /\ next \in [Nodes -> Nodes \cup {Null}]
    /\ front \in [Queues -> Nodes \cup {Null}]
    /\ back \in [Queues -> Nodes \cup {Null}]
    /\ elements \in [Queues -> Nat]
    /\ Null \notin Nodes

LEMMA InvGives ==
    ASSUME ListsInv, NEW q \in Queues
    PROVE  ListOK(q, lists[q]) /\ PointersTyped
<1> DEFINE s == lists[q]
<1>1. s \in Seq(Nodes) /\ Holds(q, s, next, front[q], back[q], elements[q]) /\ PointersTyped
  BY QueueAssumption DEF ListsInv, ListsIn, PointersTyped
<1>2. \A i \in 1 .. Len(s) : At(q)[i] = s[i]
  BY WalkReads DEF ListsInv
<1>3. \A i \in 1 .. Len(s) : Own(lists, q, s[i])
  BY DEF Own
<1> HIDE DEF s
<1>4. Len(s) \in Nat /\ DOMAIN s = 1 .. Len(s) /\ (\A i \in 1 .. Len(s) : s[i] \in Nodes) /\ (s = <<>> <=> Len(s) = 0)
  BY <1>1, LenProperties, ElementOfSeq, EmptySeq
<1> QED BY <1>1, <1>2, <1>3, <1>4 DEF ListOK, s

\* A step that changes no pointer.
LEMMA ListsKept ==
    ASSUME ListsInv, UNCHANGED <<next, front, back, elements>>
    PROVE  ListsInv' /\ lists' = lists
<1>1. ListsIn(lists, next', front', back', elements')
  BY DEF ListsInv
<1>2. lists' = lists
  BY <1>1, ListsReadNext
<1>3. ListsIn(lists', next', front', back', elements')
  BY <1>1, <1>2
<1> QED BY <1>2, <1>3 DEF ListsInv, ListsIn, Holds, Apart

LEMMA PutAppends ==
    ASSUME ListsInv, NEW q \in Queues, NEW n \in Nodes, queue_put(q, n)
    PROVE  ListsInv' /\ Abstract!Put(q, n)
<1> DEFINE t == lists[q]
           k == Len(t)
           s == Append(t, n)
<1>1. ListOK(q, t) /\ PointersTyped
  BY InvGives
<1>2. Unlinked(lists, n) /\ Abstract!Free(n)
  BY LinkedReads DEF queue_put
<1>3. n # Null /\ Own(lists, q, n) /\ "put" \in Uses[q]
  BY <1>1, <1>2 DEF PointersTyped, Own, queue_put
<1> HIDE DEF t
<1>4. t \in Seq(Nodes) /\ k \in Nat /\ \A i \in 1 .. k : t[i] \in Nodes /\ Own(lists, q, t[i]) /\ t[i] # n
  BY <1>1, <1>2 DEF ListOK, Unlinked
<1>5. s \in Seq(Nodes) /\ Len(s) = k + 1 /\ \A i \in 1 .. k + 1 : s[i] = IF i = k + 1 THEN n ELSE t[i]
  BY <1>4, AppendProperties
<1>6. /\ elements[q] = k /\ front[q] = IF k = 0 THEN Null ELSE t[1]
      /\ \A i \in 1 .. k : next[t[i]] = IF i = k THEN Null ELSE t[i + 1]
      /\ k > 0 => back[q] = t[k]
      /\ \A i, j \in 1 .. k : t[i] = t[j] => i = j
  BY <1>1, <1>3 DEF ListOK, Holds
<1>7. /\ back' = [back EXCEPT ![q] = n] /\ elements' = [elements EXCEPT ![q] = k + 1]
      /\ front' = [front EXCEPT ![q] = IF k = 0 THEN n ELSE t[1]]
  BY <1>1, <1>6 DEF queue_put, queue_empty, PointersTyped
<1>8. next' = IF k = 0 THEN [next EXCEPT ![n] = Null] ELSE [next EXCEPT ![t[k]] = n, ![n] = Null]
  <2>1. CASE k = 0
    BY <1>6, <2>1 DEF queue_put, queue_empty
  <2>2. CASE k # 0
    <3>1. k > 0 /\ back[q] = t[k] /\ ~queue_empty(q)
      BY <1>4, <1>6, <2>2 DEF queue_empty
    <3> QED BY <2>2, <3>1 DEF queue_put
  <2> QED BY <2>1, <2>2
<1> HIDE DEF s, k
<1>9. \A m \in Nodes : next'[m] = IF m = n THEN Null ELSE IF k > 0 /\ m = t[k] THEN n ELSE next[m]
  BY <1>1, <1>4, <1>8 DEF PointersTyped
<1>10. /\ next' \in [Nodes -> Nodes \cup {Null}] /\ front' \in [Queues -> Nodes \cup {Null}]
       /\ back' \in [Queues -> Nodes \cup {Null}] /\ elements' \in [Queues -> Nat]
  <2>1. k > 0 => t[1] \in Nodes /\ t[k] \in Nodes
    BY <1>4
  <2> QED BY <1>1, <1>4, <1>7, <1>8, <2>1 DEF PointersTyped
<1>11. ASSUME NEW i \in 1 .. k + 1 PROVE next'[s[i]] = IF i = k + 1 THEN Null ELSE s[i + 1]
  <2>1. CASE i = k + 1
    BY <1>5, <1>9, <2>1
  <2>2. CASE i # k + 1
    <3>1. i \in 1 .. k /\ i + 1 \in 1 .. k + 1 /\ s[i] = t[i] /\ t[i] \in Nodes /\ t[i] # n
      BY <1>4, <1>5, <2>2
    <3>2. CASE i = k
      BY <1>4, <1>5, <1>9, <3>1, <3>2
    <3>3. CASE i # k
      <4>1. next'[t[i]] = next[t[i]]
        BY <1>4, <1>6, <1>9, <3>1, <3>3
      <4>2. next[t[i]] = t[i + 1] /\ s[i + 1] = t[i + 1]
        BY <1>4, <1>5, <1>6, <3>1, <3>3
      <4> QED BY <2>2, <3>1, <4>1, <4>2
    <3> QED BY <3>2, <3>3
  <2> QED BY <2>1, <2>2
<1>12. \A i, j \in 1 .. k + 1 : s[i] = s[j] => i = j
  BY <1>4, <1>5, <1>6
<1>13. s[1] = (IF k = 0 THEN n ELSE t[1]) /\ s[k + 1] = n
  BY <1>4, <1>5
<1>14. Holds(q, s, next', front'[q], back'[q], elements'[q])
  BY <1>1, <1>4, <1>5, <1>7, <1>11, <1>12, <1>13 DEF Holds, PointersTyped
<1>15. \A i \in 1 .. Len(s) : Own(lists, q, s[i])
  BY <1>3, <1>4, <1>5
<1>16. \A m \in Nodes : next'[m] = next[m] \/ Own(lists, q, m)
  BY <1>3, <1>4, <1>9
<1>17. \A r \in Queues \ {q} : front'[r] = front[r] /\ back'[r] = back[r] /\ elements'[r] = elements[r]
  BY <1>1, <1>7 DEF PointersTyped
<1>18. ListsInv' /\ lists' = [lists EXCEPT ![q] = s]
  BY <1>5, <1>10, <1>14, <1>15, <1>16, <1>17, Relisted
<1> QED BY <1>2, <1>18 DEF Abstract!Put, queue_put, s, t

LEMMA PutFrontPrepends ==
    ASSUME ListsInv, NEW q \in Queues, NEW n \in Nodes, queue_put_front(q, n)
    PROVE  ListsInv' /\ Abstract!PutFront(q, n)
<1> DEFINE t == lists[q]
           k == Len(t)
           s == <<n>> \o t
<1>1. ListOK(q, t) /\ PointersTyped
  BY InvGives
<1>2. Unlinked(lists, n) /\ Abstract!Free(n)
  BY LinkedReads DEF queue_put_front
<1>3. n # Null /\ Own(lists, q, n)
  BY <1>1, <1>2 DEF PointersTyped, Own
<1> HIDE DEF t
<1>4. t \in Seq(Nodes) /\ k \in Nat /\ \A i \in 1 .. k : t[i] \in Nodes /\ Own(lists, q, t[i]) /\ t[i] # n
  BY <1>1, <1>2 DEF ListOK, Unlinked
<1>5. s \in Seq(Nodes) /\ Len(s) = k + 1 /\ \A i \in 1 .. k + 1 : s[i] = IF i = 1 THEN n ELSE t[i - 1]
  BY <1>4, ConsFacts
<1>6. /\ elements[q] = k /\ front[q] = IF k = 0 THEN Null ELSE t[1]
      /\ \A i \in 1 .. k : next[t[i]] = IF i = k THEN Null ELSE t[i + 1]
      /\ "put" \in Uses[q] /\ k > 0 => back[q] = t[k]
      /\ \A i, j \in 1 .. k : t[i] = t[j] => i = j
  BY <1>1 DEF ListOK, Holds
<1>7. /\ front' = [front EXCEPT ![q] = n] /\ elements' = [elements EXCEPT ![q] = k + 1]
      /\ back' = [back EXCEPT ![q] = IF k = 0 THEN n ELSE back[q]]
      /\ next' = [next EXCEPT ![n] = IF k = 0 THEN Null ELSE t[1]]
  BY <1>1, <1>6 DEF queue_put_front, queue_empty, PointersTyped
<1> HIDE DEF s, k
<1>8. \A m \in Nodes : next'[m] = IF m = n THEN IF k = 0 THEN Null ELSE t[1] ELSE next[m]
  BY <1>1, <1>7 DEF PointersTyped
<1>9. /\ next' \in [Nodes -> Nodes \cup {Null}] /\ front' \in [Queues -> Nodes \cup {Null}]
      /\ back' \in [Queues -> Nodes \cup {Null}] /\ elements' \in [Queues -> Nat]
  <2>1. k # 0 => t[1] \in Nodes
    BY <1>4
  <2> QED BY <1>1, <1>4, <1>7, <2>1 DEF PointersTyped
<1>10. ASSUME NEW i \in 1 .. k + 1 PROVE next'[s[i]] = IF i = k + 1 THEN Null ELSE s[i + 1]
  <2>1. i + 1 \in 1 .. k + 1 \/ i = k + 1
    BY <1>4
  <2>2. CASE i = 1
    <3>1. next'[s[i]] = IF k = 0 THEN Null ELSE t[1]
      BY <1>4, <1>5, <1>8, <2>2
    <3>2. CASE k = 0
      BY <2>2, <3>1, <3>2
    <3>3. CASE k # 0
      <4>1. i + 1 \in 1 .. k + 1 /\ i + 1 # 1 /\ (i + 1) - 1 = 1 /\ i # k + 1
        BY <1>4, <2>2, <3>3
      <4> QED BY <1>5, <3>1, <3>3, <4>1
    <3> QED BY <3>2, <3>3
  <2>3. CASE i # 1
    <3>1. i - 1 \in 1 .. k /\ s[i] = t[i - 1] /\ t[i - 1] \in Nodes /\ t[i - 1] # n
      BY <1>4, <1>5, <2>3
    <3>2. next'[s[i]] = IF i - 1 = k THEN Null ELSE t[(i - 1) + 1]
      BY <1>6, <1>8, <3>1
    <3>3. (i - 1 = k <=> i = k + 1) /\ (i - 1) + 1 = (i + 1) - 1 /\ i + 1 # 1
      BY <1>4
    <3> QED BY <1>5, <2>1, <3>2, <3>3
  <2> QED BY <2>2, <2>3
<1>11. \A i, j \in 1 .. k + 1 : s[i] = s[j] => i = j
  <2> SUFFICES ASSUME NEW i \in 1 .. k + 1, NEW j \in 1 .. k + 1, s[i] = s[j] PROVE i = j
    OBVIOUS
  <2>1. CASE i = 1 \/ j = 1
    BY <1>4, <1>5, <2>1
  <2>2. CASE i # 1 /\ j # 1
    <3>1. i - 1 \in 1 .. k /\ j - 1 \in 1 .. k /\ t[i - 1] = t[j - 1]
      BY <1>4, <1>5, <2>2
    <3>2. i - 1 = j - 1
      BY <1>6, <3>1
    <3> QED BY <3>2
  <2> QED BY <2>1, <2>2
<1>12. s[1] = n /\ ("put" \in Uses[q] => back'[q] = s[k + 1])
  <2>1. s[1] = n /\ s[k + 1] = IF k = 0 THEN n ELSE t[k]
    BY <1>4, <1>5
  <2>2. back'[q] = IF k = 0 THEN n ELSE back[q]
    BY <1>1, <1>7 DEF PointersTyped
  <2> QED BY <1>4, <1>6, <2>1, <2>2
<1>13. Holds(q, s, next', front'[q], back'[q], elements'[q])
  BY <1>1, <1>4, <1>5, <1>7, <1>10, <1>11, <1>12 DEF Holds, PointersTyped
<1>14. \A i \in 1 .. Len(s) : Own(lists, q, s[i])
  BY <1>3, <1>4, <1>5
<1>15. \A m \in Nodes : next'[m] = next[m] \/ Own(lists, q, m)
  BY <1>3, <1>8
<1>16. \A r \in Queues \ {q} : front'[r] = front[r] /\ back'[r] = back[r] /\ elements'[r] = elements[r]
  BY <1>1, <1>7 DEF PointersTyped
<1>17. ListsInv' /\ lists' = [lists EXCEPT ![q] = s]
  BY <1>5, <1>9, <1>13, <1>14, <1>15, <1>16, Relisted
<1> QED BY <1>2, <1>17 DEF Abstract!PutFront, queue_put_front, s, t

LEMMA GetTakesFront ==
    ASSUME ListsInv, NEW q \in Queues, queue_get(q)
    PROVE  ListsInv' /\ Abstract!Get(q)
<1> DEFINE t == lists[q]
           k == Len(t)
           s == Tail(t)
<1>1. ListOK(q, t) /\ PointersTyped
  BY InvGives
<1> HIDE DEF t
<1>2. /\ t \in Seq(Nodes) /\ k \in Nat /\ (t = <<>> <=> k = 0)
      /\ \A i \in 1 .. k : t[i] \in Nodes /\ Own(lists, q, t[i])
  BY <1>1 DEF ListOK
<1>3. /\ elements[q] = k /\ front[q] = IF k = 0 THEN Null ELSE t[1]
      /\ \A i \in 1 .. k : next[t[i]] = IF i = k THEN Null ELSE t[i + 1]
      /\ "put" \in Uses[q] /\ k > 0 => back[q] = t[k]
      /\ \A i, j \in 1 .. k : t[i] = t[j] => i = j
  BY <1>1 DEF ListOK, Holds
<1>4. CASE k = 0
  <2>1. got' = Null /\ UNCHANGED <<next, front, back, elements>>
    BY <1>3, <1>4 DEF queue_get, queue_empty
  <2>2. ListsInv' /\ lists' = lists
    BY <2>1, ListsKept
  <2> QED BY <1>2, <1>4, <2>1, <2>2 DEF Abstract!Get, t
<1>5. CASE k # 0
  <2>1. 1 \in 1 .. k /\ k \in 1 .. k /\ front[q] = t[1] /\ t[1] \in Nodes
    BY <1>2, <1>3, <1>5
  <2>2. /\ got' = t[1] /\ back' = back
        /\ front' = [front EXCEPT ![q] = IF k = 1 THEN Null ELSE t[2]]
        /\ next' = [next EXCEPT ![t[1]] = Null]
        /\ elements' = [elements EXCEPT ![q] = k - 1]
    BY <1>1, <1>3, <1>5, <2>1 DEF queue_get, queue_empty, PointersTyped
  <2>3. /\ s \in Seq(Nodes) /\ Len(s) = k - 1 /\ Head(t) = t[1]
        /\ \A i \in 1 .. k - 1 : s[i] = t[i + 1]
    BY <1>2, <1>5, HeadTailProperties
  <2> HIDE DEF s, k
  <2>4. \A m \in Nodes : next'[m] = IF m = t[1] THEN Null ELSE next[m]
    BY <1>1, <2>2 DEF PointersTyped
  <2>5. /\ next' \in [Nodes -> Nodes \cup {Null}] /\ front' \in [Queues -> Nodes \cup {Null}]
        /\ back' \in [Queues -> Nodes \cup {Null}] /\ elements' \in [Queues -> Nat]
    <3>1. (k # 1 => t[2] \in Nodes) /\ k - 1 \in Nat
      BY <1>2, <1>5
    <3> QED BY <1>1, <2>2, <3>1 DEF PointersTyped
  <2>6. ASSUME NEW i \in 1 .. k - 1 PROVE next'[s[i]] = IF i = k - 1 THEN Null ELSE s[i + 1]
    <3>1. i + 1 \in 1 .. k /\ s[i] = t[i + 1] /\ i + 1 # 1 /\ (i + 1 = k <=> i = k - 1)
      BY <1>2, <2>3
    <3>2. t[i + 1] # t[1] /\ t[i + 1] \in Nodes
      BY <1>2, <1>3, <2>1, <3>1
    <3>3. next'[s[i]] = IF i + 1 = k THEN Null ELSE t[(i + 1) + 1]
      BY <1>3, <2>4, <3>1, <3>2
    <3>4. i # k - 1 => i + 1 \in 1 .. k - 1
      BY <1>2
    <3> QED BY <2>3, <3>1, <3>3, <3>4
  <2>7. \A i, j \in 1 .. k - 1 : s[i] = s[j] => i = j
    <3> SUFFICES ASSUME NEW i \in 1 .. k - 1, NEW j \in 1 .. k - 1, s[i] = s[j] PROVE i = j
      OBVIOUS
    <3>1. i + 1 \in 1 .. k /\ j + 1 \in 1 .. k /\ t[i + 1] = t[j + 1]
      BY <1>2, <2>3
    <3>2. i + 1 = j + 1
      BY <1>3, <3>1
    <3> QED BY <3>2
  <2>8. k - 1 > 0 => s[k - 1] = t[k] /\ s[1] = t[2] /\ k # 1
    BY <1>2, <2>3
  <2>9. Holds(q, s, next', front'[q], back'[q], elements'[q])
    <3>1. front'[q] = (IF k = 1 THEN Null ELSE t[2]) /\ back'[q] = back[q] /\ elements'[q] = k - 1
      BY <1>1, <2>2 DEF PointersTyped
    <3>2. front'[q] = IF k - 1 = 0 THEN Null ELSE s[1]
      BY <1>2, <1>5, <2>8, <3>1
    <3>3. "put" \in Uses[q] /\ k - 1 > 0 => back'[q] = s[k - 1]
      BY <1>2, <1>3, <2>8, <3>1
    <3> QED BY <2>3, <2>6, <2>7, <3>1, <3>2, <3>3 DEF Holds
  <2>10. \A i \in 1 .. Len(s) : Own(lists, q, s[i])
    BY <1>2, <2>3
  <2>11. \A m \in Nodes : next'[m] = next[m] \/ Own(lists, q, m)
    BY <1>2, <2>1, <2>4
  <2>12. \A r \in Queues \ {q} : front'[r] = front[r] /\ back'[r] = back[r] /\ elements'[r] = elements[r]
    BY <1>1, <2>2 DEF PointersTyped
  <2>13. ListsInv' /\ lists' = [lists EXCEPT ![q] = s]
    BY <2>3, <2>5, <2>9, <2>10, <2>11, <2>12, Relisted
  <2>14. t # <<>> /\ got' = Head(t)
    BY <1>2, <1>5, <2>2, <2>3
  <2> QED BY <2>13, <2>14 DEF Abstract!Get, s, t
<1> QED BY <1>4, <1>5

LEMMA InsertPutsBehind ==
    ASSUME ListsInv, NEW q \in Queues, NEW n \in Nodes, NEW c \in 1 .. elements[q], insert_behind(q, c, n)
    PROVE  ListsInv' /\ c \in DOMAIN lists[q] /\ Abstract!PutBehind(q, c, n)
<1> DEFINE t == lists[q]
           k == Len(t)
           s == Abstract!InsertAt(t, c + 1, n)
<1>1. ListOK(q, t) /\ PointersTyped
  BY InvGives
<1>2. Unlinked(lists, n) /\ Abstract!Free(n)
  BY LinkedReads DEF insert_behind
<1>3. n # Null /\ Own(lists, q, n) /\ "put" \notin Uses[q]
  BY <1>1, <1>2, QueueAssumption DEF PointersTyped, Own, insert_behind
<1> HIDE DEF t
<1>4. /\ t \in Seq(Nodes) /\ k \in Nat /\ DOMAIN t = 1 .. k
      /\ \A i \in 1 .. k : t[i] \in Nodes /\ Own(lists, q, t[i]) /\ t[i] # n /\ At(q)[i] = t[i]
  BY <1>1, <1>2 DEF ListOK, Unlinked
<1>5. /\ elements[q] = k /\ front[q] = IF k = 0 THEN Null ELSE t[1]
      /\ \A i \in 1 .. k : next[t[i]] = IF i = k THEN Null ELSE t[i + 1]
      /\ \A i, j \in 1 .. k : t[i] = t[j] => i = j
  BY <1>1 DEF ListOK, Holds
<1>6. c \in 1 .. k /\ At(q)[c] = t[c] /\ t[c] \in Nodes /\ t[c] # n
  BY <1>4, <1>5
<1>7. /\ s \in Seq(Nodes) /\ Len(s) = k + 1
      /\ \A i \in 1 .. k + 1 : s[i] = IF i <= c THEN t[i] ELSE IF i = c + 1 THEN n ELSE t[i - 1]
  <2>1. t \in Seq(Nodes) /\ c \in 1 .. Len(t)
    BY <1>4, <1>6
  <2> QED BY <2>1, InsertFacts
<1>8. /\ next' = [next EXCEPT ![n] = next[t[c]], ![t[c]] = n]
      /\ elements' = [elements EXCEPT ![q] = k + 1]
      /\ front' = front /\ back' = back
  BY <1>1, <1>5, <1>6 DEF insert_behind, PointersTyped
<1> HIDE DEF s, k
<1>9. \A m \in Nodes : next'[m] = IF m = t[c] THEN n ELSE IF m = n THEN next[t[c]] ELSE next[m]
  BY <1>1, <1>6, <1>8 DEF PointersTyped
<1>10. /\ next' \in [Nodes -> Nodes \cup {Null}] /\ front' \in [Queues -> Nodes \cup {Null}]
       /\ back' \in [Queues -> Nodes \cup {Null}] /\ elements' \in [Queues -> Nat]
  BY <1>1, <1>4, <1>6, <1>8 DEF PointersTyped
<1>11. ASSUME NEW i \in 1 .. k + 1 PROVE next'[s[i]] = IF i = k + 1 THEN Null ELSE s[i + 1]
  <2>0. c \in Int /\ 1 <= c /\ c <= k /\ i \in Int /\ 1 <= i /\ i <= k + 1 /\ k \in Nat
    BY <1>4, <1>6
  <2>1. CASE i < c
    <3>1. i \in 1 .. k /\ i + 1 \in 1 .. k + 1 /\ i + 1 <= c /\ i <= c /\ i # k /\ i # k + 1 /\ i # c
      BY <2>0, <2>1
    <3>2. s[i] = t[i] /\ s[i + 1] = t[i + 1]
      BY <1>7, <3>1
    <3>3. t[i] \in Nodes /\ t[i] # n /\ t[i] # t[c]
      BY <1>4, <1>5, <1>6, <3>1
    <3>4. next'[t[i]] = t[i + 1]
      BY <1>5, <1>9, <3>1, <3>3
    <3> QED BY <3>1, <3>2, <3>4
  <2>2. CASE i = c
    <3>1. i <= c /\ i + 1 \in 1 .. k + 1 /\ ~(i + 1 <= c) /\ i + 1 = c + 1 /\ i # k + 1
      BY <2>0, <2>2
    <3>2. s[i] = t[c] /\ s[i + 1] = n
      BY <1>7, <2>2, <3>1
    <3> QED BY <1>6, <1>9, <3>1, <3>2
  <2>3. CASE i = c + 1
    <3>1. ~(i <= c) /\ (c = k <=> i = k + 1)
      BY <2>0, <2>3
    <3>2. s[i] = n
      BY <1>7, <2>3, <3>1
    <3>3. next'[n] = next[t[c]]
      BY <1>6, <1>9
    <3>4. next[t[c]] = IF c = k THEN Null ELSE t[c + 1]
      BY <1>5, <1>6
    <3>5. i # k + 1 => s[i + 1] = t[c + 1]
      <4>1. i # k + 1 => i + 1 \in 1 .. k + 1
        BY <2>0
      <4>2. ~(i + 1 <= c) /\ i + 1 # c + 1 /\ (i + 1) - 1 = c + 1
        BY <2>0, <2>3
      <4> QED BY <1>7, <4>1, <4>2
    <3> QED BY <3>1, <3>2, <3>3, <3>4, <3>5
  <2>4. CASE i > c + 1
    <3>1. i - 1 \in 1 .. k /\ ~(i <= c) /\ i # c + 1 /\ i - 1 # c /\ (i - 1 = k <=> i = k + 1) /\ (i - 1) + 1 = i
      BY <2>0, <2>4
    <3>2. s[i] = t[i - 1]
      BY <1>7, <3>1
    <3>3. t[i - 1] \in Nodes /\ t[i - 1] # n /\ t[i - 1] # t[c]
      BY <1>4, <1>5, <1>6, <3>1
    <3>4. next'[t[i - 1]] = IF i = k + 1 THEN Null ELSE t[i]
      BY <1>5, <1>9, <3>1, <3>3
    <3>5. i # k + 1 => s[i + 1] = t[i]
      <4>1. i # k + 1 => i + 1 \in 1 .. k + 1
        BY <2>0
      <4>2. ~(i + 1 <= c) /\ i + 1 # c + 1 /\ (i + 1) - 1 = i
        BY <2>0, <2>4
      <4> QED BY <1>7, <4>1, <4>2
    <3> QED BY <3>2, <3>4, <3>5
  <2> QED BY <2>0, <2>1, <2>2, <2>3, <2>4
\* Which node of the old list a node of the new one is.
<1> DEFINE old(i) == IF i <= c THEN i ELSE i - 1
<1>12. ASSUME NEW i \in 1 .. k + 1, i # c + 1 PROVE old(i) \in 1 .. k /\ s[i] = t[old(i)]
  <2>1. old(i) \in 1 .. k
    BY <1>4, <1>6, <1>12
  <2> QED BY <1>7, <1>12, <2>1
<1>13. \A i, j \in 1 .. k + 1 : s[i] = s[j] => i = j
  <2> SUFFICES ASSUME NEW i \in 1 .. k + 1, NEW j \in 1 .. k + 1, s[i] = s[j] PROVE i = j
    OBVIOUS
  <2>1. \A x \in 1 .. k + 1 : s[x] = n <=> x = c + 1
    <3> TAKE x \in 1 .. k + 1
    <3>1. CASE x = c + 1
      <4>1. ~(x <= c)
        BY <1>6, <3>1
      <4> QED BY <1>7, <3>1, <4>1
    <3>2. CASE x # c + 1
      <4>1. old(x) \in 1 .. k /\ s[x] = t[old(x)]
        BY <1>12, <3>2
      <4> QED BY <1>4, <3>2, <4>1
    <3> QED BY <3>1, <3>2
  <2>2. CASE i = c + 1 \/ j = c + 1
    BY <2>1, <2>2
  <2>3. CASE i # c + 1 /\ j # c + 1
    <3>1. old(i) \in 1 .. k /\ old(j) \in 1 .. k /\ t[old(i)] = t[old(j)]
      BY <1>12, <2>3
    <3>2. old(i) = old(j)
      BY <1>5, <3>1
    <3> QED BY <1>6, <2>3, <3>2
  <2> QED BY <2>2, <2>3
<1>14. s[1] = t[1] /\ k # 0
  BY <1>4, <1>6, <1>7
<1>15. Holds(q, s, next', front'[q], back'[q], elements'[q])
  <2>1. front'[q] = s[1] /\ elements'[q] = k + 1 /\ k + 1 # 0
    BY <1>1, <1>4, <1>5, <1>8, <1>14 DEF PointersTyped
  <2> QED BY <1>3, <1>7, <1>11, <1>13, <2>1 DEF Holds
<1>16. ASSUME NEW i \in 1 .. k + 1 PROVE Own(lists, q, s[i])
  <2>1. CASE i = c + 1
    <3>1. ~(i <= c)
      BY <1>6, <2>1
    <3>2. s[i] = n
      BY <1>7, <2>1, <3>1
    <3> QED BY <1>3, <3>2
  <2>2. CASE i # c + 1
    <3>1. old(i) \in 1 .. k /\ s[i] = t[old(i)]
      BY <1>12, <2>2
    <3> HIDE DEF old
    <3> QED BY <1>4, <3>1
  <2> QED BY <2>1, <2>2
<1>17. \A m \in Nodes : next'[m] = next[m] \/ Own(lists, q, m)
  BY <1>3, <1>4, <1>6, <1>9
<1>18. \A r \in Queues \ {q} : front'[r] = front[r] /\ back'[r] = back[r] /\ elements'[r] = elements[r]
  BY <1>1, <1>8 DEF PointersTyped
<1>19. ListsInv' /\ lists' = [lists EXCEPT ![q] = s]
  BY <1>7, <1>10, <1>15, <1>16, <1>17, <1>18, Relisted
<1>20. got' = got /\ c \in DOMAIN t
  BY <1>4, <1>6 DEF insert_behind
<1> QED BY <1>2, <1>19, <1>20 DEF Abstract!PutBehind, s, t

LEMMA MtfMovesToFront ==
    ASSUME MtfOfFrontOnly, ListsInv, NEW q \in Queues, NEW c \in 1 .. elements[q], queue_mtf(q, c)
    PROVE  ListsInv' /\ c \in DOMAIN lists[q] /\ Abstract!MoveToFront(q, c)
<1> DEFINE t == lists[q]
           k == Len(t)
           s == Abstract!ToFront(t, 1)
<1>1. ListOK(q, t) /\ PointersTyped
  BY InvGives
<1>2. c = 1 /\ "put" \notin Uses[q]
  BY QueueAssumption DEF MtfOfFrontOnly, queue_mtf
<1> HIDE DEF t
<1>3. /\ t \in Seq(Nodes) /\ k \in Nat /\ DOMAIN t = 1 .. k
      /\ \A i \in 1 .. k : t[i] \in Nodes /\ Own(lists, q, t[i]) /\ At(q)[i] = t[i]
  BY <1>1 DEF ListOK
<1>4. /\ elements[q] = k /\ front[q] = IF k = 0 THEN Null ELSE t[1]
      /\ \A i \in 1 .. k : next[t[i]] = IF i = k THEN Null ELSE t[i + 1]
      /\ \A i, j \in 1 .. k : t[i] = t[j] => i = j
  BY <1>1 DEF ListOK, Holds
<1> HIDE DEF s, k
<1>5. 1 \in 1 .. k /\ At(q)[1] = t[1]
  BY <1>2, <1>3, <1>4
<1>6. next[t[1]] # Null
  BY <1>2, <1>5 DEF queue_mtf
<1>7. k # 1 /\ next[t[1]] = t[2]
  BY <1>3, <1>4, <1>5, <1>6
<1>8. 2 <= k /\ 2 \in 1 .. k /\ t[1] \in Nodes /\ t[2] \in Nodes /\ t[1] # t[2]
  BY <1>3, <1>4, <1>5, <1>7
<1>9. /\ s \in Seq(Nodes) /\ Len(s) = k
      /\ \A i \in 1 .. k : s[i] = IF i = 1 THEN t[2] ELSE IF i = 2 THEN t[1] ELSE t[i]
  BY <1>3, <1>8, ToFrontFacts DEF s, k
<1>10. /\ next' = [next EXCEPT ![t[1]] = next[t[2]], ![t[2]] = t[1]]
       /\ front' = [front EXCEPT ![q] = t[2]]
       /\ back' = back /\ elements' = elements
  BY <1>2, <1>5, <1>7 DEF queue_mtf
<1>11. \A m \in Nodes : next'[m] = IF m = t[2] THEN t[1] ELSE IF m = t[1] THEN next[t[2]] ELSE next[m]
  BY <1>1, <1>8, <1>10 DEF PointersTyped
<1>12. /\ next' \in [Nodes -> Nodes \cup {Null}] /\ front' \in [Queues -> Nodes \cup {Null}]
       /\ back' \in [Queues -> Nodes \cup {Null}] /\ elements' \in [Queues -> Nat]
  BY <1>1, <1>8, <1>10 DEF PointersTyped
<1>13. ASSUME NEW i \in 1 .. k PROVE next'[s[i]] = IF i = k THEN Null ELSE s[i + 1]
  <2>1. CASE i = 1
    <3>1. 1 + 1 = 2 /\ s[1] = t[2] /\ s[2] = t[1]
      BY <1>8, <1>9
    <3> QED BY <1>7, <1>8, <1>11, <2>1, <3>1
  <2>2. CASE i = 2
    <3>1. s[2] = t[1] /\ next'[t[1]] = next[t[2]] /\ next[t[2]] = IF 2 = k THEN Null ELSE t[2 + 1]
      BY <1>4, <1>8, <1>9, <1>11
    <3>2. k # 2 => 2 + 1 \in 1 .. k /\ 2 + 1 # 1 /\ 2 + 1 # 2
      BY <1>3, <1>8
    <3> QED BY <1>9, <2>2, <3>1, <3>2
  <2>3. CASE i # 1 /\ i # 2
    <3>1. s[i] = t[i] /\ t[i] \in Nodes /\ t[i] # t[1] /\ t[i] # t[2]
      BY <1>3, <1>4, <1>5, <1>8, <1>9, <2>3
    <3>2. next'[t[i]] = IF i = k THEN Null ELSE t[i + 1]
      BY <1>4, <1>11, <3>1
    <3>3. i # k => i + 1 \in 1 .. k /\ i + 1 # 1 /\ i + 1 # 2
      BY <1>3, <2>3
    <3> QED BY <1>9, <3>1, <3>2, <3>3
  <2> QED BY <2>1, <2>2, <2>3
<1>14. \A i, j \in 1 .. k : s[i] = s[j] => i = j
  BY <1>4, <1>5, <1>8, <1>9
<1>15. Holds(q, s, next', front'[q], back'[q], elements'[q])
  <2>1. front'[q] = s[1] /\ elements'[q] = k /\ k # 0
    BY <1>1, <1>3, <1>4, <1>5, <1>8, <1>9, <1>10 DEF PointersTyped
  <2> QED BY <1>2, <1>9, <1>13, <1>14, <2>1 DEF Holds
<1>16. \A i \in 1 .. Len(s) : Own(lists, q, s[i])
  BY <1>3, <1>5, <1>8, <1>9
<1>17. \A m \in Nodes : next'[m] = next[m] \/ Own(lists, q, m)
  BY <1>3, <1>5, <1>8, <1>11
<1>18. \A r \in Queues \ {q} : front'[r] = front[r] /\ back'[r] = back[r] /\ elements'[r] = elements[r]
  BY <1>1, <1>10 DEF PointersTyped
<1>19. ListsInv' /\ lists' = [lists EXCEPT ![q] = s]
  BY <1>9, <1>12, <1>15, <1>16, <1>17, <1>18, Relisted
<1>20. got' = got /\ c \in DOMAIN t /\ c < Len(t)
  BY <1>2, <1>3, <1>5, <1>8 DEF queue_mtf, k
<1> QED BY <1>2, <1>19, <1>20 DEF Abstract!MoveToFront, s, t

-----------------------------------------------------------------------------
(* The theorems. *)

LEMMA ListsInit == Init => ListsInv /\ Abstract!Init
<1> SUFFICES ASSUME Init PROVE ListsInv /\ Abstract!Init
  OBVIOUS
<1> DEFINE L == [q \in Queues |-> <<>>]
<1>1. L \in [Queues -> Seq(Nodes)] /\ \A q \in Queues : L[q] = <<>> /\ Len(L[q]) = 0
  BY EmptySeq
<1> HIDE DEF L
<1>2. ListsIn(L, next, front, back, elements)
  BY <1>1 DEF Init, ListsIn, Holds, Apart
<1>3. lists = L
  BY <1>2, ListsRead
<1> QED BY <1>2, <1>3 DEF ListsInv, Abstract!Init, Init, L

LEMMA ListsStep ==
    ASSUME MtfOfFrontOnly, ListsInv, [Next]_vars
    PROVE  ListsInv' /\ [Abstract!Next]_(Abstract!vars)
<1>1. CASE UNCHANGED vars
  <2>1. ListsInv' /\ lists' = lists
    BY <1>1, ListsKept DEF vars
  <2> QED BY <1>1, <2>1 DEF vars, Abstract!vars
<1>2. ASSUME NEW q \in Queues, queue_get(q) PROVE ListsInv' /\ Abstract!Next
  BY <1>2, GetTakesFront DEF Abstract!Next
<1>3. ASSUME NEW q \in Queues, NEW n \in Nodes, queue_put(q, n) PROVE ListsInv' /\ Abstract!Next
  BY <1>3, PutAppends DEF Abstract!Next
<1>4. ASSUME NEW q \in Queues, NEW n \in Nodes, queue_put_front(q, n) PROVE ListsInv' /\ Abstract!Next
  BY <1>4, PutFrontPrepends DEF Abstract!Next
<1>5. ASSUME NEW q \in Queues, NEW n \in Nodes, NEW i \in 1 .. elements[q], insert_behind(q, i, n)
      PROVE  ListsInv' /\ Abstract!Next
  BY <1>5, InsertPutsBehind DEF Abstract!Next
<1>6. ASSUME NEW q \in Queues, NEW i \in 1 .. elements[q], queue_mtf(q, i)
      PROVE  ListsInv' /\ Abstract!Next
  BY <1>6, MtfMovesToFront DEF Abstract!Next
<1> QED BY <1>1, <1>2, <1>3, <1>4, <1>5, <1>6 DEF Next

\* In every list of queue.c, whatever the interleaving of its operations, `elements` is the
\* number of nodes from front to NULL, and back is the last node wherever queue_put may
\* follow it, as long as queue_mtf is called with the front only.
THEOREM QueueWellFormed == ASSUME MtfOfFrontOnly PROVE Spec => []WellFormed
<1>1. ListsInv => WellFormed
  <2> SUFFICES ASSUME ListsInv, NEW q \in Queues
               PROVE  /\ \A i \in 1 .. elements[q] : At(q)[i] # Null
                      /\ At(q)[elements[q] + 1] = Null
                      /\ "put" \in Uses[q] /\ elements[q] > 0 => back[q] = At(q)[elements[q]]
    BY DEF WellFormed, CountExact, BackIsLast
  <2>1. ListOK(q, lists[q]) /\ Null \notin Nodes
    BY InvGives DEF PointersTyped
  <2>2. At(q)[Len(lists[q]) + 1] = Null
    BY WalkReads DEF ListsInv
  <2> QED BY <2>1, <2>2 DEF ListOK, Holds
<1>2. ListsInv /\ [Next]_vars => ListsInv'
  BY ListsStep
<1> QED BY <1>1, <1>2, ListsInit, PTL DEF Spec

\* The linked lists are sequences: put, put_front and get of queue.c, its mtf called with the
\* front, and the clock server's own insertion behind a node, do to the nodes of their list
\* what the caller means and leave all other lists alone.
THEOREM QueueImplements == ASSUME MtfOfFrontOnly PROVE Spec => ImplementsDeques
<1>1. ListsInv /\ [Next]_vars => ListsInv' /\ [Abstract!Next]_(Abstract!vars)
  BY ListsStep
<1> QED BY <1>1, ListsInit, PTL DEF Spec, ImplementsDeques, Abstract!Spec
=============================================================================
