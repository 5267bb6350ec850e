---------------------------- MODULE ClockProofs ----------------------------
(***************************************************************************)
(* The invariants of the clock server, for any clients, requests and width *)
(* of a word.                                                              *)
(***************************************************************************)
EXTENDS ClockServer, FiniteSetTheorems, WellFoundedInduction, TLAPS

-----------------------------------------------------------------------------
(* Sequences. *)

LEMMA AppendFacts ==
    ASSUME NEW S, NEW s \in Seq(S), NEW e \in S
    PROVE  /\ Append(s, e) \in Seq(S)
           /\ Len(Append(s, e)) = Len(s) + 1
           /\ DOMAIN Append(s, e) = 1 .. Len(s) + 1
           /\ \A i \in 1 .. Len(s) : Append(s, e)[i] = s[i]
           /\ Append(s, e)[Len(s) + 1] = e
  OBVIOUS

LEMMA TailFacts ==
    ASSUME NEW S, NEW s \in Seq(S), s # <<>>
    PROVE  /\ Tail(s) \in Seq(S)
           /\ Len(s) \in Nat \ {0} /\ Len(Tail(s)) = Len(s) - 1
           /\ DOMAIN s = 1 .. Len(s) /\ DOMAIN Tail(s) = 1 .. Len(s) - 1
           /\ \A i \in 1 .. Len(s) - 1 : Tail(s)[i] = s[i + 1]
           /\ Head(s) = s[1] /\ Head(s) \in S
  OBVIOUS

\* Every nonempty set of positions has a first one.
LEMMA FirstPosition ==
    ASSUME NEW I \in SUBSET Nat, I # {}
    PROVE  Min(I) \in I /\ \A j \in I : Min(I) <= j
<1>1. \E x \in I : \A y \in I : ~(<<y, x>> \in OpToRel(<, Nat))
  BY NatLessThanWellFounded, WFMin
<1>2. \A x, y \in Nat : y < x => <<y, x>> \in OpToRel(<, Nat)
  BY DEF OpToRel
<1>3. PICK x \in I : \A y \in I : ~(<<y, x>> \in OpToRel(<, Nat))
  BY <1>1
<1>4. \A y \in I : x <= y
  <2> TAKE y \in I
  <2>1. ~(y < x)
    BY <1>2, <1>3
  <2> QED BY <2>1
<1> QED BY <1>4 DEF Min

\* r is s with e inserted at position k.
IsInsertion(r, s, k, e) ==
    /\ k \in 1 .. Len(s) + 1
    /\ Len(r) = Len(s) + 1
    /\ \A i \in 1 .. k - 1 : r[i] = s[i]
    /\ r[k] = e
    /\ \A i \in k + 1 .. Len(s) + 1 : r[i] = s[i - 1]

LEMMA InsertAtFacts ==
    ASSUME NEW S, NEW s \in Seq(S), NEW e \in S, NEW k \in 1 .. Len(s)
    PROVE  InsertAt(s, k, e) \in Seq(S) /\ IsInsertion(InsertAt(s, k, e), s, k, e)
  BY DEF InsertAt, IsInsertion

\* InsertSorted puts e behind all entries that are not due later, before the first that is.
LEMMA InsertSortedFacts ==
    ASSUME NEW s \in Seq(Entries), NEW e \in Entries
    PROVE  /\ InsertSorted(s, e) \in Seq(Entries)
           /\ \E k \in 1 .. Len(s) + 1 :
                 /\ IsInsertion(InsertSorted(s, e), s, k, e)
                 /\ \A i \in 1 .. k - 1 : ~(s[i].ticks > e.ticks)
                 /\ k <= Len(s) => s[k].ticks > e.ticks
<1> DEFINE I == {i \in 1 .. Len(s) : s[i].ticks > e.ticks}
           r == InsertSorted(s, e)
<1>1. CASE I = {}
  <2>1. r = Append(s, e)
    BY <1>1 DEF InsertSorted, SelectInSeq
  <2>2. IsInsertion(r, s, Len(s) + 1, e) /\ r \in Seq(Entries)
    BY <2>1, AppendFacts DEF IsInsertion
  <2> QED BY <1>1, <2>2
<1>2. CASE I # {}
  <2>1. Min(I) \in I /\ \A j \in I : Min(I) <= j
    <3>1. I \in SUBSET Nat
      OBVIOUS
    <3> HIDE DEF I
    <3> QED BY <1>2, <3>1, FirstPosition
  <2>2. r = InsertAt(s, Min(I), e)
    BY <1>2, <2>1 DEF InsertSorted, SelectInSeq
  <2>3. IsInsertion(r, s, Min(I), e) /\ r \in Seq(Entries)
    BY <2>1, <2>2, InsertAtFacts
  <2>4. Min(I) \in 1 .. Len(s) /\ s[Min(I)].ticks > e.ticks
    BY <2>1
  <2>5. \A i \in 1 .. Min(I) - 1 : ~(s[i].ticks > e.ticks)
    BY <2>1, <2>4
  <2> QED BY <2>3, <2>4, <2>5
<1> QED BY <1>1, <1>2

-----------------------------------------------------------------------------
(* The inductive invariant. *)

Senders(q) == {q[i].from : i \in DOMAIN q}
Sleepers(q) == {q[i].tid : i \in DOMAIN q}
SendersOnce(q) == \A i, j \in DOMAIN q : q[i].from = q[j].from => i = j
SleepersOnce(q) == \A i, j \in DOMAIN q : q[i].tid = q[j].tid => i = j

\* TypeOK without the bounds of `free`.
Typed ==
    /\ inbox \in Seq(Messages)
    /\ server \in {"serving", "draining", "exited"}
    /\ ticks \in 0 .. Word - 1
    /\ blocked \in Seq(Entries)
    /\ free \in Int
    /\ exiter_tid \in Clients \cup {"none"}
    /\ notifier \in {"running", "awaiting", "woken", "sending", "leaving", "exited"}
    /\ call \in [Clients -> Requests \cup {Idle}]
    /\ result \in [Clients -> Ints]
    /\ elapsed \in [Clients -> 0 .. IntMax]

\* A tick comes from the notifier, which then waits for the answer; everything else from clients.
TicksFromNotifier ==
    /\ \A i \in DOMAIN inbox : inbox[i].type = "TICK" <=> inbox[i].from = "notifier"
    /\ "notifier" \in Senders(inbox) => notifier = "sending"

\* Nobody is in two places, and who is in one is blocked in a call.
InOnePlace ==
    /\ SendersOnce(inbox) /\ SleepersOnce(blocked)
    /\ Senders(inbox) \cap Sleepers(blocked) = {}
    /\ \A c \in Clients : c \in Senders(inbox) \cup Sleepers(blocked) => call[c] # Idle

\* Whoever is blocked in a call is in some place.
NobodyLost ==
    server = "serving" =>
        \A c \in Clients : call[c] # Idle => c \in Senders(inbox) \cup Sleepers(blocked)

\* The task that asked for the exit waits, and only for the end of the shutdown.
ExiterWaits ==
    server = "draining" =>
        /\ exiter_tid \in Clients /\ call[exiter_tid] # Idle
        /\ exiter_tid \notin Senders(inbox) \cup Sleepers(blocked)

Placed == TicksFromNotifier /\ InOnePlace /\ NobodyLost /\ ExiterWaits

ClockInv == Typed /\ Placed /\ BlockedSorted /\ EntriesConserved

-----------------------------------------------------------------------------
(* How the places change when the sequences do. *)

LEMMA SendersAppend ==
    ASSUME NEW q \in Seq(Messages), NEW m \in Messages, SendersOnce(q), m.from \notin Senders(q)
    PROVE  SendersOnce(Append(q, m)) /\ Senders(Append(q, m)) = Senders(q) \cup {m.from}
<1> DEFINE r == Append(q, m)
<1>1. /\ DOMAIN q = 1 .. Len(q) /\ Len(q) \in Nat
      /\ DOMAIN r = 1 .. Len(q) + 1
      /\ \A i \in 1 .. Len(q) : r[i] = q[i]
      /\ r[Len(q) + 1] = m
  BY AppendFacts
<1> HIDE DEF r
<1>2. Senders(r) = Senders(q) \cup {m.from}
  <2>1. \A i \in DOMAIN r : r[i].from \in Senders(q) \cup {m.from}
    BY <1>1 DEF Senders
  <2>2. \A i \in DOMAIN q : i \in DOMAIN r /\ r[i].from = q[i].from
    BY <1>1
  <2>3. Len(q) + 1 \in DOMAIN r /\ r[Len(q) + 1].from = m.from
    BY <1>1
  <2> QED BY <2>1, <2>2, <2>3 DEF Senders
<1>3. SendersOnce(r)
  BY <1>1 DEF SendersOnce, Senders
<1> QED BY <1>2, <1>3 DEF r

LEMMA SendersTail ==
    ASSUME NEW q \in Seq(Messages), q # <<>>, SendersOnce(q)
    PROVE  SendersOnce(Tail(q)) /\ Senders(Tail(q)) = Senders(q) \ {Head(q).from}
<1> DEFINE r == Tail(q)
<1>1. /\ DOMAIN q = 1 .. Len(q) /\ Len(q) \in Nat \ {0}
      /\ DOMAIN r = 1 .. Len(q) - 1
      /\ \A i \in 1 .. Len(q) - 1 : r[i] = q[i + 1]
      /\ Head(q) = q[1]
  BY TailFacts
<1> HIDE DEF r
<1>2. Senders(r) = Senders(q) \ {Head(q).from}
  <2>1. \A i \in DOMAIN r : r[i].from \in Senders(q) \ {Head(q).from}
    BY <1>1 DEF Senders, SendersOnce
  <2>2. ASSUME NEW i \in DOMAIN q, q[i].from # Head(q).from
        PROVE  i - 1 \in DOMAIN r /\ r[i - 1].from = q[i].from
    BY <1>1, <2>2
  <2> QED BY <2>1, <2>2 DEF Senders
<1>3. SendersOnce(r)
  BY <1>1 DEF SendersOnce
<1> QED BY <1>2, <1>3 DEF r

LEMMA SleepersTail ==
    ASSUME NEW q \in Seq(Entries), q # <<>>, SleepersOnce(q)
    PROVE  SleepersOnce(Tail(q)) /\ Sleepers(Tail(q)) = Sleepers(q) \ {Head(q).tid}
<1> DEFINE r == Tail(q)
<1>1. /\ DOMAIN q = 1 .. Len(q) /\ Len(q) \in Nat \ {0}
      /\ DOMAIN r = 1 .. Len(q) - 1
      /\ \A i \in 1 .. Len(q) - 1 : r[i] = q[i + 1]
      /\ Head(q) = q[1]
  BY TailFacts
<1> HIDE DEF r
<1>2. Sleepers(r) = Sleepers(q) \ {Head(q).tid}
  <2>1. \A i \in DOMAIN r : r[i].tid \in Sleepers(q) \ {Head(q).tid}
    BY <1>1 DEF Sleepers, SleepersOnce
  <2>2. ASSUME NEW i \in DOMAIN q, q[i].tid # Head(q).tid
        PROVE  i - 1 \in DOMAIN r /\ r[i - 1].tid = q[i].tid
    BY <1>1, <2>2
  <2> QED BY <2>1, <2>2 DEF Sleepers
<1>3. SleepersOnce(r)
  BY <1>1 DEF SleepersOnce
<1> QED BY <1>2, <1>3 DEF r

LEMMA SleepersInsert ==
    ASSUME NEW q \in Seq(Entries), NEW r \in Seq(Entries), NEW e \in Entries, NEW k \in Nat,
           IsInsertion(r, q, k, e), SleepersOnce(q), e.tid \notin Sleepers(q)
    PROVE  SleepersOnce(r) /\ Sleepers(r) = Sleepers(q) \cup {e.tid}
<1>1. /\ DOMAIN q = 1 .. Len(q) /\ Len(q) \in Nat
      /\ DOMAIN r = 1 .. Len(q) + 1
      /\ k \in 1 .. Len(q) + 1 /\ r[k] = e
      /\ \A i \in 1 .. k - 1 : r[i] = q[i]
      /\ \A i \in k + 1 .. Len(q) + 1 : r[i] = q[i - 1]
  BY DEF IsInsertion
<1>2. Sleepers(r) = Sleepers(q) \cup {e.tid}
  <2>1. \A i \in DOMAIN r : r[i].tid \in Sleepers(q) \cup {e.tid}
    BY <1>1 DEF Sleepers
  <2>2. ASSUME NEW i \in DOMAIN q
        PROVE  \E j \in DOMAIN r : r[j].tid = q[i].tid
    <3>1. CASE i < k
      BY <1>1, <3>1
    <3>2. CASE i >= k
      <4>1. i + 1 \in DOMAIN r /\ r[i + 1] = q[i]
        BY <1>1, <3>2
      <4> QED BY <4>1
    <3> QED BY <1>1, <3>1, <3>2
  <2>3. k \in DOMAIN r /\ r[k].tid = e.tid
    BY <1>1
  <2> QED BY <2>1, <2>2, <2>3 DEF Sleepers
<1>3. SleepersOnce(r)
  <2> SUFFICES ASSUME NEW i \in DOMAIN r, NEW j \in DOMAIN r, r[i].tid = r[j].tid
               PROVE  i = j
    BY DEF SleepersOnce
  <2>1. \A x \in DOMAIN q : q[x].tid # e.tid
    BY DEF Sleepers
  <2>2. \A x, y \in DOMAIN q : q[x].tid = q[y].tid => x = y
    BY DEF SleepersOnce
  <2> DEFINE P(x) == IF x < k THEN x ELSE x - 1
  <2>3. \A x \in DOMAIN r \ {k} : P(x) \in DOMAIN q /\ r[x] = q[P(x)]
    BY <1>1
  <2>4. CASE i = k \/ j = k
    BY <1>1, <2>1, <2>3, <2>4
  <2>5. CASE i # k /\ j # k
    <3>1. P(i) = P(j)
      BY <2>2, <2>3, <2>5
    <3> QED BY <1>1, <2>5, <3>1
  <2> QED BY <2>4, <2>5
<1> QED BY <1>2, <1>3

-----------------------------------------------------------------------------
(* The steps. *)

LEMMA ClockInit == Init => ClockInv
<1> SUFFICES ASSUME Init PROVE ClockInv
  OBVIOUS
<1>1. inbox = <<>> /\ blocked = <<>> /\ Senders(inbox) = {} /\ Sleepers(blocked) = {}
  BY DEF Init, Senders, Sleepers
<1>2. Typed
  BY ClockAssumption DEF Init, Typed, Ints
<1>3. Placed
  BY <1>1 DEF Init, Placed, TicksFromNotifier, InOnePlace, NobodyLost, ExiterWaits, SendersOnce, SleepersOnce
<1>4. BlockedSorted /\ EntriesConserved
  BY <1>1, ClockAssumption DEF Init, BlockedSorted, EntriesConserved
<1> QED BY <1>2, <1>3, <1>4 DEF ClockInv

\* A reply to a client that waits, and is in no other place any more.
LEMMA ReplyTypes ==
    ASSUME Typed, NEW c \in Clients, NEW rep, rep.time \in Ints, Replies(c, rep)
    PROVE  /\ call' = [call EXCEPT ![c] = Idle]
           /\ call' \in [Clients -> Requests \cup {Idle}]
           /\ result' \in [Clients -> Ints]
           /\ elapsed' \in [Clients -> 0 .. IntMax]
<1>1. 0 \in Ints /\ 0 \in 0 .. IntMax
  BY ClockAssumption DEF Ints
<1>2. Returned(c, rep) \in Ints
  BY <1>1 DEF Returned
<1> QED BY <1>1, <1>2 DEF Typed, Replies

\* The conversions stay in range.
LEMMA Conversions ==
    /\ \A u \in 0 .. Word - 1 : ToInt(u) \in Ints /\ NextTick(u) \in 0 .. Word - 1
    /\ \A n \in Int : ToUnsigned(n) \in 0 .. Word - 1
<1>1. Word \in Nat /\ Word > 0 /\ IntMax \in Nat /\ Word = 2 * (IntMax + 1)
  BY ClockAssumption
<1>2. \A n \in Int : n % Word \in 0 .. Word - 1
  BY <1>1
<1> QED BY <1>1, <1>2 DEF ToInt, NextTick, ToUnsigned, Ints

\* The server takes a message.
LEMMA MessageTaken ==
    ASSUME ClockInv, inbox # <<>>, inbox' = Tail(inbox)
    PROVE  /\ Head(inbox) \in Messages /\ Head(inbox).from \in Senders(inbox)
           /\ Head(inbox).type = "TICK" <=> Head(inbox).from = "notifier"
           /\ inbox' \in Seq(Messages) /\ SendersOnce(inbox')
           /\ Senders(inbox') = Senders(inbox) \ {Head(inbox).from}
           /\ \A i \in DOMAIN inbox' : inbox'[i].type = "TICK" <=> inbox'[i].from = "notifier"
<1>1. inbox \in Seq(Messages) /\ SendersOnce(inbox)
  BY DEF ClockInv, Typed, Placed, InOnePlace
<1>2. /\ Tail(inbox) \in Seq(Messages)
      /\ Len(inbox) \in Nat \ {0} /\ DOMAIN inbox = 1 .. Len(inbox)
      /\ DOMAIN Tail(inbox) = 1 .. Len(inbox) - 1
      /\ \A i \in 1 .. Len(inbox) - 1 : Tail(inbox)[i] = inbox[i + 1]
      /\ Head(inbox) = inbox[1] /\ Head(inbox) \in Messages
  BY <1>1, TailFacts
<1>3. \A i \in DOMAIN inbox : inbox[i].type = "TICK" <=> inbox[i].from = "notifier"
  BY DEF ClockInv, Placed, TicksFromNotifier
<1>4. \A i \in DOMAIN inbox' : inbox'[i].type = "TICK" <=> inbox'[i].from = "notifier"
  BY <1>2, <1>3
<1>5. Head(inbox).from \in Senders(inbox) /\ (Head(inbox).type = "TICK" <=> Head(inbox).from = "notifier")
  BY <1>2, <1>3 DEF Senders
<1> QED BY <1>1, <1>2, <1>4, <1>5, SendersTail

\* A client or the notifier sends.
LEMMA MessageSent ==
    ASSUME ClockInv, NEW m \in Messages, m.from \notin Senders(inbox), inbox' = Append(inbox, m),
           m.type = "TICK" <=> m.from = "notifier"
    PROVE  /\ inbox' \in Seq(Messages) /\ SendersOnce(inbox')
           /\ Senders(inbox') = Senders(inbox) \cup {m.from}
           /\ \A i \in DOMAIN inbox' : inbox'[i].type = "TICK" <=> inbox'[i].from = "notifier"
<1>1. inbox \in Seq(Messages) /\ SendersOnce(inbox)
  BY DEF ClockInv, Typed, Placed, InOnePlace
<1>2. \A i \in DOMAIN inbox : inbox[i].type = "TICK" <=> inbox[i].from = "notifier"
  BY DEF ClockInv, Placed, TicksFromNotifier
<1>3. /\ inbox' \in Seq(Messages)
      /\ DOMAIN inbox = 1 .. Len(inbox) /\ Len(inbox) \in Nat
      /\ DOMAIN inbox' = 1 .. Len(inbox) + 1
      /\ \A i \in 1 .. Len(inbox) : inbox'[i] = inbox[i]
      /\ inbox'[Len(inbox) + 1] = m
  BY <1>1, AppendFacts
<1>4. \A i \in DOMAIN inbox' : inbox'[i].type = "TICK" <=> inbox'[i].from = "notifier"
  BY <1>2, <1>3
<1> QED BY <1>1, <1>3, <1>4, SendersAppend

\* A new entry keeps the list in order.
LEMMA InsertedInOrder ==
    ASSUME BlockedSorted, blocked \in Seq(Entries), NEW e \in Entries, e.ticks > 0,
           blocked' = InsertSorted(blocked, e), SleepersOnce(blocked), e.tid \notin Sleepers(blocked)
    PROVE  /\ BlockedSorted' /\ blocked' \in Seq(Entries) /\ Len(blocked') = Len(blocked) + 1
           /\ SleepersOnce(blocked') /\ Sleepers(blocked') = Sleepers(blocked) \cup {e.tid}
<1>1. blocked' \in Seq(Entries)
  BY InsertSortedFacts
<1>2. PICK k \in 1 .. Len(blocked) + 1 :
        /\ IsInsertion(blocked', blocked, k, e)
        /\ \A i \in 1 .. k - 1 : ~(blocked[i].ticks > e.ticks)
        /\ k <= Len(blocked) => blocked[k].ticks > e.ticks
  BY InsertSortedFacts
<1>3. /\ DOMAIN blocked = 1 .. Len(blocked) /\ Len(blocked) \in Nat
      /\ DOMAIN blocked' = 1 .. Len(blocked) + 1 /\ Len(blocked') = Len(blocked) + 1
      /\ \A i \in 1 .. k - 1 : blocked'[i] = blocked[i]
      /\ blocked'[k] = e
      /\ \A i \in k + 1 .. Len(blocked) + 1 : blocked'[i] = blocked[i - 1]
  BY <1>1, <1>2 DEF IsInsertion
<1>4. e.ticks \in Int /\ \A i \in 1 .. Len(blocked) : blocked[i].ticks \in Int
  <2>1. Ints \subseteq Int
    BY ClockAssumption DEF Ints
  <2>2. \A x \in Entries : x.ticks \in Ints
    BY DEF Entries
  <2>3. \A i \in 1 .. Len(blocked) : blocked[i] \in Entries
    BY <1>3
  <2> QED BY <2>1, <2>2, <2>3
<1> DEFINE D(i) == blocked[i].ticks
           F(i) == blocked'[i].ticks
<1>5. /\ \A i \in 1 .. Len(blocked) : D(i) \in Int /\ D(i) > 0
      /\ \A i, j \in 1 .. Len(blocked) : i < j => D(i) <= D(j)
  BY <1>3, <1>4 DEF BlockedSorted
<1>6. /\ \A i \in 1 .. k - 1 : F(i) = D(i)
      /\ F(k) = e.ticks
      /\ \A i \in k + 1 .. Len(blocked) + 1 : F(i) = D(i - 1)
  BY <1>3
<1>7. /\ \A i \in 1 .. k - 1 : D(i) <= e.ticks
      /\ \A i \in k .. Len(blocked) : e.ticks <= D(i)
  <2>1. \A i \in 1 .. k - 1 : ~(D(i) > e.ticks)
    BY <1>2
  <2>2. k <= Len(blocked) => D(k) > e.ticks
    BY <1>2
  <2> HIDE DEF D
  <2>3. \A i \in 1 .. k - 1 : D(i) <= e.ticks
    BY <1>3, <1>4, <1>5, <2>1
  <2>4. \A i \in k .. Len(blocked) : e.ticks <= D(i)
    BY <1>3, <1>4, <1>5, <2>2
  <2> QED BY <2>3, <2>4
<1> HIDE DEF D, F
<1>8. \A i \in 1 .. Len(blocked) + 1 : F(i) > 0
  BY <1>3, <1>4, <1>5, <1>6
<1>9. \A i, j \in 1 .. Len(blocked) + 1 : i < j => F(i) <= F(j)
  <2> SUFFICES ASSUME NEW i \in 1 .. Len(blocked) + 1, NEW j \in 1 .. Len(blocked) + 1, i < j
               PROVE  F(i) <= F(j)
    OBVIOUS
  <2>1. CASE j < k
    BY <1>3, <1>5, <1>6, <2>1
  <2>2. CASE j = k
    BY <1>3, <1>6, <1>7, <2>2
  <2>3. CASE j > k /\ i < k
    <3>1. F(i) = D(i) /\ F(j) = D(j - 1) /\ i \in 1 .. Len(blocked) /\ j - 1 \in 1 .. Len(blocked)
      BY <1>3, <1>6, <2>3
    <3>2. D(i) <= e.ticks /\ e.ticks <= D(j - 1)
      BY <1>3, <1>7, <2>3
    <3> QED BY <1>4, <1>5, <3>1, <3>2
  <2>4. CASE j > k /\ i = k
    <3>1. F(i) = e.ticks /\ F(j) = D(j - 1) /\ j - 1 \in k .. Len(blocked)
      BY <1>3, <1>6, <2>4
    <3> QED BY <1>7, <3>1
  <2>5. CASE j > k /\ i > k
    <3>1. F(i) = D(i - 1) /\ F(j) = D(j - 1) /\ i - 1 \in 1 .. Len(blocked) /\ j - 1 \in 1 .. Len(blocked)
      BY <1>3, <1>6, <2>5
    <3> QED BY <1>5, <3>1
  <2> QED BY <1>3, <2>1, <2>2, <2>3, <2>4, <2>5
<1>10. BlockedSorted'
  BY <1>3, <1>8, <1>9 DEF BlockedSorted, F
<1>11. SleepersOnce(blocked') /\ Sleepers(blocked') = Sleepers(blocked) \cup {e.tid}
  BY <1>1, <1>2, SleepersInsert
<1> QED BY <1>1, <1>3, <1>10, <1>11

\* The rest of the list is in order.
LEMMA RestInOrder ==
    ASSUME BlockedSorted, blocked \in Seq(Entries), blocked # <<>>, blocked' = Tail(blocked), SleepersOnce(blocked)
    PROVE  /\ BlockedSorted' /\ blocked' \in Seq(Entries) /\ Len(blocked') = Len(blocked) - 1
           /\ SleepersOnce(blocked') /\ Sleepers(blocked') = Sleepers(blocked) \ {Head(blocked).tid}
           /\ Head(blocked).tid \in Sleepers(blocked) /\ Head(blocked).tid \in Clients
<1>1. /\ Tail(blocked) \in Seq(Entries)
      /\ Len(blocked) \in Nat \ {0} /\ Len(Tail(blocked)) = Len(blocked) - 1
      /\ DOMAIN blocked = 1 .. Len(blocked) /\ DOMAIN Tail(blocked) = 1 .. Len(blocked) - 1
      /\ \A i \in 1 .. Len(blocked) - 1 : Tail(blocked)[i] = blocked[i + 1]
      /\ Head(blocked) = blocked[1] /\ Head(blocked) \in Entries
  BY TailFacts
<1>2. BlockedSorted'
  BY <1>1 DEF BlockedSorted
<1>3. Head(blocked).tid \in Sleepers(blocked) /\ Head(blocked).tid \in Clients
  BY <1>1 DEF Sleepers, Entries
<1> QED BY <1>1, <1>2, <1>3, SleepersTail

\* The part of the invariant about entries depends on the two lists only.
LEMMA ListsKept ==
    ASSUME ClockInv, blocked' = blocked, free' = free
    PROVE  BlockedSorted' /\ EntriesConserved' /\ blocked' \in Seq(Entries) /\ free' \in Int
           /\ SleepersOnce(blocked') /\ Sleepers(blocked') = Sleepers(blocked)
  BY DEF ClockInv, BlockedSorted, EntriesConserved, Typed, Placed, InOnePlace

LEMMA SleepersAreClients == ClockInv => Sleepers(blocked) \subseteq Clients
<1> SUFFICES ASSUME ClockInv, NEW i \in DOMAIN blocked PROVE blocked[i].tid \in Clients
  BY DEF Sleepers
<1>1. blocked[i] \in Entries
  BY DEF ClockInv, Typed
<1> QED BY <1>1 DEF Entries

LEMMA TickStep == ASSUME ClockInv, Tick PROVE ClockInv'
<1>1. /\ UNCHANGED <<inbox, server, ticks, blocked, free, exiter_tid, call, result>>
      /\ notifier' = IF notifier = "awaiting" THEN "woken" ELSE notifier
  BY DEF Tick, serverVars
<1>2. elapsed' \in [Clients -> 0 .. IntMax]
  BY ClockAssumption DEF Tick, ClockInv, Typed
<1>3. Typed'
  BY <1>1, <1>2 DEF ClockInv, Typed
<1>4. Placed'
  BY <1>1 DEF ClockInv, Placed, TicksFromNotifier, InOnePlace, NobodyLost, ExiterWaits, Senders, Sleepers,
              SendersOnce, SleepersOnce
<1> QED BY <1>1, <1>3, <1>4, ListsKept DEF ClockInv

\* The notifier moves without sending.
LEMMA NotifierStep == ASSUME ClockInv, NotifierAwaits \/ NotifierExits PROVE ClockInv'
<1>1. /\ UNCHANGED <<inbox, server, ticks, blocked, free, exiter_tid, call, result, elapsed>>
      /\ notifier # "sending" /\ notifier' \in {"awaiting", "exited"}
  BY DEF NotifierAwaits, NotifierExits, serverVars, clientVars
<1>2. Typed'
  BY <1>1 DEF ClockInv, Typed
<1>3. Placed'
  BY <1>1 DEF ClockInv, Placed, TicksFromNotifier, InOnePlace, NobodyLost, ExiterWaits, Senders, Sleepers,
              SendersOnce, SleepersOnce
<1> QED BY <1>1, <1>2, <1>3, ListsKept DEF ClockInv

LEMMA NotifierSendsStep == ASSUME ClockInv, NotifierSends PROVE ClockInv'
<1> DEFINE m == [from |-> "notifier", type |-> "TICK", time |-> 0]
<1>1. /\ UNCHANGED <<server, ticks, blocked, free, exiter_tid, call, result, elapsed>>
      /\ notifier = "woken" /\ notifier' = "sending" /\ inbox' = Append(inbox, m)
  BY DEF NotifierSends, serverVars, clientVars
<1>2. m \in Messages /\ m.from \notin Senders(inbox)
  BY <1>1, ClockAssumption DEF Messages, Ints, ClockInv, Placed, TicksFromNotifier
<1>3. /\ inbox' \in Seq(Messages) /\ SendersOnce(inbox')
      /\ Senders(inbox') = Senders(inbox) \cup {"notifier"}
      /\ \A i \in DOMAIN inbox' : inbox'[i].type = "TICK" <=> inbox'[i].from = "notifier"
  BY <1>1, <1>2, MessageSent
<1>4. "notifier" \notin Clients /\ Sleepers(blocked) \subseteq Clients
  BY ClockAssumption, SleepersAreClients
<1>5. Typed'
  BY <1>1, <1>3 DEF ClockInv, Typed
<1>6. Placed'
  BY <1>1, <1>3, <1>4, ListsKept DEF ClockInv, Placed, TicksFromNotifier, InOnePlace, NobodyLost, ExiterWaits
<1> QED BY <1>1, <1>5, <1>6, ListsKept DEF ClockInv

LEMMA CallsStep ==
    ASSUME ClockInv, NEW c \in Clients, NEW r \in Requests, Calls(c, r)
    PROVE  ClockInv'
<1> DEFINE m == [from |-> c, type |-> r.type, time |-> r.time]
<1>1. /\ UNCHANGED <<server, ticks, blocked, free, exiter_tid, notifier, elapsed>>
      /\ call[c] = Idle /\ call' = [call EXCEPT ![c] = r]
      /\ inbox' = Append(inbox, m) /\ result' = [result EXCEPT ![c] = 0]
  BY DEF Calls, serverVars
<1>2. r.type \in RequestTypes /\ r.time \in Ints /\ r # Idle /\ c # "notifier" /\ 0 \in Ints
  BY ClockAssumption DEF RequestTypes, Idle, Ints
<1>3. c \notin Senders(inbox) \cup Sleepers(blocked)
  BY <1>1 DEF ClockInv, Placed, InOnePlace
<1>4. m \in Messages /\ (m.type = "TICK" <=> m.from = "notifier")
  BY <1>2 DEF Messages, RequestTypes
<1>5. /\ inbox' \in Seq(Messages) /\ SendersOnce(inbox')
      /\ Senders(inbox') = Senders(inbox) \cup {c}
      /\ \A i \in DOMAIN inbox' : inbox'[i].type = "TICK" <=> inbox'[i].from = "notifier"
  BY <1>1, <1>3, <1>4, MessageSent
<1>6. Typed'
  BY <1>1, <1>2, <1>5 DEF ClockInv, Typed
<1>7. \A d \in Clients : call'[d] = IF d = c THEN r ELSE call[d]
  BY <1>1 DEF ClockInv, Typed
<1>8. Placed'
  BY <1>1, <1>2, <1>3, <1>5, <1>7, ListsKept
  DEF ClockInv, Placed, TicksFromNotifier, InOnePlace, NobodyLost, ExiterWaits
<1> QED BY <1>1, <1>6, <1>8, ListsKept DEF ClockInv

LEMMA CallsNobodyStep ==
    ASSUME ClockInv, NEW c \in Clients, NEW r \in Requests, CallsNobody(c, r)
    PROVE  ClockInv'
<1>1. /\ UNCHANGED <<inbox, server, ticks, blocked, free, exiter_tid, notifier, call, elapsed>>
      /\ result' = [result EXCEPT ![c] = -1]
  BY DEF CallsNobody, serverVars
<1>2. -1 \in Ints
  BY ClockAssumption DEF Ints
<1>3. Typed'
  BY <1>1, <1>2 DEF ClockInv, Typed
<1>4. Placed'
  BY <1>1 DEF ClockInv, Placed, TicksFromNotifier, InOnePlace, NobodyLost, ExiterWaits, Senders, Sleepers,
              SendersOnce, SleepersOnce
<1> QED BY <1>1, <1>3, <1>4, ListsKept DEF ClockInv

\* The server answers the client whose message it takes.
LEMMA AnswerStep ==
    ASSUME ClockInv, server = "serving", inbox # <<>>, inbox' = Tail(inbox), Head(inbox).type # "TICK",
           NEW rep, rep.time \in Ints, Replies(Head(inbox).from, rep),
           UNCHANGED <<server, ticks, blocked, free, exiter_tid, notifier>>
    PROVE  ClockInv'
<1> DEFINE c == Head(inbox).from
<1>1. /\ Head(inbox) \in Messages /\ c \in Senders(inbox) /\ c # "notifier"
      /\ inbox' \in Seq(Messages) /\ SendersOnce(inbox')
      /\ Senders(inbox') = Senders(inbox) \ {c}
      /\ \A i \in DOMAIN inbox' : inbox'[i].type = "TICK" <=> inbox'[i].from = "notifier"
  BY MessageTaken
<1>2. c \in Clients
  BY <1>1 DEF Messages
<1>3. Typed
  BY DEF ClockInv
<1>4. /\ call' = [call EXCEPT ![c] = Idle]
      /\ call' \in [Clients -> Requests \cup {Idle}]
      /\ result' \in [Clients -> Ints]
      /\ elapsed' \in [Clients -> 0 .. IntMax]
  BY <1>2, <1>3, ReplyTypes
<1> HIDE DEF c
<1>5. Typed'
  BY <1>1, <1>3, <1>4 DEF Typed
<1>6. \A d \in Clients : call'[d] = IF d = c THEN Idle ELSE call[d]
  BY <1>3, <1>4 DEF Typed
<1>7. Placed'
  BY <1>1, <1>6, ListsKept
  DEF ClockInv, Placed, TicksFromNotifier, InOnePlace, NobodyLost, ExiterWaits
<1> QED BY <1>5, <1>7, ListsKept DEF ClockInv

\* The server puts the client whose message it takes to sleep.
LEMMA SleepStep ==
    ASSUME ClockInv, server = "serving", inbox # <<>>, inbox' = Tail(inbox), Head(inbox).type # "TICK",
           NEW time \in Ints, time > 0,
           blocked' = InsertSorted(blocked, [tid |-> Head(inbox).from, ticks |-> time]), free' = free - 1,
           UNCHANGED <<server, ticks, exiter_tid, notifier, call, result, elapsed>>
    PROVE  ClockInv'
<1> DEFINE c == Head(inbox).from
           e == [tid |-> c, ticks |-> time]
<1>1. /\ Head(inbox) \in Messages /\ c \in Senders(inbox) /\ c # "notifier"
      /\ inbox' \in Seq(Messages) /\ SendersOnce(inbox')
      /\ Senders(inbox') = Senders(inbox) \ {c}
      /\ \A i \in DOMAIN inbox' : inbox'[i].type = "TICK" <=> inbox'[i].from = "notifier"
  BY MessageTaken
<1>2. c \in Clients
  BY <1>1 DEF Messages
<1>3. /\ e \in Entries /\ e.ticks > 0 /\ e.tid \notin Sleepers(blocked)
      /\ BlockedSorted /\ blocked \in Seq(Entries) /\ SleepersOnce(blocked)
  BY <1>1, <1>2 DEF Entries, ClockInv, Typed, Placed, InOnePlace
<1>4. /\ BlockedSorted' /\ blocked' \in Seq(Entries) /\ Len(blocked') = Len(blocked) + 1
      /\ SleepersOnce(blocked') /\ Sleepers(blocked') = Sleepers(blocked) \cup {c}
  BY <1>3, InsertedInOrder
<1> HIDE DEF c
<1>5. Typed'
  BY <1>1, <1>4 DEF ClockInv, Typed
<1>6. EntriesConserved'
  <2>1. Len(blocked) \in Nat /\ free \in Int /\ free + Len(blocked) = MaxEntries
    BY <1>3 DEF ClockInv, EntriesConserved, Typed
  <2> QED BY <1>4, <2>1 DEF EntriesConserved
<1>7. Placed'
  BY <1>1, <1>2, <1>3, <1>4 DEF ClockInv, Placed, TicksFromNotifier, InOnePlace, NobodyLost, ExiterWaits
<1> QED BY <1>4, <1>5, <1>6, <1>7 DEF ClockInv

LEMMA HandleTickStep == ASSUME ClockInv, HandleTick PROVE ClockInv'
<1>1. /\ server = "serving" /\ inbox # <<>> /\ inbox' = Tail(inbox) /\ Head(inbox).type = "TICK"
      /\ notifier' = "running" /\ ticks' = NextTick(ticks) /\ UNCHANGED <<server, exiter_tid>>
  BY DEF HandleTick, Receives, NotifierReplied
<1>2. /\ Head(inbox).from = "notifier" /\ "notifier" \in Senders(inbox)
      /\ inbox' \in Seq(Messages) /\ SendersOnce(inbox')
      /\ Senders(inbox') = Senders(inbox) \ {"notifier"}
      /\ \A i \in DOMAIN inbox' : inbox'[i].type = "TICK" <=> inbox'[i].from = "notifier"
  BY <1>1, MessageTaken
<1>3. ticks' \in 0 .. Word - 1 /\ ToInt(ticks') \in Ints
  BY <1>1, Conversions DEF ClockInv, Typed
<1>4. "notifier" \notin Clients /\ Sleepers(blocked) \subseteq Clients
  BY ClockAssumption, SleepersAreClients
<1>5. CASE blocked # <<>> /\ Due(ticks', Head(blocked))
  <2> DEFINE c == Head(blocked).tid
             rep == [type |-> "TICK", time |-> ToInt(ticks')]
  <2>1. blocked' = Tail(blocked) /\ free' = free + 1 /\ Replies(c, rep)
    BY <1>5 DEF HandleTick, ReleasesFront
  <2>2. BlockedSorted /\ blocked \in Seq(Entries) /\ SleepersOnce(blocked) /\ Typed
    BY DEF ClockInv, Typed, Placed, InOnePlace
  <2>3. /\ BlockedSorted' /\ blocked' \in Seq(Entries) /\ Len(blocked') = Len(blocked) - 1
        /\ SleepersOnce(blocked') /\ Sleepers(blocked') = Sleepers(blocked) \ {c}
        /\ c \in Sleepers(blocked) /\ c \in Clients
    BY <1>5, <2>1, <2>2, RestInOrder
  <2>4. rep.time \in Ints
    BY <1>3
  <2> HIDE DEF c, rep
  <2>5. /\ call' = [call EXCEPT ![c] = Idle]
        /\ call' \in [Clients -> Requests \cup {Idle}]
        /\ result' \in [Clients -> Ints]
        /\ elapsed' \in [Clients -> 0 .. IntMax]
    BY <2>1, <2>2, <2>3, <2>4, ReplyTypes
  <2>6. Typed'
    BY <1>1, <1>2, <1>3, <2>1, <2>2, <2>3, <2>5 DEF Typed
  <2>7. EntriesConserved'
    <3>1. Len(blocked) \in Nat /\ free \in Int /\ free + Len(blocked) = MaxEntries
      BY <2>2 DEF ClockInv, EntriesConserved, Typed
    <3> QED BY <2>1, <2>3, <3>1 DEF EntriesConserved
  <2>8. \A d \in Clients : call'[d] = IF d = c THEN Idle ELSE call[d]
    BY <2>2, <2>5 DEF Typed
  <2>9. Placed'
    BY <1>1, <1>2, <1>4, <2>3, <2>8 DEF ClockInv, Placed, TicksFromNotifier, InOnePlace, NobodyLost, ExiterWaits
  <2> QED BY <2>3, <2>6, <2>7, <2>9 DEF ClockInv
<1>6. CASE ~(blocked # <<>> /\ Due(ticks', Head(blocked)))
  <2>1. UNCHANGED <<blocked, free, call, result, elapsed>>
    BY <1>6 DEF HandleTick, clientVars
  <2>2. Typed'
    BY <1>1, <1>2, <1>3, <2>1 DEF ClockInv, Typed
  <2>3. Placed'
    BY <1>1, <1>2, <1>4, <2>1, ListsKept
    DEF ClockInv, Placed, TicksFromNotifier, InOnePlace, NobodyLost, ExiterWaits
  <2> QED BY <2>1, <2>2, <2>3, ListsKept DEF ClockInv
<1> QED BY <1>5, <1>6

LEMMA HandleTimeStep == ASSUME ClockInv, HandleTime PROVE ClockInv'
<1> DEFINE rep == [type |-> "TIME", time |-> ToInt(ticks)]
<1>1. /\ server = "serving" /\ inbox # <<>> /\ inbox' = Tail(inbox) /\ Head(inbox).type # "TICK"
      /\ Replies(Head(inbox).from, rep)
      /\ UNCHANGED <<server, ticks, blocked, free, exiter_tid, notifier>>
  BY DEF HandleTime, Receives, serverVars
<1>2. rep.time \in Ints
  BY Conversions DEF ClockInv, Typed
<1> HIDE DEF rep
<1> QED BY <1>1, <1>2, AnswerStep

\* What DELAY and DELAYUNTIL have in common.
LEMMA BlockUntilStep ==
    ASSUME ClockInv, server = "serving", inbox # <<>>, inbox' = Tail(inbox), Head(inbox).type # "TICK",
           NEW time \in Ints, BlockUntil(Head(inbox).from, time),
           UNCHANGED <<server, ticks, exiter_tid, notifier>>
    PROVE  ClockInv'
<1> DEFINE c == Head(inbox).from
           invalid == [type |-> "ERROR", time |-> 0]
           late == [type |-> "TICK", time |-> ToInt(ticks)]
<1>1. invalid.time \in Ints /\ time \in Int
  BY ClockAssumption DEF Ints
<1>2. late.time \in Ints
  BY Conversions DEF ClockInv, Typed
<1>3. \/ Replies(c, invalid) /\ UNCHANGED <<blocked, free>>
      \/ Replies(c, late) /\ UNCHANGED <<blocked, free>>
      \/ /\ time > 0 /\ blocked' = InsertSorted(blocked, [tid |-> c, ticks |-> time])
         /\ free' = free - 1 /\ UNCHANGED <<call, result, elapsed>>
  BY <1>1 DEF BlockUntil, clientVars
<1> HIDE DEF invalid, late
<1>4. CASE Replies(c, invalid) /\ UNCHANGED <<blocked, free>>
  BY <1>1, <1>4, AnswerStep
<1>5. CASE Replies(c, late) /\ UNCHANGED <<blocked, free>>
  BY <1>2, <1>5, AnswerStep
<1>6. CASE /\ time > 0 /\ blocked' = InsertSorted(blocked, [tid |-> c, ticks |-> time])
           /\ free' = free - 1 /\ UNCHANGED <<call, result, elapsed>>
  BY <1>6, SleepStep
<1> QED BY <1>3, <1>4, <1>5, <1>6

LEMMA HandleDelayStep == ASSUME ClockInv, HandleDelay PROVE ClockInv'
<1> DEFINE msg == Head(inbox)
           time == ToInt(ToUnsigned(msg.time + ticks))
           invalid == [type |-> "ERROR", time |-> 0]
<1>1. /\ server = "serving" /\ inbox # <<>> /\ inbox' = Tail(inbox) /\ Head(inbox).type # "TICK"
      /\ UNCHANGED <<server, ticks, exiter_tid, notifier>>
  BY DEF HandleDelay, Receives
<1>2. msg \in Messages
  BY <1>1, MessageTaken
<1>3. msg.time \in Int /\ ticks \in Int /\ invalid.time \in Ints
  BY <1>2, ClockAssumption DEF Messages, Ints, ClockInv, Typed
<1>4. time \in Ints
  BY <1>3, Conversions
<1>5. CASE msg.time <= 0
  <2>1. Replies(msg.from, invalid) /\ UNCHANGED <<blocked, free>>
    BY <1>5 DEF HandleDelay
  <2> HIDE DEF invalid
  <2> QED BY <1>1, <1>3, <2>1, AnswerStep
<1>6. CASE ~(msg.time <= 0)
  <2>1. BlockUntil(msg.from, time)
    BY <1>6 DEF HandleDelay
  <2> HIDE DEF time
  <2> QED BY <1>1, <1>4, <2>1, BlockUntilStep
<1> QED BY <1>5, <1>6

LEMMA HandleDelayUntilStep == ASSUME ClockInv, HandleDelayUntil PROVE ClockInv'
<1>1. /\ server = "serving" /\ inbox # <<>> /\ inbox' = Tail(inbox) /\ Head(inbox).type # "TICK"
      /\ BlockUntil(Head(inbox).from, Head(inbox).time)
      /\ UNCHANGED <<server, ticks, exiter_tid, notifier>>
  BY DEF HandleDelayUntil, Receives
<1>2. Head(inbox).time \in Ints
  BY <1>1, MessageTaken DEF Messages
<1> QED BY <1>1, <1>2, BlockUntilStep

LEMMA HandleExitStep == ASSUME ClockInv, HandleExit PROVE ClockInv'
<1> DEFINE c == Head(inbox).from
<1>1. /\ server = "serving" /\ inbox # <<>> /\ inbox' = Tail(inbox) /\ Head(inbox).type # "TICK"
      /\ server' = "draining" /\ exiter_tid' = c
      /\ UNCHANGED <<ticks, blocked, free, notifier, call, result, elapsed>>
  BY DEF HandleExit, Receives, clientVars
<1>2. /\ Head(inbox) \in Messages /\ c \in Senders(inbox) /\ c # "notifier"
      /\ inbox' \in Seq(Messages) /\ SendersOnce(inbox')
      /\ Senders(inbox') = Senders(inbox) \ {c}
      /\ \A i \in DOMAIN inbox' : inbox'[i].type = "TICK" <=> inbox'[i].from = "notifier"
  BY <1>1, MessageTaken
<1>3. c \in Clients
  BY <1>2 DEF Messages
<1> HIDE DEF c
<1>4. Typed'
  BY <1>1, <1>2, <1>3 DEF ClockInv, Typed
<1>5. Placed'
  BY <1>1, <1>2, <1>3, ListsKept
  DEF ClockInv, Placed, TicksFromNotifier, InOnePlace, NobodyLost, ExiterWaits
<1> QED BY <1>1, <1>4, <1>5, ListsKept DEF ClockInv

LEMMA DrainStep == ASSUME ClockInv, Drain PROVE ClockInv'
<1> DEFINE c == Head(inbox).from
           rep == [type |-> "EXIT", time |-> -1]
<1>1. /\ server = "draining" /\ inbox # <<>> /\ inbox' = Tail(inbox)
      /\ UNCHANGED <<ticks, blocked, free, exiter_tid>>
  BY DEF Drain
<1>2. /\ Head(inbox) \in Messages /\ c \in Senders(inbox)
      /\ (Head(inbox).type = "TICK" <=> c = "notifier")
      /\ inbox' \in Seq(Messages) /\ SendersOnce(inbox')
      /\ Senders(inbox') = Senders(inbox) \ {c}
      /\ \A i \in DOMAIN inbox' : inbox'[i].type = "TICK" <=> inbox'[i].from = "notifier"
  BY <1>1, MessageTaken
<1>3. /\ exiter_tid \in Clients /\ exiter_tid \notin Senders(inbox) \cup Sleepers(blocked)
      /\ "notifier" \notin Clients /\ Typed
  BY <1>1, ClockAssumption DEF ClockInv, Placed, ExiterWaits
<1>4. CASE Head(inbox).type = "TICK"
  <2>1. notifier' = "leaving" /\ Replies(exiter_tid, rep) /\ server' = "exited"
    BY <1>4 DEF Drain, NotifierDismissed
  <2>2. rep.time \in Ints
    BY ClockAssumption DEF Ints
  <2> HIDE DEF c, rep
  <2>3. /\ call' = [call EXCEPT ![exiter_tid] = Idle]
        /\ call' \in [Clients -> Requests \cup {Idle}]
        /\ result' \in [Clients -> Ints]
        /\ elapsed' \in [Clients -> 0 .. IntMax]
    BY <1>3, <2>1, <2>2, ReplyTypes
  <2>4. Typed'
    BY <1>1, <1>2, <1>3, <2>1, <2>3 DEF Typed
  <2>5. \A d \in Clients : call'[d] = IF d = exiter_tid THEN Idle ELSE call[d]
    BY <1>3, <2>3 DEF Typed
  <2>6. Placed'
    BY <1>1, <1>2, <1>3, <1>4, <2>1, <2>5, ListsKept
    DEF ClockInv, Placed, TicksFromNotifier, InOnePlace, NobodyLost, ExiterWaits
  <2> QED BY <1>1, <2>4, <2>6, ListsKept DEF ClockInv
<1>5. CASE Head(inbox).type # "TICK"
  <2>1. UNCHANGED <<notifier, call, result, elapsed, server>>
    BY <1>5 DEF Drain, clientVars
  <2> HIDE DEF c
  <2>2. Typed'
    BY <1>1, <1>2, <2>1 DEF ClockInv, Typed
  <2>3. Placed'
    BY <1>1, <1>2, <1>5, <2>1, ListsKept
    DEF ClockInv, Placed, TicksFromNotifier, InOnePlace, NobodyLost, ExiterWaits
  <2> QED BY <1>1, <2>2, <2>3, ListsKept DEF ClockInv
<1> QED BY <1>4, <1>5

LEMMA ClockStep == ClockInv /\ [Next]_vars => ClockInv'
<1> SUFFICES ASSUME ClockInv, [Next]_vars PROVE ClockInv'
  OBVIOUS
<1>1. CASE Tick
  BY <1>1, TickStep
<1>2. CASE NotifierAwaits \/ NotifierExits
  BY <1>2, NotifierStep
<1>3. CASE NotifierSends
  BY <1>3, NotifierSendsStep
<1>4. ASSUME NEW c \in Clients, NEW r \in Requests, Calls(c, r) \/ CallsNobody(c, r)
      PROVE  ClockInv'
  BY <1>4, CallsStep, CallsNobodyStep
<1>5. CASE HandleTick
  BY <1>5, HandleTickStep
<1>6. CASE HandleTime
  BY <1>6, HandleTimeStep
<1>7. CASE HandleDelay
  BY <1>7, HandleDelayStep
<1>8. CASE HandleDelayUntil
  BY <1>8, HandleDelayUntilStep
<1>9. CASE HandleExit
  BY <1>9, HandleExitStep
<1>10. CASE Drain
  BY <1>10, DrainStep
<1>11. CASE UNCHANGED vars
  <2>1. UNCHANGED <<inbox, server, ticks, blocked, free, exiter_tid, notifier, call, result, elapsed>>
    BY <1>11 DEF vars, serverVars, clientVars
  <2>2. Typed'
    BY <2>1 DEF ClockInv, Typed
  <2>3. Placed'
    BY <2>1 DEF ClockInv, Placed, TicksFromNotifier, InOnePlace, NobodyLost, ExiterWaits, Senders, Sleepers,
                SendersOnce, SleepersOnce
  <2> QED BY <2>1, <2>2, <2>3, ListsKept DEF ClockInv
<1> QED BY <1>1, <1>2, <1>3, <1>4, <1>5, <1>6, <1>7, <1>8, <1>9, <1>10, <1>11 DEF Next, Handle

\* ClockInv holds in every state the clock server can reach.
LEMMA ClockInvariant == Spec => []ClockInv
  BY ClockInit, ClockStep, PTL DEF Spec

-----------------------------------------------------------------------------
(* What follows from the invariant. *)

\* The list of sleepers, whose front alone is looked at on a tick, stays in the order of
\* its deadlines through every insertion, release and shutdown.
THEOREM ClockSorted == Spec => []BlockedSorted
<1>1. ClockInv => BlockedSorted
  BY DEF ClockInv
<1> QED BY <1>1, ClockInvariant, PTL

\* The entries of blocked and free_list are neither lost nor duplicated, in any step.
THEOREM ClockEntries == Spec => []EntriesConserved
<1>1. ClockInv => EntriesConserved
  BY DEF ClockInv
<1> QED BY <1>1, ClockInvariant, PTL

\* Every sleeper is another client, so there are entries enough.
LEMMA EntriesEnough == ClockInv => free \in 0 .. MaxEntries
<1> SUFFICES ASSUME ClockInv PROVE free \in 0 .. MaxEntries
  OBVIOUS
<1> DEFINE n == Len(blocked)
           f == [i \in 1 .. n |-> blocked[i].tid]
<1>1. blocked \in Seq(Entries) /\ n \in Nat /\ DOMAIN blocked = 1 .. n /\ SleepersOnce(blocked)
  BY DEF ClockInv, Typed, Placed, InOnePlace
<1>2. \A i \in 1 .. n : blocked[i].tid \in Clients
  <2>1. \A i \in 1 .. n : blocked[i] \in Entries
    BY <1>1
  <2> QED BY <2>1 DEF Entries
<1>3. \A i, j \in 1 .. n : blocked[i].tid = blocked[j].tid => i = j
  BY <1>1 DEF SleepersOnce
<1>4. f \in Injection(1 .. n, Clients)
  BY <1>2, <1>3 DEF Injection, IsInjective
<1>5. IsFiniteSet(Clients) /\ MaxEntries \in Nat /\ Cardinality(Clients) <= MaxEntries
  BY ClockAssumption
<1>6. Cardinality(1 .. n) <= Cardinality(Clients)
  <2> HIDE DEF f
  <2> QED BY <1>4, <1>5, FS_Injection
<1>7. Cardinality(1 .. n) = n
  BY <1>1, FS_Interval
<1>8. Cardinality(Clients) \in Nat
  BY <1>5, FS_CardinalityType
<1>9. free \in Int /\ free + n = MaxEntries
  BY DEF ClockInv, Typed, EntriesConserved
<1> HIDE DEF n
<1> QED BY <1>1, <1>5, <1>6, <1>7, <1>8, <1>9

\* Every variable keeps its type: the tick counter is a word and queue_get(&free_list) finds an
\* entry whenever the server needs one, if there are entries for all clients.
THEOREM ClockTypes == Spec => []TypeOK
<1>1. ClockInv => TypeOK
  BY EntriesEnough DEF ClockInv, Typed, TypeOK
<1> QED BY <1>1, ClockInvariant, PTL

\* While the server serves, a client blocked in a call waits in exactly one place and a
\* client that is not in none: no call is answered twice, and none is forgotten.
THEOREM ClockOnePlace == Spec => []OnePlacePerCaller
<1>1. ASSUME ClockInv, server = "serving", NEW c \in Clients
      PROVE  Places(c) = IF call[c] = Idle THEN 0 ELSE 1
  <2> DEFINE A == {i \in DOMAIN inbox : inbox[i].from = c}
             B == {i \in DOMAIN blocked : blocked[i].tid = c}
  <2>1. Cardinality(A) = IF c \in Senders(inbox) THEN 1 ELSE 0
    <3>1. \A i, j \in DOMAIN inbox : inbox[i].from = c /\ inbox[j].from = c => i = j
      BY <1>1 DEF ClockInv, Placed, InOnePlace, SendersOnce
    <3>2. c \in Senders(inbox) <=> \E i \in DOMAIN inbox : inbox[i].from = c
      BY DEF Senders
    <3>3. CASE c \in Senders(inbox)
      <4>1. PICK k \in DOMAIN inbox : inbox[k].from = c
        BY <3>2, <3>3
      <4>2. A = {k}
        BY <3>1, <4>1
      <4> QED BY <3>3, <4>2, FS_Singleton
    <3>4. CASE c \notin Senders(inbox)
      <4>1. A = {}
        BY <3>2, <3>4
      <4> QED BY <3>4, <4>1, FS_EmptySet
    <3> QED BY <3>3, <3>4
  <2>2. Cardinality(B) = IF c \in Sleepers(blocked) THEN 1 ELSE 0
    <3>1. \A i, j \in DOMAIN blocked : blocked[i].tid = c /\ blocked[j].tid = c => i = j
      BY <1>1 DEF ClockInv, Placed, InOnePlace, SleepersOnce
    <3>2. c \in Sleepers(blocked) <=> \E i \in DOMAIN blocked : blocked[i].tid = c
      BY DEF Sleepers
    <3>3. CASE c \in Sleepers(blocked)
      <4>1. PICK k \in DOMAIN blocked : blocked[k].tid = c
        BY <3>2, <3>3
      <4>2. B = {k}
        BY <3>1, <4>1
      <4> QED BY <3>3, <4>2, FS_Singleton
    <3>4. CASE c \notin Sleepers(blocked)
      <4>1. B = {}
        BY <3>2, <3>4
      <4> QED BY <3>4, <4>1, FS_EmptySet
    <3> QED BY <3>3, <3>4
  <2>3. /\ ~(c \in Senders(inbox) /\ c \in Sleepers(blocked))
        /\ c \in Senders(inbox) \/ c \in Sleepers(blocked) <=> call[c] # Idle
    BY <1>1 DEF ClockInv, Placed, InOnePlace, NobodyLost
  <2>4. Places(c) = Cardinality(A) + Cardinality(B)
    BY DEF Places
  <2> HIDE DEF A, B
  <2> QED BY <2>1, <2>2, <2>3, <2>4
<1>2. ClockInv => OnePlacePerCaller
  BY <1>1 DEF OnePlacePerCaller
<1> QED BY <1>2, ClockInvariant, PTL

-----------------------------------------------------------------------------
(* No delay ends early. *)

\* A timer interrupt that the notifier has taken and the server has not yet counted.
Uncounted == IF notifier \in {"woken", "sending"} THEN 1 ELSE 0

\* The entry e of the blocked list is due when the call of its client asks for: DelayUntil names
\* the time itself; for Delay, the server has counted, since it took the call, at most one tick
\* more than there were timer interrupts, the one that was on its way when the call was made.
DueAsAsked(e) ==
    LET c == e.tid
        d == call[c].time
    IN  \/ call[c].type = "DELAYUNTIL" /\ e.ticks = d
        \/ /\ call[c].type = "DELAY" /\ d > 0
           /\ elapsed[c] >= d \/ ticks + Uncounted <= (e.ticks - d) + elapsed[c] + 1

SleepersAsked == \A i \in DOMAIN blocked : DueAsAsked(blocked[i])

\* A message in the queue is the call its sender is blocked in.
MessagesAsked ==
    \A i \in DOMAIN inbox :
        inbox[i].from # "notifier" =>
            call[inbox[i].from].type = inbox[i].type /\ call[inbox[i].from].time = inbox[i].time

ExiterAsked == server = "draining" => call[exiter_tid].type = "EXIT"

AskedInv == SleepersAsked /\ MessagesAsked /\ ExiterAsked

\* What NotEarly says of a step.
ReturnsOnTime ==
    \A c \in Clients :
        CallReturns(c) =>
            /\ /\ call[c].type = "DELAY" /\ call[c].time > 0
               /\ ~(inbox # <<>> /\ Head(inbox).from = c /\ ticks + call[c].time > IntMax)
               => elapsed[c] >= call[c].time
            /\ call[c].type = "DELAYUNTIL" /\ call[c].time > 0 => ticks' > call[c].time

LEMMA Numbers ==
    ASSUME ClockInv
    PROVE  /\ ticks \in 0 .. Word - 1 /\ Uncounted \in 0 .. 1
           /\ IntMax \in Nat /\ Word = 2 * (IntMax + 1)
           /\ \A c \in Clients : call[c].time \in Ints /\ elapsed[c] \in 0 .. IntMax
           /\ \A i \in DOMAIN blocked : /\ blocked[i] \in Entries /\ blocked[i].tid \in Clients
                                        /\ blocked[i].ticks \in 1 .. IntMax
<1>1. IntMax \in Nat /\ Word = 2 * (IntMax + 1) /\ Ints = -(IntMax + 1) .. IntMax
  BY ClockAssumption DEF Ints
<1>2. \A r \in Requests \cup {Idle} : r.time \in Ints
  BY <1>1, ClockAssumption DEF Idle
<1>3. \A i \in DOMAIN blocked : blocked[i] \in Entries /\ blocked[i].ticks > 0
  BY DEF ClockInv, Typed, BlockedSorted
<1>4. \A i \in DOMAIN blocked : blocked[i].tid \in Clients /\ blocked[i].ticks \in Ints
  BY <1>3 DEF Entries
<1>5. \A c \in Clients : call[c].time \in Ints /\ elapsed[c] \in 0 .. IntMax
  BY <1>2 DEF ClockInv, Typed
<1>6. ticks \in 0 .. Word - 1 /\ Uncounted \in 0 .. 1
  BY DEF ClockInv, Typed, Uncounted
<1>7. \A i \in DOMAIN blocked : blocked[i].ticks \in 1 .. IntMax
  BY <1>1, <1>3, <1>4
<1> QED BY <1>1, <1>3, <1>4, <1>5, <1>6, <1>7

\* Entries of clients other than c, when time passes for the server no faster than outside.
LEMMA SleepersStayAsked ==
    ASSUME ClockInv, SleepersAsked, NEW c, ticks' \in Int, Uncounted' \in Int,
           \A d \in Clients : d # c => call'[d] = call[d] /\ elapsed'[d] = elapsed[d],
           \A i \in DOMAIN blocked' : \E j \in DOMAIN blocked : blocked'[i] = blocked[j] /\ blocked[j].tid # c,
           ticks' + Uncounted' <= ticks + Uncounted
    PROVE  SleepersAsked'
<1> SUFFICES ASSUME NEW i \in DOMAIN blocked' PROVE DueAsAsked(blocked[i])'
  BY DEF SleepersAsked
<1>1. PICK j \in DOMAIN blocked : blocked'[i] = blocked[j] /\ blocked[j].tid # c
  OBVIOUS
<1> DEFINE e == blocked[j]
<1>2. DueAsAsked(e) /\ e.tid \in Clients /\ e.ticks \in Int
  BY Numbers DEF SleepersAsked
<1>3. call[e.tid].time \in Int /\ elapsed[e.tid] \in Int /\ ticks \in Int /\ Uncounted \in Int
  BY <1>2, Numbers DEF Ints
<1>4. call'[e.tid] = call[e.tid] /\ elapsed'[e.tid] = elapsed[e.tid]
  BY <1>1, <1>2
<1>5. ASSUME ticks + Uncounted <= (e.ticks - call[e.tid].time) + elapsed[e.tid] + 1
      PROVE  ticks' + Uncounted' <= (e.ticks - call[e.tid].time) + elapsed[e.tid] + 1
  <2> DEFINE limit == (e.ticks - call[e.tid].time) + elapsed[e.tid] + 1
             now == ticks + Uncounted
  <2>1. limit \in Int /\ now \in Int /\ now' \in Int
    BY <1>2, <1>3
  <2>2. now' <= now /\ now <= limit
    BY <1>5
  <2> HIDE DEF limit, now
  <2>3. now' <= limit
    BY <2>1, <2>2
  <2> QED BY <2>3 DEF limit, now
<1> HIDE DEF e
<1>6. blocked'[i] = e
  BY <1>1 DEF e
<1> QED BY <1>2, <1>4, <1>5, <1>6 DEF DueAsAsked

\* Messages of tasks other than c.
LEMMA MessagesStayAsked ==
    ASSUME ClockInv, MessagesAsked, NEW c,
           \A d \in Clients : d # c => call'[d] = call[d],
           \A i \in DOMAIN inbox' : \E j \in DOMAIN inbox : inbox'[i] = inbox[j] /\ inbox[j].from # c
    PROVE  MessagesAsked'
<1>1. \A j \in DOMAIN inbox : inbox[j].from \in Clients \cup {"notifier"}
  <2>1. \A j \in DOMAIN inbox : inbox[j] \in Messages
    BY DEF ClockInv, Typed
  <2> QED BY <2>1 DEF Messages
<1> SUFFICES ASSUME NEW i \in DOMAIN inbox', inbox'[i].from # "notifier"
             PROVE  call'[inbox'[i].from].type = inbox'[i].type /\ call'[inbox'[i].from].time = inbox'[i].time
  BY DEF MessagesAsked
<1>2. PICK j \in DOMAIN inbox : inbox'[i] = inbox[j] /\ inbox[j].from # c
  OBVIOUS
<1> QED BY <1>1, <1>2 DEF MessagesAsked

\* The server takes the message of a client.
LEMMA CallTaken ==
    ASSUME ClockInv, MessagesAsked, inbox # <<>>
    PROVE  /\ \A i \in DOMAIN Tail(inbox) :
                 \E j \in DOMAIN inbox : Tail(inbox)[i] = inbox[j] /\ inbox[j].from # Head(inbox).from
           /\ Head(inbox).type # "TICK" =>
                 /\ Head(inbox).from \in Clients /\ Head(inbox).from \notin Sleepers(blocked)
                 /\ call[Head(inbox).from].type = Head(inbox).type
                 /\ call[Head(inbox).from].time = Head(inbox).time
<1>1. inbox \in Seq(Messages) /\ SendersOnce(inbox)
  BY DEF ClockInv, Typed, Placed, InOnePlace
<1>2. /\ Len(inbox) \in Nat \ {0} /\ DOMAIN inbox = 1 .. Len(inbox)
      /\ DOMAIN Tail(inbox) = 1 .. Len(inbox) - 1
      /\ \A i \in 1 .. Len(inbox) - 1 : Tail(inbox)[i] = inbox[i + 1]
      /\ Head(inbox) = inbox[1] /\ Head(inbox) \in Messages
  BY <1>1, TailFacts
<1>3. ASSUME NEW i \in DOMAIN Tail(inbox)
      PROVE  \E j \in DOMAIN inbox : Tail(inbox)[i] = inbox[j] /\ inbox[j].from # Head(inbox).from
  <2>1. i + 1 \in DOMAIN inbox /\ 1 \in DOMAIN inbox /\ i + 1 # 1 /\ Tail(inbox)[i] = inbox[i + 1]
    BY <1>2
  <2> QED BY <1>1, <1>2, <2>1 DEF SendersOnce
<1>4. ASSUME Head(inbox).type # "TICK"
      PROVE  /\ Head(inbox).from \in Clients /\ Head(inbox).from \notin Sleepers(blocked)
             /\ call[Head(inbox).from].type = Head(inbox).type
             /\ call[Head(inbox).from].time = Head(inbox).time
  <2>1. 1 \in DOMAIN inbox /\ inbox[1].from # "notifier" /\ inbox[1] \in Messages
    BY <1>2, <1>4 DEF ClockInv, Placed, TicksFromNotifier
  <2>2. inbox[1].from \in Clients /\ inbox[1].from \in Senders(inbox)
    BY <2>1 DEF Messages, Senders
  <2> QED BY <1>2, <2>1, <2>2 DEF MessagesAsked, ClockInv, Placed, InOnePlace
<1> QED BY <1>3, <1>4

\* What blocks until `time` is put in the list.
LEMMA ListGrows ==
    ASSUME NEW s \in Seq(Entries), NEW e \in Entries
    PROVE  \A i \in DOMAIN InsertSorted(s, e) :
              InsertSorted(s, e)[i] = e \/ \E j \in DOMAIN s : InsertSorted(s, e)[i] = s[j]
<1> DEFINE r == InsertSorted(s, e)
<1>1. r \in Seq(Entries) /\ \E k \in 1 .. Len(s) + 1 : IsInsertion(r, s, k, e)
  BY InsertSortedFacts
<1> HIDE DEF r
<1>2. PICK k \in 1 .. Len(s) + 1 : IsInsertion(r, s, k, e)
  BY <1>1
<1>3. DOMAIN r = 1 .. Len(s) + 1 /\ DOMAIN s = 1 .. Len(s) /\ Len(s) \in Nat
  BY <1>1, <1>2 DEF IsInsertion
<1>4. ASSUME NEW i \in DOMAIN r PROVE r[i] = e \/ \E j \in DOMAIN s : r[i] = s[j]
  <2>1. CASE i < k
    <3>1. i \in 1 .. k - 1 /\ i \in DOMAIN s
      BY <1>3, <2>1
    <3> QED BY <1>2, <3>1 DEF IsInsertion
  <2>2. CASE i = k
    BY <1>2, <2>2 DEF IsInsertion
  <2>3. CASE i > k
    <3>1. i \in k + 1 .. Len(s) + 1 /\ i - 1 \in DOMAIN s
      BY <1>3, <2>3
    <3> QED BY <1>2, <3>1 DEF IsInsertion
  <2> QED BY <1>3, <2>1, <2>2, <2>3
<1> QED BY <1>4 DEF r

\* A sum that has run over a word at most once.
LEMMA Wraps ==
    ASSUME NEW W \in Nat \ {0}, NEW y \in 0 .. 2 * W - 1
    PROVE  y % W = IF y < W THEN y ELSE y - W
<1>1. y % W \in 0 .. W - 1 /\ y = W * (y \div W) + (y % W) /\ y \div W \in Int
  OBVIOUS
<1>2. y \div W = IF y < W THEN 0 ELSE 1
  OBVIOUS
<1> QED BY <1>1, <1>2

\* The end of a delay, where it is an int that is not past.
LEMMA DelayEnd ==
    ASSUME NEW d \in 1 .. IntMax, NEW now \in 0 .. Word - 1
    PROVE  LET time == ToInt(ToUnsigned(d + now))
           IN  /\ d + now <= IntMax => time = d + now
               /\ time > 0 /\ ~(ToUnsigned(time) < now) => time = d + now
<1>1. IntMax \in Nat /\ Word = 2 * (IntMax + 1)
  BY ClockAssumption
<1> DEFINE x == d + now
           u == x % Word
           time == ToInt(u)
<1>2. x \in Nat /\ x < 2 * Word /\ Word \in Nat \ {0}
  BY <1>1
<1>3. \A y \in 0 .. 2 * Word - 1 : y % Word = IF y < Word THEN y ELSE y - Word
  BY <1>2, Wraps
<1>4. x \in 0 .. 2 * Word - 1
  BY <1>2
<1>5. \A y \in 0 .. Word - 1 : y % Word = y
  <2>1. \A y \in 0 .. Word - 1 : y \in 0 .. 2 * Word - 1 /\ y < Word
    BY <1>2
  <2> QED BY <1>3, <2>1
<1>6. x >= Word => u = x - Word
  BY <1>2, <1>3, <1>4
<1>7. x < Word => u = x
  BY <1>2, <1>3, <1>4
<1> HIDE DEF u
<1>8. x <= IntMax => time = x
  BY <1>1, <1>2, <1>7 DEF ToInt
<1>9. ASSUME time > 0, ~(ToUnsigned(time) < now) PROVE time = x
  <2>1. CASE x < Word
    BY <1>1, <1>2, <1>7, <1>9, <2>1 DEF ToInt
  <2>2. CASE ~(x < Word)
    <3>1. u = x - Word /\ u < now /\ u \in 0 .. Word - 1
      BY <1>1, <1>2, <1>6, <2>2
    <3>2. time = u
      BY <1>1, <1>9, <3>1 DEF ToInt
    <3>3. ToUnsigned(time) = u
      BY <1>5, <3>1, <3>2 DEF ToUnsigned
    <3> QED BY <1>9, <3>1, <3>3
  <2> QED BY <2>1, <2>2
<1> QED BY <1>8, <1>9 DEF ToUnsigned, u

\* Steps in which no client's call ends.
LEMMA NobodyReturns ==
    ASSUME \A c \in Clients : call[c] # Idle => call'[c] # Idle
    PROVE  ReturnsOnTime
  BY DEF ReturnsOnTime, CallReturns

\* The reply ends the call of c and no other.
LEMMA OnlyOneReturns ==
    ASSUME ClockInv, NEW c \in Clients, NEW rep, Replies(c, rep)
    PROVE  /\ call'[c] = Idle
           /\ \A d \in Clients : d # c => call'[d] = call[d] /\ elapsed'[d] = elapsed[d] /\ ~CallReturns(d)
  BY DEF Replies, CallReturns, ClockInv, Typed

LEMMA TickAsked == ASSUME ClockInv, AskedInv, Tick PROVE AskedInv' /\ ReturnsOnTime
<1>1. /\ UNCHANGED <<inbox, server, ticks, blocked, exiter_tid, call>>
      /\ notifier' = IF notifier = "awaiting" THEN "woken" ELSE notifier
      /\ \A c \in Clients : call[c].type = "DELAY" =>
            elapsed'[c] = IF elapsed[c] < IntMax THEN elapsed[c] + 1 ELSE elapsed[c]
  BY DEF Tick, serverVars
<1>2. Uncounted \in 0 .. 1 /\ Uncounted' \in 0 .. Uncounted + 1
  BY <1>1 DEF Uncounted
<1>3. ASSUME NEW i \in DOMAIN blocked PROVE DueAsAsked(blocked[i])'
  <2> DEFINE e == blocked[i]
             c == e.tid
             d == call[c].time
  <2>1. DueAsAsked(e) /\ c \in Clients /\ e.ticks \in Int /\ blocked' = blocked
    BY <1>1, Numbers DEF AskedInv, SleepersAsked
  <2>2. d \in Int /\ d <= IntMax /\ IntMax \in Nat /\ elapsed[c] \in 0 .. IntMax /\ ticks \in Int
    BY <2>1, Numbers DEF Ints
  <2>3. CASE call[c].type = "DELAYUNTIL" /\ e.ticks = d
    BY <1>1, <2>3 DEF DueAsAsked
  <2>4. CASE /\ call[c].type = "DELAY" /\ d > 0
             /\ elapsed[c] >= d \/ ticks + Uncounted <= (e.ticks - d) + elapsed[c] + 1
    <3> DEFINE due == e.ticks
               now == elapsed[c]
               after == elapsed'[c]
    <3>1. after = IF now < IntMax THEN now + 1 ELSE now
      BY <1>1, <2>1, <2>4
    <3> HIDE DEF due, now, after, c, d, e
    <3>2. due \in Int /\ now \in 0 .. IntMax /\ (now >= d \/ ticks + Uncounted <= (due - d) + now + 1)
      BY <2>1, <2>2, <2>4 DEF due, now
    <3>3. after >= d \/ ticks + Uncounted' <= (due - d) + after + 1
      <4>1. CASE now >= d
        BY <2>2, <3>1, <3>2, <4>1
      <4>2. CASE ~(now >= d)
        <5>1. after = now + 1 /\ after \in Int /\ now \in Int /\ d \in Int /\ due \in Int /\ ticks \in Int
          BY <2>2, <3>1, <3>2, <4>2
        <5>2. ticks + Uncounted <= (due - d) + now + 1
          BY <3>2, <4>2
        <5>3. Uncounted \in Int /\ Uncounted' \in Int /\ Uncounted' <= Uncounted + 1
          BY <1>2
        <5>4. ticks + Uncounted' <= (due - d) + after + 1
          <6>1. \A t, u, v, x, y \in Int : t + u <= x + y + 1 /\ v <= u + 1 => t + v <= x + (y + 1) + 1
            OBVIOUS
          <6>2. due - d \in Int
            BY <5>1
          <6> QED BY <5>1, <5>2, <5>3, <6>1, <6>2
        <5> QED BY <5>4
      <4> QED BY <4>1, <4>2
    <3>4. call[c].type = "DELAY" /\ d > 0
      BY <2>4
    <3> QED BY <1>1, <3>3, <3>4 DEF DueAsAsked, due, after, c, d, e
  <2> QED BY <2>1, <2>3, <2>4 DEF DueAsAsked
<1>4. SleepersAsked'
  BY <1>1, <1>3 DEF SleepersAsked
<1>5. MessagesAsked' /\ ExiterAsked'
  BY <1>1 DEF AskedInv, MessagesAsked, ExiterAsked
<1> QED BY <1>1, <1>4, <1>5, NobodyReturns DEF AskedInv

\* Steps that change neither list nor any call.
LEMMA QuietAsked ==
    ASSUME ClockInv, AskedInv, UNCHANGED <<inbox, server, ticks, blocked, exiter_tid, call, elapsed>>,
           Uncounted' = Uncounted
    PROVE  AskedInv' /\ ReturnsOnTime
<1>1. SleepersAsked'
  BY DEF AskedInv, SleepersAsked, DueAsAsked
<1>2. MessagesAsked' /\ ExiterAsked'
  BY DEF AskedInv, MessagesAsked, ExiterAsked
<1> QED BY <1>1, <1>2, NobodyReturns DEF AskedInv

LEMMA NotifierSendsAsked == ASSUME ClockInv, AskedInv, NotifierSends PROVE AskedInv' /\ ReturnsOnTime
<1> DEFINE m == [from |-> "notifier", type |-> "TICK", time |-> 0]
<1>1. /\ UNCHANGED <<server, ticks, blocked, exiter_tid, call, elapsed>>
      /\ notifier = "woken" /\ notifier' = "sending" /\ inbox' = Append(inbox, m)
  BY DEF NotifierSends, serverVars, clientVars
<1>2. Uncounted' = Uncounted
  BY <1>1 DEF Uncounted
<1>3. SleepersAsked' /\ ExiterAsked'
  BY <1>1, <1>2 DEF AskedInv, SleepersAsked, DueAsAsked, ExiterAsked
<1>4. m \in Messages /\ inbox \in Seq(Messages)
  BY ClockAssumption DEF Messages, Ints, ClockInv, Typed
<1>5. /\ DOMAIN inbox = 1 .. Len(inbox) /\ Len(inbox) \in Nat
      /\ DOMAIN inbox' = 1 .. Len(inbox) + 1
      /\ \A i \in 1 .. Len(inbox) : inbox'[i] = inbox[i]
      /\ inbox'[Len(inbox) + 1] = m
  BY <1>1, <1>4, AppendFacts
<1>6. MessagesAsked'
  BY <1>1, <1>5 DEF AskedInv, MessagesAsked
<1> QED BY <1>1, <1>3, <1>6, NobodyReturns DEF AskedInv

LEMMA CallsAsked ==
    ASSUME ClockInv, AskedInv, NEW c \in Clients, NEW r \in Requests, Calls(c, r)
    PROVE  AskedInv' /\ ReturnsOnTime
<1> DEFINE m == [from |-> c, type |-> r.type, time |-> r.time]
<1>1. /\ UNCHANGED <<server, ticks, blocked, exiter_tid, notifier, elapsed>>
      /\ call[c] = Idle /\ call' = [call EXCEPT ![c] = r] /\ inbox' = Append(inbox, m)
  BY DEF Calls, serverVars
<1>2. r.type \in RequestTypes /\ r.time \in Ints
  BY ClockAssumption
<1>3. c \notin Senders(inbox) \cup Sleepers(blocked) /\ (server = "draining" => exiter_tid # c)
  BY <1>1 DEF ClockInv, Placed, InOnePlace, ExiterWaits
<1>4. \A d \in Clients : call'[d] = IF d = c THEN r ELSE call[d]
  BY <1>1 DEF ClockInv, Typed
<1>5. SleepersAsked'
  <2>1. \A i \in DOMAIN blocked' : \E j \in DOMAIN blocked : blocked'[i] = blocked[j] /\ blocked[j].tid # c
    BY <1>1, <1>3 DEF Sleepers
  <2>2. Uncounted' = Uncounted /\ Uncounted \in Int /\ ticks \in Int
    BY <1>1, Numbers DEF Uncounted
  <2>3. ticks' + Uncounted' <= ticks + Uncounted /\ ticks' \in Int /\ Uncounted' \in Int
    BY <1>1, <2>2
  <2>4. \A d \in Clients : d # c => call'[d] = call[d] /\ elapsed'[d] = elapsed[d]
    BY <1>1, <1>4
  <2>5. SleepersAsked
    BY DEF AskedInv
  <2> QED BY <2>1, <2>3, <2>4, <2>5, SleepersStayAsked
<1>6. m \in Messages /\ inbox \in Seq(Messages)
  BY <1>2 DEF Messages, ClockInv, Typed
<1>7. /\ DOMAIN inbox = 1 .. Len(inbox) /\ Len(inbox) \in Nat
      /\ DOMAIN inbox' = 1 .. Len(inbox) + 1
      /\ \A i \in 1 .. Len(inbox) : inbox'[i] = inbox[i]
      /\ inbox'[Len(inbox) + 1] = m
  BY <1>1, <1>6, AppendFacts
<1>8. \A i \in 1 .. Len(inbox) : inbox[i].from \in Clients \cup {"notifier"} /\ inbox[i].from # c
  <2>1. \A i \in 1 .. Len(inbox) : inbox[i] \in Messages
    BY <1>6, <1>7
  <2> QED BY <1>3, <1>7, <2>1 DEF Messages, Senders
<1>9. MessagesAsked'
  <2> SUFFICES ASSUME NEW i \in DOMAIN inbox', inbox'[i].from # "notifier"
               PROVE  /\ call'[inbox'[i].from].type = inbox'[i].type
                      /\ call'[inbox'[i].from].time = inbox'[i].time
    BY DEF MessagesAsked
  <2>1. CASE i = Len(inbox) + 1
    BY <1>4, <1>7, <2>1
  <2>2. CASE i # Len(inbox) + 1
    <3>1. i \in 1 .. Len(inbox) /\ inbox'[i] = inbox[i]
      BY <1>7, <2>2
    <3>2. call'[inbox[i].from] = call[inbox[i].from]
      BY <1>4, <1>8, <3>1
    <3> QED BY <1>7, <3>1, <3>2 DEF AskedInv, MessagesAsked
  <2> QED BY <2>1, <2>2
<1>10. ExiterAsked'
  BY <1>1, <1>3, <1>4 DEF AskedInv, ExiterAsked, ClockInv, Placed, ExiterWaits
<1>11. ReturnsOnTime
  <2>1. \A d \in Clients : call[d] # Idle => call'[d] # Idle
    BY <1>1, <1>4
  <2> QED BY <2>1, NobodyReturns
<1> QED BY <1>5, <1>9, <1>10, <1>11 DEF AskedInv

\* The server takes the message of a client and answers it at once.
AnswersCall(rep) ==
    /\ server = "serving" /\ inbox # <<>> /\ Head(inbox).type # "TICK" /\ inbox' = Tail(inbox)
    /\ Replies(Head(inbox).from, rep)
    /\ UNCHANGED <<server, ticks, blocked, exiter_tid, notifier>>

LEMMA AnswerAsked ==
    ASSUME ClockInv, AskedInv, NEW rep, AnswersCall(rep)
    PROVE  /\ AskedInv'
           /\ \A d \in Clients : CallReturns(d) => d = Head(inbox).from
<1>1. PICK c : c = Head(inbox).from
  OBVIOUS
<1>2. /\ c \in Clients /\ c \notin Sleepers(blocked)
      /\ \A i \in DOMAIN inbox' : \E j \in DOMAIN inbox : inbox'[i] = inbox[j] /\ inbox[j].from # c
  BY <1>1, CallTaken DEF AskedInv, AnswersCall
<1>3. \A d \in Clients : d # c => call'[d] = call[d] /\ elapsed'[d] = elapsed[d] /\ ~CallReturns(d)
  BY <1>1, <1>2, OnlyOneReturns DEF AnswersCall
<1>4. SleepersAsked'
  <2>1. \A i \in DOMAIN blocked' : \E j \in DOMAIN blocked : blocked'[i] = blocked[j] /\ blocked[j].tid # c
    BY <1>2 DEF Sleepers, AnswersCall
  <2>2. Uncounted' = Uncounted /\ ticks' = ticks /\ Uncounted \in Int /\ ticks \in Int
    BY Numbers DEF Uncounted, AnswersCall
  <2>3. ticks' + Uncounted' <= ticks + Uncounted /\ ticks' \in Int /\ Uncounted' \in Int
    BY <2>2
  <2>4. SleepersAsked
    BY DEF AskedInv
  <2>5. \A d \in Clients : d # c => call'[d] = call[d] /\ elapsed'[d] = elapsed[d]
    BY <1>3
  <2> QED BY <2>1, <2>3, <2>4, <2>5, SleepersStayAsked
<1>5. MessagesAsked'
  BY <1>2, <1>3, MessagesStayAsked DEF AskedInv
<1> QED BY <1>1, <1>3, <1>4, <1>5 DEF AskedInv, ExiterAsked, AnswersCall

\* A positive int is the same unsigned.
LEMMA UnsignedSame == \A n \in 1 .. IntMax : ToUnsigned(n) = n
<1>1. IntMax \in Nat /\ Word = 2 * (IntMax + 1)
  BY ClockAssumption
<1>2. Word \in Nat \ {0} /\ \A n \in 1 .. IntMax : n \in 0 .. 2 * Word - 1 /\ n < Word
  BY <1>1
<1> QED BY <1>2, Wraps DEF ToUnsigned

\* The server takes a tick: ticks catches up with the interrupt that caused it.
LEMMA TickTaken ==
    ASSUME ClockInv, HandleTick
    PROVE  /\ Uncounted = 1 /\ Uncounted' = 0 /\ ticks' \in 0 .. Word - 1
           /\ ticks' = ticks + 1 \/ ticks' = 0
<1>1. /\ inbox # <<>> /\ inbox' = Tail(inbox) /\ Head(inbox).type = "TICK"
      /\ notifier' = "running" /\ ticks' = NextTick(ticks)
  BY DEF HandleTick, Receives, NotifierReplied
<1>2. Head(inbox).from = "notifier" /\ "notifier" \in Senders(inbox)
  BY <1>1, MessageTaken
<1>3. notifier = "sending"
  BY <1>2 DEF ClockInv, Placed, TicksFromNotifier
<1>4. ticks \in 0 .. Word - 1 /\ IntMax \in Nat /\ Word = 2 * (IntMax + 1)
  BY Numbers
<1>5. Word \in Nat \ {0} /\ ticks + 1 \in 0 .. 2 * Word - 1 /\ (~(ticks + 1 < Word) => (ticks + 1) - Word = 0)
  BY <1>4
<1>6. ticks' = IF ticks + 1 < Word THEN ticks + 1 ELSE (ticks + 1) - Word
  BY <1>1, <1>5, Wraps DEF NextTick
<1>7. (ticks' = ticks + 1 \/ ticks' = 0) /\ ticks' \in 0 .. Word - 1
  BY <1>4, <1>5, <1>6
<1> QED BY <1>1, <1>3, <1>7 DEF Uncounted

LEMMA HandleTickAsked == ASSUME ClockInv, AskedInv, HandleTick PROVE AskedInv' /\ ReturnsOnTime
<1>1. /\ inbox # <<>> /\ inbox' = Tail(inbox) /\ Head(inbox).type = "TICK" /\ server = "serving"
      /\ UNCHANGED <<server, exiter_tid>>
  BY DEF HandleTick, Receives
<1>2. SleepersAsked /\ MessagesAsked
  BY DEF AskedInv
<1>3. /\ Head(inbox).from = "notifier"
      /\ \A i \in DOMAIN inbox' : \E j \in DOMAIN inbox : inbox'[i] = inbox[j] /\ inbox[j].from # "notifier"
  BY <1>1, <1>2, MessageTaken, CallTaken
<1>4. /\ Uncounted = 1 /\ Uncounted' = 0 /\ ticks' \in Int /\ ticks \in Nat
      /\ ticks' = ticks + 1 \/ ticks' = 0
  <2>1. ticks \in Nat
    BY Numbers
  <2> QED BY <2>1, TickTaken
<1>5. ticks' + Uncounted' <= ticks + Uncounted /\ Uncounted' \in Int
  <2>1. \A t \in Nat : \A s \in Int : s = t + 1 \/ s = 0 => s + 0 <= t + 1
    OBVIOUS
  <2>2. ticks' + 0 <= ticks + 1
    BY <1>4, <2>1
  <2>3. Uncounted = 1 /\ Uncounted' = 0
    BY <1>4
  <2> QED BY <2>2, <2>3
<1>6. ExiterAsked'
  BY <1>1 DEF ExiterAsked
<1>7. CASE blocked # <<>> /\ Due(ticks', Head(blocked))
  <2>1. PICK c, rep : /\ c = Head(blocked).tid /\ blocked' = Tail(blocked)
                      /\ Replies(c, rep)
    BY <1>7 DEF HandleTick, ReleasesFront
  <2>2. /\ Len(blocked) \in Nat \ {0} /\ DOMAIN blocked = 1 .. Len(blocked)
        /\ DOMAIN blocked' = 1 .. Len(blocked) - 1
        /\ \A i \in 1 .. Len(blocked) - 1 : blocked'[i] = blocked[i + 1]
        /\ Head(blocked) = blocked[1]
    BY <1>7, <2>1, TailFacts DEF ClockInv, Typed
  <2>3. c \in Clients /\ c \in Sleepers(blocked) /\ 1 \in DOMAIN blocked /\ c = blocked[1].tid
    BY <2>1, <2>2, Numbers DEF Sleepers
  <2>4. /\ call'[c] = Idle
        /\ \A d \in Clients : d # c => call'[d] = call[d] /\ elapsed'[d] = elapsed[d] /\ ~CallReturns(d)
    BY <2>1, <2>3, OnlyOneReturns
  <2>5. ASSUME NEW i \in DOMAIN blocked'
        PROVE  \E j \in DOMAIN blocked : blocked'[i] = blocked[j] /\ blocked[j].tid # c
    <3>1. i + 1 \in DOMAIN blocked /\ blocked'[i] = blocked[i + 1] /\ i + 1 # 1
      BY <2>2
    <3> QED BY <2>3, <3>1 DEF ClockInv, Placed, InOnePlace, SleepersOnce
  <2>6. SleepersAsked'
    <3>1. \A d \in Clients : d # c => call'[d] = call[d] /\ elapsed'[d] = elapsed[d]
      BY <2>4
    <3> QED BY <1>2, <1>4, <1>5, <2>5, <3>1, SleepersStayAsked
  <2>7. MessagesAsked'
    <3>1. \A i \in DOMAIN inbox' : \E j \in DOMAIN inbox : inbox'[i] = inbox[j] /\ inbox[j].from # c
      BY <1>3, <2>3 DEF ClockInv, Placed, InOnePlace, Senders
    <3> QED BY <1>2, <2>4, <3>1, MessagesStayAsked
  <2>8. ReturnsOnTime
    <3> DEFINE e == blocked[1]
    <3>1. DueAsAsked(e) /\ e.ticks \in 1 .. IntMax /\ e.tid = c
      BY <1>2, <2>3, Numbers DEF SleepersAsked
    <3>2. ticks' > e.ticks
      BY <1>7, <2>2, <3>1, UnsignedSame DEF Due
    <3>3. call[c].time \in Int /\ elapsed[c] \in Int
      BY <2>3, Numbers DEF Ints
    <3>4. ASSUME call[c].type = "DELAY" PROVE elapsed[c] >= call[c].time
      <4>1. elapsed[c] >= call[c].time \/ ticks + 1 <= (e.ticks - call[c].time) + elapsed[c] + 1
        BY <1>4, <3>1, <3>4 DEF DueAsAsked
      <4>2. e.ticks \in Int /\ ticks \in Int /\ e.ticks < ticks + 1
        BY <1>4, <3>1, <3>2
      <4>3. \A now, due, d, el \in Int : due < now + 1 /\ now + 1 <= (due - d) + el + 1 => el >= d
        OBVIOUS
      <4> QED BY <3>3, <4>1, <4>2, <4>3
    <3>5. ASSUME call[c].type = "DELAYUNTIL" PROVE ticks' > call[c].time
      BY <3>1, <3>2, <3>5 DEF DueAsAsked
    <3> QED BY <2>4, <3>4, <3>5 DEF ReturnsOnTime
  <2> QED BY <1>6, <2>6, <2>7, <2>8 DEF AskedInv
<1>8. CASE ~(blocked # <<>> /\ Due(ticks', Head(blocked)))
  <2>1. UNCHANGED <<blocked, call, elapsed>>
    BY <1>8 DEF HandleTick, clientVars
  <2>2. \A i \in DOMAIN blocked' : \E j \in DOMAIN blocked : blocked'[i] = blocked[j] /\ blocked[j].tid # "notifier"
    BY <2>1, Numbers, ClockAssumption
  <2>3. \A d \in Clients : d # "notifier" => call'[d] = call[d] /\ elapsed'[d] = elapsed[d]
    BY <2>1
  <2>4. SleepersAsked'
    BY <1>2, <1>4, <1>5, <2>2, <2>3, SleepersStayAsked
  <2>5. MessagesAsked'
    BY <1>2, <1>3, <2>3, MessagesStayAsked
  <2> QED BY <1>6, <2>1, <2>4, <2>5, NobodyReturns DEF AskedInv
<1> QED BY <1>7, <1>8

LEMMA HandleTimeAsked == ASSUME ClockInv, AskedInv, HandleTime PROVE AskedInv' /\ ReturnsOnTime
<1> DEFINE rep == [type |-> "TIME", time |-> ToInt(ticks)]
<1>1. AnswersCall(rep) /\ Head(inbox).type = "TIME"
  BY DEF HandleTime, Receives, serverVars, AnswersCall
<1> HIDE DEF rep
<1>2. AskedInv' /\ \A d \in Clients : CallReturns(d) => d = Head(inbox).from
  BY <1>1, AnswerAsked
<1>3. call[Head(inbox).from].type = "TIME"
  BY <1>1, CallTaken DEF AskedInv, AnswersCall
<1> QED BY <1>2, <1>3 DEF ReturnsOnTime

\* The server takes the message of a client and puts it to sleep until `time`.
SleepsCall(time) ==
    /\ server = "serving" /\ inbox # <<>> /\ Head(inbox).type # "TICK" /\ inbox' = Tail(inbox)
    /\ blocked' = InsertSorted(blocked, [tid |-> Head(inbox).from, ticks |-> time])
    /\ UNCHANGED <<server, ticks, exiter_tid, notifier, call, elapsed>>

LEMMA SleepAsked ==
    ASSUME ClockInv, AskedInv, NEW time \in Ints, SleepsCall(time),
           DueAsAsked([tid |-> Head(inbox).from, ticks |-> time])
    PROVE  AskedInv' /\ ReturnsOnTime
<1>1. PICK e : e = [tid |-> Head(inbox).from, ticks |-> time]
  OBVIOUS
<1>2. /\ Head(inbox).from \in Clients
      /\ \A i \in DOMAIN inbox' :
            \E j \in DOMAIN inbox : inbox'[i] = inbox[j] /\ inbox[j].from # Head(inbox).from
  BY CallTaken DEF AskedInv, SleepsCall
<1>3. e \in Entries /\ blocked \in Seq(Entries) /\ DueAsAsked(e)
  BY <1>1, <1>2 DEF Entries, ClockInv, Typed
<1>4. \A i \in DOMAIN blocked' : blocked'[i] = e \/ \E j \in DOMAIN blocked : blocked'[i] = blocked[j]
  BY <1>1, <1>3, ListGrows DEF SleepsCall
<1>5. UNCHANGED <<ticks, notifier, call, elapsed, server, exiter_tid>>
  BY DEF SleepsCall
<1>6. ASSUME NEW x, DueAsAsked(x) PROVE DueAsAsked(x)'
  BY <1>5, <1>6 DEF DueAsAsked, Uncounted
<1>7. SleepersAsked'
  <2> SUFFICES ASSUME NEW i \in DOMAIN blocked' PROVE DueAsAsked(blocked[i])'
    BY DEF SleepersAsked
  <2>1. PICK x : x = blocked'[i]
    OBVIOUS
  <2>2. DueAsAsked(x)
    BY <1>3, <1>4, <2>1 DEF AskedInv, SleepersAsked
  <2>3. DueAsAsked(x)'
    BY <1>6, <2>2
  <2> QED BY <2>1, <2>3 DEF DueAsAsked
<1>8. MessagesAsked'
  BY <1>2, <1>5, MessagesStayAsked DEF AskedInv
<1> QED BY <1>5, <1>7, <1>8, NobodyReturns DEF AskedInv, ExiterAsked

\* What BlockUntil does with the call it is given.
LEMMA BlockUntilCases ==
    ASSUME ClockInv, server = "serving", inbox # <<>>, inbox' = Tail(inbox), Head(inbox).type # "TICK",
           NEW time \in Ints, BlockUntil(Head(inbox).from, time),
           UNCHANGED <<server, ticks, exiter_tid, notifier>>
    PROVE  \/ time <= 0 /\ \E rep : AnswersCall(rep)
           \/ time \in 1 .. IntMax /\ ToUnsigned(time) < ticks /\ \E rep : AnswersCall(rep)
           \/ time \in 1 .. IntMax /\ ~(ToUnsigned(time) < ticks) /\ SleepsCall(time)
<1>1. time \in Int /\ IntMax \in Nat /\ (~(time <= 0) => time \in 1 .. IntMax)
  BY ClockAssumption DEF Ints
<1> DEFINE invalid == [type |-> "ERROR", time |-> 0]
           late == [type |-> "TICK", time |-> ToInt(ticks)]
<1>2. CASE time <= 0
  <2>1. Replies(Head(inbox).from, invalid) /\ UNCHANGED blocked
    BY <1>2 DEF BlockUntil
  <2> HIDE DEF invalid
  <2>2. AnswersCall(invalid)
    BY <2>1 DEF AnswersCall
  <2> QED BY <1>2, <2>2
<1>3. CASE ~(time <= 0) /\ ToUnsigned(time) < ticks
  <2>1. Replies(Head(inbox).from, late) /\ UNCHANGED blocked
    BY <1>3 DEF BlockUntil
  <2> HIDE DEF late
  <2>2. AnswersCall(late)
    BY <2>1 DEF AnswersCall
  <2> QED BY <1>1, <1>3, <2>2
<1>4. CASE ~(time <= 0) /\ ~(ToUnsigned(time) < ticks)
  <2>1. SleepsCall(time)
    BY <1>4 DEF BlockUntil, SleepsCall, clientVars
  <2> QED BY <1>1, <1>4, <2>1
<1> QED BY <1>2, <1>3, <1>4

LEMMA HandleDelayAsked == ASSUME ClockInv, AskedInv, HandleDelay PROVE AskedInv' /\ ReturnsOnTime
<1> DEFINE c == Head(inbox).from
           d == Head(inbox).time
           time == ToInt(ToUnsigned(d + ticks))
<1>1. /\ server = "serving" /\ inbox # <<>> /\ inbox' = Tail(inbox)
      /\ Head(inbox).type = "DELAY" /\ Head(inbox).type # "TICK"
      /\ UNCHANGED <<server, ticks, exiter_tid, notifier>>
  BY DEF HandleDelay, Receives
<1>2. c \in Clients /\ call[c].type = "DELAY" /\ call[c].time = d
  BY <1>1, CallTaken DEF AskedInv
<1>3. /\ d \in Ints /\ d \in Int /\ IntMax \in Nat /\ ticks \in 0 .. Word - 1 /\ ticks \in Nat
      /\ elapsed[c] \in Nat /\ Uncounted \in 0 .. 1
  <2>1. d \in Ints /\ elapsed[c] \in 0 .. IntMax
    BY <1>2, Numbers
  <2> HIDE DEF d, c
  <2> QED BY <2>1, Numbers DEF Ints
<1>4. ASSUME NEW rep, AnswersCall(rep), d <= 0 \/ ticks + d > IntMax PROVE AskedInv' /\ ReturnsOnTime
  <2>1. AskedInv' /\ \A x \in Clients : CallReturns(x) => x = c
    BY <1>4, AnswerAsked
  <2>2. ~(d <= 0) => inbox # <<>> /\ Head(inbox).from = c /\ ticks + call[c].time > IntMax
    BY <1>1, <1>2, <1>4
  <2>3. d <= 0 => ~(call[c].time > 0)
    BY <1>2, <1>3
  <2> QED BY <1>2, <2>1, <2>2, <2>3 DEF ReturnsOnTime
<1>5. CASE d <= 0
  <2> DEFINE invalid == [type |-> "ERROR", time |-> 0]
  <2>1. Replies(c, invalid) /\ UNCHANGED blocked
    BY <1>5 DEF HandleDelay
  <2> HIDE DEF invalid
  <2>2. AnswersCall(invalid)
    BY <1>1, <2>1 DEF AnswersCall
  <2> QED BY <1>4, <1>5, <2>2
<1>6. CASE ~(d <= 0)
  <2>1. BlockUntil(c, time)
    BY <1>6 DEF HandleDelay
  <2>2. d \in 1 .. IntMax
    BY <1>3, <1>6 DEF Ints
  <2>3. /\ d + ticks <= IntMax => time = d + ticks
        /\ time > 0 /\ ~(ToUnsigned(time) < ticks) => time = d + ticks
    BY <1>3, <2>2, DelayEnd
  <2>4. time \in Ints
    BY <1>3, Conversions
  <2> HIDE DEF time
  <2>5. \/ time <= 0 /\ \E rep : AnswersCall(rep)
        \/ time \in 1 .. IntMax /\ ToUnsigned(time) < ticks /\ \E rep : AnswersCall(rep)
        \/ time \in 1 .. IntMax /\ ~(ToUnsigned(time) < ticks) /\ SleepsCall(time)
    BY <1>1, <2>1, <2>4, BlockUntilCases
  <2> HIDE DEF c, d
  <2>6. CASE time <= 0 /\ \E rep : AnswersCall(rep)
    <3>1. ticks + d > IntMax
      BY <1>3, <2>2, <2>3, <2>6
    <3> QED BY <1>4, <2>6, <3>1
  <2>7. CASE time \in 1 .. IntMax /\ ToUnsigned(time) < ticks /\ \E rep : AnswersCall(rep)
    <3>1. ToUnsigned(time) = time
      BY <2>7, UnsignedSame
    <3>2. ticks + d > IntMax
      BY <1>3, <2>2, <2>3, <2>7, <3>1
    <3> QED BY <1>4, <2>7, <3>2
  <2>8. CASE time \in 1 .. IntMax /\ ~(ToUnsigned(time) < ticks) /\ SleepsCall(time)
    <3>1. time = d + ticks
      BY <2>3, <2>8
    <3> DEFINE e == [tid |-> c, ticks |-> time]
    <3>2. e.tid = c /\ e.ticks = time
      OBVIOUS
    <3> HIDE DEF e
    <3>3. ticks + Uncounted <= (time - d) + elapsed[c] + 1 /\ d > 0
      <4>1. time - d = ticks
        BY <1>3, <3>1
      <4> QED BY <1>3, <2>2, <4>1
    <3>4. DueAsAsked(e)
      BY <1>2, <3>2, <3>3 DEF DueAsAsked
    <3> QED BY <2>4, <2>8, <3>4, SleepAsked DEF e, c
  <2> QED BY <2>5, <2>6, <2>7, <2>8
<1> QED BY <1>5, <1>6

LEMMA HandleDelayUntilAsked == ASSUME ClockInv, AskedInv, HandleDelayUntil PROVE AskedInv' /\ ReturnsOnTime
<1> DEFINE c == Head(inbox).from
           time == Head(inbox).time
<1>1. /\ server = "serving" /\ inbox # <<>> /\ inbox' = Tail(inbox)
      /\ Head(inbox).type = "DELAYUNTIL" /\ Head(inbox).type # "TICK"
      /\ BlockUntil(c, time) /\ UNCHANGED <<server, ticks, exiter_tid, notifier>>
  BY DEF HandleDelayUntil, Receives
<1>2. c \in Clients /\ call[c].type = "DELAYUNTIL" /\ call[c].time = time
  BY <1>1, CallTaken DEF AskedInv
<1>3. time \in Ints /\ time \in Int /\ ticks \in Int /\ ticks' = ticks
  <2>1. time \in Ints
    BY <1>2, Numbers
  <2> HIDE DEF time
  <2> QED BY <1>1, <2>1, Numbers DEF Ints
<1>4. \/ time <= 0 /\ \E rep : AnswersCall(rep)
      \/ time \in 1 .. IntMax /\ ToUnsigned(time) < ticks /\ \E rep : AnswersCall(rep)
      \/ time \in 1 .. IntMax /\ ~(ToUnsigned(time) < ticks) /\ SleepsCall(time)
  BY <1>1, <1>3, BlockUntilCases
<1>5. ASSUME NEW rep, AnswersCall(rep), time <= 0 \/ ticks > time PROVE AskedInv' /\ ReturnsOnTime
  <2>1. AskedInv' /\ \A x \in Clients : CallReturns(x) => x = c
    BY <1>5, AnswerAsked
  <2>2. call[c].time > 0 => ticks' > call[c].time
    BY <1>2, <1>3, <1>5
  <2> QED BY <1>2, <2>1, <2>2 DEF ReturnsOnTime
<1> HIDE DEF c, time
<1>6. CASE time <= 0 /\ \E rep : AnswersCall(rep)
  BY <1>5, <1>6
<1>7. CASE time \in 1 .. IntMax /\ ToUnsigned(time) < ticks /\ \E rep : AnswersCall(rep)
  <2>1. ticks > time
    BY <1>3, <1>7, UnsignedSame
  <2> QED BY <1>5, <1>7, <2>1
<1>8. CASE time \in 1 .. IntMax /\ ~(ToUnsigned(time) < ticks) /\ SleepsCall(time)
  <2>1. DueAsAsked([tid |-> c, ticks |-> time])
    BY <1>2 DEF DueAsAsked
  <2> QED BY <1>3, <1>8, <2>1, SleepAsked DEF c
<1> QED BY <1>4, <1>6, <1>7, <1>8

LEMMA HandleExitAsked == ASSUME ClockInv, AskedInv, HandleExit PROVE AskedInv' /\ ReturnsOnTime
<1>1. /\ inbox # <<>> /\ inbox' = Tail(inbox) /\ Head(inbox).type = "EXIT" /\ Head(inbox).type # "TICK"
      /\ exiter_tid' = Head(inbox).from /\ UNCHANGED <<ticks, blocked, notifier, call, elapsed>>
  BY DEF HandleExit, Receives, clientVars
<1>2. /\ call[Head(inbox).from].type = "EXIT"
      /\ \A i \in DOMAIN inbox' :
            \E j \in DOMAIN inbox : inbox'[i] = inbox[j] /\ inbox[j].from # Head(inbox).from
  BY <1>1, CallTaken DEF AskedInv
<1>3. SleepersAsked'
  BY <1>1 DEF AskedInv, SleepersAsked, DueAsAsked, Uncounted
<1>4. MessagesAsked'
  <2>1. call' = call
    BY <1>1
  <2>2. MessagesAsked
    BY DEF AskedInv
  <2>3. \A i \in DOMAIN inbox' : \E j \in DOMAIN inbox : inbox'[i] = inbox[j]
    BY <1>2
  <2> QED BY <2>1, <2>2, <2>3 DEF MessagesAsked
<1> QED BY <1>1, <1>2, <1>3, <1>4, NobodyReturns DEF AskedInv, ExiterAsked

LEMMA DrainAsked == ASSUME ClockInv, AskedInv, Drain PROVE AskedInv' /\ ReturnsOnTime
<1>1. /\ server = "draining" /\ inbox # <<>> /\ inbox' = Tail(inbox)
      /\ UNCHANGED <<ticks, blocked, exiter_tid>>
  BY DEF Drain
<1>2. /\ MessagesAsked /\ SleepersAsked
      /\ \A i \in DOMAIN inbox' :
            \E j \in DOMAIN inbox : inbox'[i] = inbox[j] /\ inbox[j].from # Head(inbox).from
  BY <1>1, CallTaken DEF AskedInv
<1>3. CASE Head(inbox).type = "TICK"
  <2>1. PICK c, rep : c = exiter_tid /\ Replies(c, rep)
    BY <1>3 DEF Drain
  <2>2. notifier' = "leaving" /\ server' = "exited"
    BY <1>3 DEF Drain, NotifierDismissed
  <2>3. c \in Clients /\ c \notin Senders(inbox) \cup Sleepers(blocked) /\ call[c].type = "EXIT"
    BY <1>1, <2>1 DEF ClockInv, Placed, ExiterWaits, AskedInv, ExiterAsked
  <2>4. \A d \in Clients : d # c => call'[d] = call[d] /\ elapsed'[d] = elapsed[d] /\ ~CallReturns(d)
    BY <2>1, <2>3, OnlyOneReturns
  <2>5. SleepersAsked'
    <3>1. \A i \in DOMAIN blocked' : \E j \in DOMAIN blocked : blocked'[i] = blocked[j] /\ blocked[j].tid # c
      BY <1>1, <2>3 DEF Sleepers
    <3>2. ticks' = ticks /\ ticks \in Int /\ Uncounted \in 0 .. 1 /\ Uncounted' = 0
      BY <1>1, <2>2, Numbers DEF Uncounted
    <3>3. ticks' + Uncounted' <= ticks + Uncounted /\ ticks' \in Int /\ Uncounted' \in Int
      BY <3>2
    <3>4. \A d \in Clients : d # c => call'[d] = call[d] /\ elapsed'[d] = elapsed[d]
      BY <2>4
    <3>5. SleepersAsked
      BY <1>2
    <3> QED BY <3>1, <3>3, <3>4, <3>5, SleepersStayAsked
  <2>6. MessagesAsked'
    <3>1. \A i \in DOMAIN inbox' : \E j \in DOMAIN inbox : inbox'[i] = inbox[j] /\ inbox[j].from # c
      BY <1>2, <2>3 DEF Senders
    <3> QED BY <1>2, <2>4, <3>1, MessagesStayAsked
  <2>7. ReturnsOnTime
    BY <2>3, <2>4 DEF ReturnsOnTime
  <2> QED BY <2>2, <2>5, <2>6, <2>7 DEF AskedInv, ExiterAsked
<1>4. CASE Head(inbox).type # "TICK"
  <2>1. UNCHANGED <<notifier, call, elapsed, server>>
    BY <1>4 DEF Drain, clientVars
  <2>2. SleepersAsked'
    BY <1>1, <1>2, <2>1 DEF SleepersAsked, DueAsAsked, Uncounted
  <2>3. MessagesAsked'
    BY <1>2, <2>1, MessagesStayAsked
  <2> QED BY <1>1, <2>1, <2>2, <2>3, NobodyReturns DEF AskedInv, ExiterAsked
<1> QED BY <1>3, <1>4

LEMMA AskedStep == ClockInv /\ AskedInv /\ [Next]_vars => AskedInv' /\ ReturnsOnTime
<1> SUFFICES ASSUME ClockInv, AskedInv, [Next]_vars PROVE AskedInv' /\ ReturnsOnTime
  OBVIOUS
<1>1. CASE Tick
  BY <1>1, TickAsked
<1>2. CASE NotifierAwaits \/ NotifierExits
  <2>1. UNCHANGED <<inbox, server, ticks, blocked, exiter_tid, call, elapsed>> /\ Uncounted' = Uncounted
    BY <1>2 DEF NotifierAwaits, NotifierExits, serverVars, clientVars, Uncounted
  <2> QED BY <2>1, QuietAsked
<1>3. CASE NotifierSends
  BY <1>3, NotifierSendsAsked
<1>4. ASSUME NEW c \in Clients, NEW r \in Requests, Calls(c, r) PROVE AskedInv' /\ ReturnsOnTime
  BY <1>4, CallsAsked
<1>5. ASSUME NEW c \in Clients, NEW r \in Requests, CallsNobody(c, r) PROVE AskedInv' /\ ReturnsOnTime
  <2>1. UNCHANGED <<inbox, server, ticks, blocked, exiter_tid, call, elapsed>> /\ Uncounted' = Uncounted
    BY <1>5 DEF CallsNobody, serverVars, Uncounted
  <2> QED BY <2>1, QuietAsked
<1>6. CASE Handle
  BY <1>6, HandleTickAsked, HandleTimeAsked, HandleDelayAsked, HandleDelayUntilAsked, HandleExitAsked,
     DrainAsked DEF Handle
<1>7. CASE UNCHANGED vars
  <2>1. UNCHANGED <<inbox, server, ticks, blocked, exiter_tid, call, elapsed>> /\ Uncounted' = Uncounted
    BY <1>7 DEF vars, serverVars, clientVars, Uncounted
  <2> QED BY <2>1, QuietAsked
<1> QED BY <1>1, <1>2, <1>3, <1>4, <1>5, <1>6, <1>7 DEF Next

\* Delay blocks for at least as many timer interrupts as asked for, if its end is an int, and
\* DelayUntil until the server's clock is past the time asked for: over ticks that are lost or
\* wait in the queue, over the wrap of the clock and the release of one sleeper per tick.
THEOREM ClockNotEarly == Spec => NotEarly
<1>1. Init => AskedInv
  BY DEF Init, AskedInv, SleepersAsked, MessagesAsked, ExiterAsked
<1>2. ReturnsOnTime =>
        /\ \A c \in Clients :
             /\ CallReturns(c) /\ call[c].type = "DELAY" /\ call[c].time > 0
             /\ ~(inbox # <<>> /\ Head(inbox).from = c /\ ticks + call[c].time > IntMax)
             => elapsed[c] >= call[c].time
        /\ \A c \in Clients :
             CallReturns(c) /\ call[c].type = "DELAYUNTIL" /\ call[c].time > 0 => ticks' > call[c].time
  BY DEF ReturnsOnTime
<1> QED BY <1>1, <1>2, ClockInit, ClockStep, AskedStep, PTL DEF Spec, NotEarly, DelayNotEarly, DelayUntilNotEarly
=============================================================================
