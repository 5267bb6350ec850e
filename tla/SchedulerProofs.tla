--------------------------- MODULE SchedulerProofs ---------------------------
(***************************************************************************)
(* The scheduler, with its bitmap and the binary search of                 *)
(* bitmap_leadingzeroes, implements PriorityFIFO for every set of tasks    *)
(* and every assignment of priorities.                                     *)
(***************************************************************************)
EXTENDS Scheduler, SchedulerLemmas

-----------------------------------------------------------------------------
(***************************************************************************)
(* The scheduler.                                                          *)
(***************************************************************************)

\* The invariant of the refinement: types and the agreement of the bitmap with
\* the queues.
Inv == TypeOK /\ BitmapExact

\* What scheduler_get does when a bit is set, in the terms of PriorityFIFO: the
\* queue it serves is occupied and no occupied queue is of a better priority.
LEMMA GetServesBest ==
    ASSUME Inv, bitmap # {}
    PROVE  LET idx == bitmap_leadingzeroes(bitmap)
           IN  /\ idx \in Levels
               /\ priority_qs[idx] # <<>>
               /\ \A p \in Levels : priority_qs[p] # <<>> => idx <= p
<1>1. bitmap \in SUBSET (0 .. WordSize - 1)
  BY DEF Inv, TypeOK, Levels
<1> QED BY <1>1, LowestBit DEF Inv, TypeOK, BitmapExact, Levels

\* Inv is preserved by every step of the scheduler.
LEMMA InvStep == Inv /\ [Next]_vars => Inv'
<1> SUFFICES ASSUME Inv, [Next]_vars PROVE Inv'
  OBVIOUS
<1> USE DEF Inv
<1>1. ASSUME NEW t \in Tasks, scheduler_put(t) PROVE Inv'
  <2>1. Priority[t] \in Levels
    BY SchedulerAssumption DEF Levels
  <2>2. TypeOK'
    BY <1>1, <2>1 DEF scheduler_put, PutBit, Enqueue, TypeOK
  <2>3. \A p \in Levels : priority_qs'[p] = IF p = Priority[t] THEN Append(priority_qs[p], t) ELSE priority_qs[p]
    BY <1>1, <2>1 DEF scheduler_put, Enqueue, TypeOK
  <2>4. Append(priority_qs[Priority[t]], t) # <<>>
    BY <2>1 DEF TypeOK
  <2>5. BitmapExact'
    BY <1>1, <2>1, <2>3, <2>4 DEF scheduler_put, PutBit, BitmapExact, TypeOK
  <2> QED BY <2>2, <2>5
<1>2. CASE scheduler_get /\ bitmap = {}
  BY <1>2 DEF scheduler_get, scheduler_empty, TypeOK, BitmapExact
<1>3. CASE scheduler_get /\ bitmap # {}
  <2> DEFINE idx == bitmap_leadingzeroes(bitmap)
  <2>1. idx \in Levels /\ priority_qs[idx] \in Seq(Tasks) /\ priority_qs[idx] # <<>>
    BY <1>3, GetServesBest DEF TypeOK
  <2>2. /\ got' = Head(priority_qs[idx])
        /\ priority_qs' = [priority_qs EXCEPT ![idx] = Tail(@)]
        /\ bitmap' = IF Len(priority_qs[idx]) = 1 THEN bitmap \ {idx} ELSE bitmap
    BY <1>3 DEF scheduler_get, scheduler_empty, NextReady, GetReady, Dequeue, GetBit
  <2> HIDE DEF idx
  <2>3. Tail(priority_qs[idx]) \in Seq(Tasks) /\ Head(priority_qs[idx]) \in Tasks
    BY <2>1
  <2>4. Tail(priority_qs[idx]) = <<>> <=> Len(priority_qs[idx]) = 1
    BY <2>1, TailEmpty
  <2>5. TypeOK'
    BY <2>1, <2>2, <2>3 DEF TypeOK
  <2>6. BitmapExact'
    BY <2>1, <2>2, <2>4 DEF BitmapExact, TypeOK
  <2> QED BY <2>5, <2>6
<1>4. CASE UNCHANGED vars
  BY <1>4 DEF vars, TypeOK, BitmapExact
<1> QED BY <1>1, <1>2, <1>3, <1>4 DEF Next

\* The bitmap agrees with the ready queues in every state, for every set of tasks
\* and every assignment of priorities (scheduler_put and scheduler_get).
THEOREM BitmapAlwaysExact == Spec => [](TypeOK /\ BitmapExact)
<1>1. scheduler_init => Inv
  BY DEF scheduler_init, Inv, TypeOK, BitmapExact, Levels
<1> QED BY <1>1, InvStep, PTL DEF Spec, Inv

\* The scheduler implements the priority queue the kernel relies on: each
\* scheduler_get serves the front of the best occupied queue, or finds none ready.
THEOREM SchedulerImplements == Spec => ImplementsPriorityFIFO
<1>1. scheduler_init => Abstract!Init
  BY DEF scheduler_init, Abstract!Init, Levels, WordSize
<1>2. Inv /\ [Next]_vars => [Abstract!Next]_(Abstract!vars)
  <2> SUFFICES ASSUME Inv, [Next]_vars PROVE Abstract!Next \/ UNCHANGED Abstract!vars
    OBVIOUS
  <2>0. Abstract!Levels = Levels
    BY DEF Inv, TypeOK, Abstract!Levels
  <2>1. ASSUME NEW t \in Tasks, scheduler_put(t) PROVE Abstract!Put(t)
    BY <2>1, <2>0 DEF scheduler_put, InQueue, Enqueue, Abstract!Put
  <2>2. CASE scheduler_get /\ bitmap = {}
    BY <2>2, <2>0 DEF scheduler_get, scheduler_empty, Inv, BitmapExact, Abstract!Next, Abstract!GetNone, Abstract!Occupied
  <2>3. ASSUME scheduler_get, bitmap # {} PROVE \E p \in Levels : Abstract!GetFrom(p)
    <3> DEFINE idx == bitmap_leadingzeroes(bitmap)
    <3>1. idx \in Levels /\ priority_qs[idx] # <<>> /\ \A p \in Levels : priority_qs[p] # <<>> => idx <= p
      BY <2>3, GetServesBest
    <3>2. got' = Head(priority_qs[idx]) /\ priority_qs' = [priority_qs EXCEPT ![idx] = Tail(@)]
      BY <2>3 DEF scheduler_get, scheduler_empty, NextReady, GetReady, Dequeue
    <3> HIDE DEF idx
    <3>3. Abstract!GetFrom(idx)
      BY <2>0, <3>1, <3>2 DEF Abstract!GetFrom, Abstract!Occupied
    <3> QED BY <3>1, <3>3
  <2>4. CASE UNCHANGED vars
    BY <2>4 DEF vars, Abstract!vars
  <2> QED BY <2>0, <2>1, <2>2, <2>3, <2>4 DEF Next, Abstract!Next
<1> QED BY <1>1, <1>2, BitmapAlwaysExact, PTL DEF Spec, Inv, ImplementsPriorityFIFO, Abstract!Spec
=============================================================================
