---------------------------- MODULE PriorityFIFO ----------------------------
(***************************************************************************)
(* What the kernel relies on the scheduler for: a FIFO queue for each      *)
(* priority, and a get that serves the best (lowest) priority at which a   *)
(* task waits.  No bitmap and no search.                                   *)
(***************************************************************************)
EXTENDS Integers, Sequences

CONSTANTS Tasks,       \* the tasks that can be scheduled
          Priority,    \* the priority of each task
          NoTask       \* what get returns when no task is ready

VARIABLES qs,          \* the ready tasks of each priority, in FIFO order
          got          \* what the last get returned

vars == <<qs, got>>

Levels == DOMAIN qs

\* The priorities at which a task is ready.
Occupied == {p \in Levels : qs[p] # <<>>}

Init == /\ qs = [p \in 0 .. 63 |-> <<>>]
        /\ got = NoTask

Put(t) == /\ \A p \in Levels : \A i \in DOMAIN qs[p] : qs[p][i] # t
          /\ qs' = [qs EXCEPT ![Priority[t]] = Append(@, t)]
          /\ UNCHANGED got

GetFrom(p) == /\ p \in Occupied
              /\ \A o \in Occupied : p <= o
              /\ got' = Head(qs[p])
              /\ qs' = [qs EXCEPT ![p] = Tail(@)]

GetNone == /\ Occupied = {}
           /\ got' = NoTask
           /\ UNCHANGED qs

Next == \/ \E t \in Tasks : Put(t)
        \/ \E p \in Levels : GetFrom(p)
        \/ GetNone

Spec == Init /\ [][Next]_vars
=============================================================================
