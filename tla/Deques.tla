------------------------------- MODULE Deques -------------------------------
(***************************************************************************)
(* What the callers of src/queue/queue.c rely on: queues of nodes, each    *)
(* node in at most one place, with insertion at either end or behind a     *)
(* given node, and removal at the front.  No pointers and no count.        *)
(***************************************************************************)
EXTENDS Integers, SequencesExt

CONSTANTS Nodes, Queues,
          Null         \* what a get from an empty queue returns

VARIABLES qs,          \* the nodes of each queue, from front to back
          got          \* what the last get returned

vars == <<qs, got>>

Free(n) == \A q \in Queues : \A i \in DOMAIN qs[q] : qs[q][i] # n

Init == qs = [q \in Queues |-> <<>>] /\ got = Null

Put(q, n) == Free(n) /\ qs' = [qs EXCEPT ![q] = Append(@, n)] /\ UNCHANGED got

PutFront(q, n) == Free(n) /\ qs' = [qs EXCEPT ![q] = <<n>> \o @] /\ UNCHANGED got

PutBehind(q, i, n) ==
    /\ Free(n) /\ i \in DOMAIN qs[q]
    /\ qs' = [qs EXCEPT ![q] = InsertAt(@, i + 1, n)]
    /\ UNCHANGED got

Get(q) ==
    IF qs[q] = <<>>
    THEN got' = Null /\ UNCHANGED qs
    ELSE got' = Head(qs[q]) /\ qs' = [qs EXCEPT ![q] = Tail(@)]

\* The node behind position i comes to the front; the others keep their order.
ToFront(s, i) == <<s[i + 1]>> \o RemoveAt(s, i + 1)

MoveToFront(q, i) ==
    /\ i \in DOMAIN qs[q] /\ i < Len(qs[q])
    /\ qs' = [qs EXCEPT ![q] = ToFront(@, i)]
    /\ UNCHANGED got

Next == \E q \in Queues :
            \/ Get(q)
            \/ \E n \in Nodes : Put(q, n) \/ PutFront(q, n)
            \/ \E n \in Nodes : \E i \in DOMAIN qs[q] : PutBehind(q, i, n)
            \/ \E i \in DOMAIN qs[q] : MoveToFront(q, i)

Spec == Init /\ [][Next]_vars
=============================================================================
