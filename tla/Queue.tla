------------------------------- MODULE Queue -------------------------------
(***************************************************************************)
(* The intrusive singly linked list of src/queue/queue.c at the level of   *)
(* its pointers: `front`, `back` and `elements` of each queue and `next`   *)
(* of each node.  A node's data pointer never changes after                *)
(* queue_node_init and stands for the node itself.  Callers own the nodes, *)
(* move them from queue to queue and put only nodes that are in no queue.  *)
(*                                                                         *)
(* Each queue of the program is used with some of the operations only:     *)
(* the kernel's with put and get, the name map with put_front, the clock   *)
(* server's free_list with put and get and its blocked list with put_front,*)
(* get and an insertion of its own behind a node, which leaves `back`      *)
(* alone.  The call of queue_mtf in the name map is commented out.         *)
(***************************************************************************)
EXTENDS Integers, Sequences, FiniteSets

CONSTANTS Nodes, Queues,
          Null,        \* NULL
          Uses         \* the operations each queue is used with

\* "mtf" is queue_mtf of any parent, "mtf_second" of the front only.
Operations == {"put", "put_front", "get", "insert", "mtf", "mtf_second"}

ASSUME QueueAssumption ==
    /\ Uses \in [Queues -> SUBSET Operations]
    /\ IsFiniteSet(Nodes) /\ Null \notin Nodes
    \* a queue whose back goes stale is not appended to
    /\ \A q \in Queues : "put" \notin Uses[q] \/ Uses[q] \cap {"insert", "mtf", "mtf_second"} = {}

VARIABLES next,                    \* node->next
          front, back, elements,   \* queue_t
          got                      \* what the last queue_get returned

vars == <<next, front, back, elements, got>>

(***************************************************************************)
(* The nodes reached from front: At(q)[i] is the i-th, Null past the end.  *)
(***************************************************************************)
At(q) ==
    LET at[i \in 1 .. Cardinality(Nodes) + 1] ==
            IF i = 1 THEN front[q] ELSE IF at[i - 1] = Null THEN Null ELSE next[at[i - 1]]
    IN  at

Contents(q) == SubSeq(At(q), 1, elements[q])

Linked(n) == \E q \in Queues : \E i \in 1 .. elements[q] : At(q)[i] = n

-----------------------------------------------------------------------------
\* queue_init of every queue, queue_node_init of every node
Init ==
    /\ next = [n \in Nodes |-> Null]
    /\ front = [q \in Queues |-> Null]
    /\ back = [q \in Queues |-> Null]
    /\ elements = [q \in Queues |-> 0]
    /\ got = Null

queue_empty(q) == elements[q] = 0

queue_put(q, n) ==
    /\ "put" \in Uses[q] /\ ~Linked(n)
    /\ front' = IF queue_empty(q) THEN [front EXCEPT ![q] = n] ELSE front
    /\ next' = IF queue_empty(q)
               THEN [next EXCEPT ![n] = Null]
               ELSE [next EXCEPT ![back[q]] = n, ![n] = Null]
    /\ back' = [back EXCEPT ![q] = n]
    /\ elements' = [elements EXCEPT ![q] = @ + 1]
    /\ UNCHANGED got

\* Mutant: back is not set for the first node.
PutFrontKeepsBack(q, n) ==
    /\ "put_front" \in Uses[q] /\ ~Linked(n)
    /\ next' = [next EXCEPT ![n] = IF queue_empty(q) THEN Null ELSE front[q]]
    /\ front' = [front EXCEPT ![q] = n]
    /\ elements' = [elements EXCEPT ![q] = @ + 1]
    /\ UNCHANGED <<back, got>>

queue_put_front(q, n) ==
    /\ "put_front" \in Uses[q] /\ ~Linked(n)
    /\ back' = IF queue_empty(q) THEN [back EXCEPT ![q] = n] ELSE back
    /\ next' = [next EXCEPT ![n] = IF queue_empty(q) THEN Null ELSE front[q]]
    /\ front' = [front EXCEPT ![q] = n]
    /\ elements' = [elements EXCEPT ![q] = @ + 1]
    /\ UNCHANGED got

queue_get(q) ==
    /\ "get" \in Uses[q]
    /\ IF queue_empty(q)
       THEN got' = Null /\ UNCHANGED <<next, front, elements>>
       ELSE /\ got' = front[q]
            /\ front' = [front EXCEPT ![q] = next[front[q]]]
            /\ next' = [next EXCEPT ![front[q]] = Null]
            /\ elements' = [elements EXCEPT ![q] = @ - 1]
    /\ UNCHANGED back

\* Mutant: the rest of the list is cut off.
InsertCutsRest(q, i, n) ==
    /\ "insert" \in Uses[q] /\ ~Linked(n) /\ i \in 1 .. elements[q]
    /\ next' = [next EXCEPT ![n] = Null, ![At(q)[i]] = n]
    /\ elements' = [elements EXCEPT ![q] = @ + 1]
    /\ UNCHANGED <<front, back, got>>

\* The clock server's insertion behind curr_node, its i-th node.
insert_behind(q, i, n) ==
    /\ "insert" \in Uses[q] /\ ~Linked(n) /\ i \in 1 .. elements[q]
    /\ LET curr_node == At(q)[i]
       IN  next' = [next EXCEPT ![n] = next[curr_node], ![curr_node] = n]
    /\ elements' = [elements EXCEPT ![q] = @ + 1]
    /\ UNCHANGED <<front, back, got>>

\* queue_mtf(q, parent), where parent is the i-th node; it returns 1 and changes
\* nothing if parent is the last one.  The moved node is linked to parent, which is
\* the old front only for i = 1: the nodes before any other parent drop out.
queue_mtf(q, i) ==
    /\ "mtf" \in Uses[q] \/ ("mtf_second" \in Uses[q] /\ i = 1)
    /\ i \in 1 .. elements[q]
    /\ LET parent == At(q)[i]
           new_front == next[parent]
       IN  /\ new_front # Null
           /\ next' = [next EXCEPT ![parent] = next[new_front], ![new_front] = parent]
           /\ front' = [front EXCEPT ![q] = new_front]
    /\ UNCHANGED <<back, elements, got>>

Next == \E q \in Queues :
            \/ queue_get(q)
            \/ \E n \in Nodes : queue_put(q, n) \/ queue_put_front(q, n)
            \/ \E n \in Nodes : \E i \in 1 .. elements[q] : insert_behind(q, i, n)
            \/ \E i \in 1 .. elements[q] : queue_mtf(q, i)

Spec == Init /\ [][Next]_vars

-----------------------------------------------------------------------------
\* `elements`, which queue_size returns, is the number of nodes from front to the end
\* of the list: queue_get stops by the count, name_map_find and the clock server's walk
\* by the NULL.
CountExact ==
    \A q \in Queues : /\ \A i \in 1 .. elements[q] : At(q)[i] # Null
                      /\ At(q)[elements[q] + 1] = Null

\* In a queue that is appended to, back is the last node: queue_put links the new
\* node behind it.
BackIsLast ==
    \A q \in Queues : "put" \in Uses[q] /\ elements[q] > 0 => back[q] = At(q)[elements[q]]

\* The links, the counts and the ends of the lists agree.
WellFormed == CountExact /\ BackIsLast

\* No queue is used with queue_mtf of a node other than its front.
MtfOfFrontOnly == \A q \in Queues : "mtf" \notin Uses[q]

\* The lists as sequences.
lists == [q \in Queues |-> Contents(q)]

\* The lists behave like the sequences the other modules use in their place.
Abstract == INSTANCE Deques WITH qs <- lists

ImplementsDeques == Abstract!Spec
=============================================================================
