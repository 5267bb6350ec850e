---------------------------- MODULE MCContainers ----------------------------
(***************************************************************************)
(* The linked lists and the ring buffer for TLC.  They have no state in    *)
(* common, so a behaviour uses one of them and leaves the other alone: the *)
(* two state spaces side by side instead of their product.                 *)
(*                                                                         *)
(* The lists are on one pool of nodes and used as the program does: the    *)
(* clock server's two lists, of which blocked also stands for a name map   *)
(* whose finds move the second node to the front, and deque for any list   *)
(* with both kinds of put.                                                 *)
(***************************************************************************)
EXTENDS Queue, RingBuffer, TLC

CONSTANTS n1, n2, n3, n4

MCNodes == {n1, n2, n3, n4}

Symmetry == Permutations(MCNodes)

MCQueues == {"free_list", "blocked", "deque"}
MCUses == [q \in MCQueues |->
            CASE q = "free_list" -> {"put", "get"}
              [] q = "blocked"   -> {"put_front", "get", "insert", "mtf_second"}
              [] q = "deque"     -> {"put", "put_front", "get"}]

VARIABLE used      \* the container that is used

\* What the array holds at first matters to the ring buffer only.
MCInit ==
    /\ Init /\ ringbuffer_init
    /\ used \in {"lists", "ring"}
    /\ used = "lists" => \A s \in Slots : buf[s] = CHOOSE d \in Data : TRUE

MCNext ==
    /\ \/ used = "lists" /\ Next /\ UNCHANGED ring_vars
       \/ used = "ring" /\ RingNext /\ UNCHANGED vars
    /\ UNCHANGED used

MCSpec == MCInit /\ [][MCNext]_<<vars, ring_vars, used>>
=============================================================================
