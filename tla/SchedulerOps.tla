---------------------------- MODULE SchedulerOps ----------------------------
(***************************************************************************)
(* The operations of src/scheduler/scheduler.c, as operators on its two    *)
(* fields: `bitmap`, one bit for each priority, and `priority_qs`, one     *)
(* FIFO queue of ready tasks for each priority.  A 64-bit word is the set  *)
(* of the positions of its one bits, so that & with 2^k - 1, >> and |= are *)
(* set operations.  A queue is the sequence of the tasks linked in it,     *)
(* which module Queue justifies.                                           *)
(***************************************************************************)
EXTENDS Integers, Sequences

\* Number of bits of sch->bitmap (uint64_t).
WordSize == 64

(***************************************************************************)
(* bitmap_leadingzeroes: the position of the lowest one bit, found by      *)
(* halving.                                                                *)
(***************************************************************************)

\* bitmap & (2^k - 1)
LowBits(bitmap, k) == {i \in bitmap : i < k}

\* bitmap >>= k
ShiftRight(bitmap, k) == {i - k : i \in {j \in bitmap : j >= k}}

\* One `if ((bitmap & mask) == 0) { bitmap >>= k; count += k; }`
Narrow(s, k) ==
    IF LowBits(s.bitmap, k) = {}
    THEN [bitmap |-> ShiftRight(s.bitmap, k), count |-> s.count + k]
    ELSE s

\* Mutant: the first test asks whether the upper half has a bit, not whether the
\* lower half has none.
UpperHalfFirst(bitmap) ==
    IF 0 \in bitmap
    THEN 0
    ELSE LET start == IF ShiftRight(bitmap, 32) # {}
                      THEN [bitmap |-> ShiftRight(bitmap, 32), count |-> 33]
                      ELSE [bitmap |-> bitmap, count |-> 1]
             s == Narrow(Narrow(Narrow(Narrow(start, 16), 8), 4), 2)
         IN  s.count - (IF 0 \in s.bitmap THEN 1 ELSE 0)

bitmap_leadingzeroes(bitmap) ==
    IF 0 \in bitmap
    THEN 0
    ELSE LET start == [bitmap |-> bitmap, count |-> 1]
             s == Narrow(Narrow(Narrow(Narrow(Narrow(start, 32), 16), 8), 4), 2)
         IN  s.count - (IF 0 \in s.bitmap THEN 1 ELSE 0)

(***************************************************************************)
(* queue_put and queue_get on queue k of the queues qs.                    *)
(***************************************************************************)

\* Mutant: queue_put_front for queue_put.
PutsFront(qs, k, t) == [qs EXCEPT ![k] = <<t>> \o @]

Enqueue(qs, k, t) == [qs EXCEPT ![k] = Append(@, t)]

\* Mutant: queue_peek for queue_get.
Peek(qs, k) == qs

Dequeue(qs, k) == [qs EXCEPT ![k] = Tail(@)]

(***************************************************************************)
(* scheduler_put and scheduler_get, split into what they do to each field. *)
(***************************************************************************)

scheduler_empty(bitmap) == bitmap = {}

\* Mutant: `=` for `|=`, the other bits are lost.
AssignsBit(bitmap, p) == {p}

\* scheduler_put: the task's ready node is put in the queue of its priority, and
\* the bit of that priority is set.
PutBit(bitmap, p) == bitmap \cup {p}

\* scheduler_get: the task returned is the front of the queue at the lowest bit,
NextReady(bitmap, qs) == Head(qs[bitmap_leadingzeroes(bitmap)])

\* which is unlinked from that queue,
GetReady(bitmap, qs) == Dequeue(qs, bitmap_leadingzeroes(bitmap))

\* Mutant: the bit is cleared although the queue still holds a task.
ClearsAlways(bitmap, qs) == bitmap \ {bitmap_leadingzeroes(bitmap)}

\* Mutant: the bit stays set for the empty queue.
NeverClears(bitmap, qs) == bitmap

\* and whose bit is cleared if that leaves it empty.
GetBit(bitmap, qs) ==
    LET idx == bitmap_leadingzeroes(bitmap)
    IN  IF Len(qs[idx]) = 1 THEN bitmap \ {idx} ELSE bitmap
=============================================================================
