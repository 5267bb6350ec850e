------------------------------ MODULE Scheduler ------------------------------
(***************************************************************************)
(* The scheduler of src/scheduler/scheduler.c on its own: any caller may   *)
(* put a task that is not in a ready queue and get the next one to run.    *)
(***************************************************************************)
EXTENDS SchedulerOps

CONSTANTS Tasks,       \* the task descriptors
          Priority,    \* td->priority of each
          NoTask       \* NULL

ASSUME SchedulerAssumption ==
    /\ Priority \in [Tasks -> 0 .. WordSize - 1]
    /\ NoTask \notin Tasks

VARIABLES bitmap,        \* sch->bitmap
          priority_qs,   \* sch->priority_qs
          got            \* the task the last scheduler_get returned

vars == <<bitmap, priority_qs, got>>

Levels == 0 .. WordSize - 1

InQueue(t) == \E p \in Levels : \E i \in DOMAIN priority_qs[p] : priority_qs[p][i] = t

scheduler_init ==
    /\ bitmap = {}
    /\ priority_qs = [p \in Levels |-> <<>>]
    /\ got = NoTask

\* The caller's obligation, which Kernel shows it meets: t is in no ready queue.
scheduler_put(t) ==
    /\ ~InQueue(t)
    /\ bitmap' = PutBit(bitmap, Priority[t])
    /\ priority_qs' = Enqueue(priority_qs, Priority[t], t)
    /\ UNCHANGED got

scheduler_get ==
    IF scheduler_empty(bitmap)
    THEN /\ got' = NoTask
         /\ UNCHANGED <<bitmap, priority_qs>>
    ELSE /\ got' = NextReady(bitmap, priority_qs)
         /\ priority_qs' = GetReady(bitmap, priority_qs)
         /\ bitmap' = GetBit(bitmap, priority_qs)

Next == scheduler_get \/ \E t \in Tasks : scheduler_put(t)

Spec == scheduler_init /\ [][Next]_vars

-----------------------------------------------------------------------------
\* The scheduler's fields have their types.
TypeOK ==
    /\ bitmap \subseteq Levels
    /\ priority_qs \in [Levels -> Seq(Tasks)]
    /\ got \in Tasks \cup {NoTask}

\* The bitmap scheduler_get searches agrees with the queues it then reads: a bit
\* set for an empty queue would return NULL data, a bit clear for an occupied
\* queue would strand its tasks.
BitmapExact == \A p \in Levels : p \in bitmap <=> priority_qs[p] # <<>>

\* The scheduler with its bitmap and its binary search behaves like the priority
\* queue the kernel relies on (scheduler.h: "returns the highest priority TD that
\* is ready to run or NULL if all ready queues are empty").
Abstract == INSTANCE PriorityFIFO WITH qs <- priority_qs

ImplementsPriorityFIFO == Abstract!Spec
=============================================================================
