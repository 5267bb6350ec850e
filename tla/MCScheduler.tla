----------------------------- MODULE MCScheduler -----------------------------
(***************************************************************************)
(* Seven tasks at the priorities where the binary search of                *)
(* bitmap_leadingzeroes changes course: both ends, both sides of each      *)
(* halving, and one priority with two tasks.                               *)
(***************************************************************************)
EXTENDS Scheduler, TLC

CONSTANTS t0, t1, t2, t3, t4, t5, t6

MCTasks == {t0, t1, t2, t3, t4, t5, t6}

MCPriority == (t0 :> 0) @@ (t1 :> 1) @@ (t2 :> 6) @@ (t3 :> 31)
                @@ (t4 :> 32) @@ (t5 :> 63) @@ (t6 :> 63)
=============================================================================
