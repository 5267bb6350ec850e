---------------------------- MODULE KernelProofs ----------------------------
(***************************************************************************)
(* Invariants of the kernel proved for every number of tasks and           *)
(* priorities, every message size and every set of calls the tasks make.   *)
(***************************************************************************)
EXTENDS Kernel, SchedulerLemmas

-----------------------------------------------------------------------------
(***************************************************************************)
(* Types.                                                                  *)
(***************************************************************************)

\* A bit of the bitmap is set only for a queue that holds a task.
BitmapSound == \A p \in bitmap : priority_qs[p] # <<>>

\* There is an active task exactly while one runs or is interrupted.
ActiveAtPc ==
    /\ kpc \in {"user", "event"} => active # NoTask
    /\ kpc = "dispatch" => active = NoTask

\* TypeOK alone is not inductive: scheduler_get returns a task only if the queue
\* at the lowest bit is not empty.
TypeInv == TypeOK /\ BitmapSound /\ ActiveAtPc

\* What scheduler_put leaves of the scheduler's fields.
LEMMA PutTyped ==
    ASSUME NEW bm \in SUBSET Priorities, NEW qs \in [Priorities -> Seq(Tids)],
           \A p \in bm : qs[p] # <<>>,
           NEW pr \in Priorities, NEW t \in Tids
    PROVE  /\ PutBit(bm, pr) \in SUBSET Priorities
           /\ Enqueue(qs, pr, t) \in [Priorities -> Seq(Tids)]
           /\ \A p \in PutBit(bm, pr) : Enqueue(qs, pr, t)[p] # <<>>
<1>1. Append(qs[pr], t) \in Seq(Tids) /\ Append(qs[pr], t) # <<>>
  BY AppendProperties
<1> QED BY <1>1 DEF PutBit, Enqueue

\* The initial state is well typed.
LEMMA TypeInit == Init => TypeInv
<1> SUFFICES ASSUME Init PROVE TypeInv
  OBVIOUS
<1>1. 0 \in Tids /\ 1 \in Tids /\ UserPriority \in Priorities /\ IdlePriority \in Priorities
  BY KernelAssumption DEF Tids, Priorities, WordSize
<1> DEFINE q0 == [p \in Priorities |-> <<>>]
<1>2. q0 \in [Priorities -> Seq(Tids)]
  BY EmptySeq
<1>3. /\ PutBit({}, UserPriority) \in SUBSET Priorities
      /\ Enqueue(q0, UserPriority, 0) \in [Priorities -> Seq(Tids)]
      /\ \A p \in PutBit({}, UserPriority) : Enqueue(q0, UserPriority, 0)[p] # <<>>
  <2> HIDE DEF q0
  <2> QED BY <1>1, <1>2, PutTyped
<1>4. /\ bitmap \in SUBSET Priorities
      /\ priority_qs \in [Priorities -> Seq(Tids)]
      /\ \A p \in bitmap : priority_qs[p] # <<>>
  BY <1>1, <1>3, PutTyped DEF Init, IDLE_TASK_TID
<1>5. send_q \in [Tids -> Seq(Tids)] /\ await_qs \in [Events -> Seq(Tids)]
  BY EmptySeq DEF Init
<1>6. priority \in [Tids -> Priorities]
  BY <1>1, KernelAssumption DEF Init, FirstPriority, Priorities
<1>7. /\ tid \in [Tids -> Tids] /\ parent \in [Tids -> Tids \cup {NoTask}]
      /\ next_free_td \in 2 .. MaxTasks
      /\ state \in [Tids -> TaskStates]
  BY <1>1, KernelAssumption DEF Init, IDLE_TASK_TID, TaskStates
<1>8. /\ ret \in [Tids -> Int] /\ msg_len \in [Tids -> Nat] /\ rep_len \in [Tids -> Nat]
      /\ enabled \subseteq UartEvents \cup UnhandledSources
      /\ active = NoTask /\ kpc = "dispatch"
      /\ event \in Events \cup {NoEvent} /\ retVal \in Nat
  BY KernelAssumption DEF Init
<1>9. /\ is_exit \in BOOLEAN /\ idle_done \in BOOLEAN
      /\ owed \in [Tids -> SUBSET Tids] /\ lost \subseteq Tids /\ panicked \in BOOLEAN
      /\ receiving \in [Tids -> BOOLEAN]
  BY Zenon DEF Init
<1> QED BY <1>4, <1>5, <1>6, <1>7, <1>8, <1>9 DEF TypeInv, TypeOK, BitmapSound, ActiveAtPc

\* The part of TypeInv that scheduler_put and scheduler_get can disturb ...
SchedTyped ==
    /\ bitmap \subseteq Priorities
    /\ priority_qs \in [Priorities -> Seq(Tids)]
    /\ state \in [Tids -> TaskStates]
    /\ BitmapSound

\* ... and the rest of it, but for the fields no handler changes together.
TdTyped ==
    /\ next_free_td \in 2 .. MaxTasks
    /\ tid \in [Tids -> Tids]
    /\ priority \in [Tids -> Priorities]
    /\ parent \in [Tids -> Tids \cup {NoTask}]

MsgTyped ==
    /\ send_q \in [Tids -> Seq(Tids)]
    /\ msg_len \in [Tids -> Nat] /\ rep_len \in [Tids -> Nat]

IrqTyped ==
    /\ await_qs \in [Events -> Seq(Tids)]
    /\ enabled \subseteq UartEvents \cup UnhandledSources
    /\ event \in Events \cup {NoEvent} /\ retVal \in Nat

IdleTyped == is_exit \in BOOLEAN /\ idle_done \in BOOLEAN

HistoryTyped == owed \in [Tids -> SUBSET Tids] /\ lost \subseteq Tids /\ panicked \in BOOLEAN

PcTyped ==
    /\ active \in Tids \cup {NoTask}
    /\ kpc \in {"dispatch", "user", "event", "halted"}
    /\ ActiveAtPc

\* TypeInv is the conjunction of these parts.
LEMMA TypeInvParts ==
    TypeInv <=> /\ SchedTyped /\ TdTyped /\ MsgTyped /\ IrqTyped /\ IdleTyped /\ HistoryTyped
                /\ PcTyped /\ ret \in [Tids -> Int] /\ receiving \in [Tids -> BOOLEAN]
  BY DEF TypeInv, TypeOK, SchedTyped, TdTyped, MsgTyped, IrqTyped, IdleTyped, HistoryTyped, PcTyped

\* The same after a step.
LEMMA TypeInvNext ==
    /\ SchedTyped' /\ TdTyped' /\ MsgTyped' /\ IrqTyped' /\ IdleTyped' /\ HistoryTyped'
    /\ PcTyped' /\ ret' \in [Tids -> Int] /\ receiving' \in [Tids -> BOOLEAN]
    => TypeInv'
  BY DEF TypeInv, TypeOK, SchedTyped, TdTyped, MsgTyped, IrqTyped, IdleTyped, HistoryTyped, PcTyped

\* The active task of a system call or an interrupt is a task.
LEMMA ActiveIsTask ==
    ASSUME TypeInv, kpc \in {"user", "event"}
    PROVE  active \in Tids /\ priority[active] \in Priorities
  BY DEF TypeInv, TypeOK, ActiveAtPc

\* scheduler_put keeps the scheduler typed.
LEMMA PutKeepsSched ==
    ASSUME TypeInv, NEW t \in Tids, scheduler_put(t)
    PROVE  SchedTyped'
<1>1. priority[t] \in Priorities
  BY DEF TypeInv, TypeOK
<1>2. /\ bitmap \in SUBSET Priorities /\ priority_qs \in [Priorities -> Seq(Tids)]
      /\ \A p \in bitmap : priority_qs[p] # <<>>
  BY DEF TypeInv, TypeOK, BitmapSound
<1>3. bitmap' \in SUBSET Priorities /\ priority_qs' \in [Priorities -> Seq(Tids)] /\ BitmapSound'
  BY <1>1, <1>2, PutTyped DEF scheduler_put, BitmapSound
<1>4. state' \in [Tids -> TaskStates]
  BY DEF TypeInv, TypeOK, scheduler_put, TaskStates
<1> QED BY <1>3, <1>4 DEF SchedTyped

\* So do two of them.
LEMMA PutTwoKeepsSched ==
    ASSUME TypeInv, NEW t \in Tids, NEW pt \in Priorities, active \in Tids, PutThenActive(t, pt)
    PROVE  SchedTyped'
<1>1. priority[active] \in Priorities
  BY DEF TypeInv, TypeOK
<1>2. /\ bitmap \in SUBSET Priorities /\ priority_qs \in [Priorities -> Seq(Tids)]
      /\ \A p \in bitmap : priority_qs[p] # <<>>
  BY DEF TypeInv, TypeOK, BitmapSound
<1>3. /\ PutBit(bitmap, pt) \in SUBSET Priorities
      /\ Enqueue(priority_qs, pt, t) \in [Priorities -> Seq(Tids)]
      /\ \A p \in PutBit(bitmap, pt) : Enqueue(priority_qs, pt, t)[p] # <<>>
  BY <1>2, PutTyped
<1>4. bitmap' \in SUBSET Priorities /\ priority_qs' \in [Priorities -> Seq(Tids)] /\ BitmapSound'
  BY <1>1, <1>3, PutTyped DEF PutThenActive, BitmapSound
<1>5. state' \in [Tids -> TaskStates]
  BY DEF TypeInv, TypeOK, PutThenActive, TaskStates
<1> QED BY <1>4, <1>5 DEF SchedTyped

\* What every system call starts with.
LEMMA SyscallTyped ==
    ASSUME TypeInv, NEW c, Syscall(c)
    PROVE  active \in Tids /\ receiving' \in [Tids -> BOOLEAN]
<1>1. active \in Tids
  BY ActiveIsTask DEF Syscall
<1>2. receiving \in [Tids -> BOOLEAN] /\ (c = "Receive") \in BOOLEAN
  BY DEF TypeInv, TypeOK
<1>3. receiving' = [receiving EXCEPT ![active] = (c = "Receive")]
  BY DEF Syscall
<1> QED BY <1>1, <1>2, <1>3, Zenon

\* scheduler_get takes a task from the best queue that holds one.
LEMMA GetTyped ==
    ASSUME TypeInv, Dispatch
    PROVE  SchedTyped' /\ active' \in Tids
<1> DEFINE idx == bitmap_leadingzeroes(bitmap)
<1>1. bitmap \in SUBSET (0 .. WordSize - 1) /\ bitmap # {}
  BY KernelAssumption DEF TypeInv, TypeOK, Priorities, WordSize, Dispatch, scheduler_empty
<1>2. idx \in bitmap
  BY <1>1, LowestBit
<1>3. /\ active' = Head(priority_qs[idx])
      /\ priority_qs' = [priority_qs EXCEPT ![idx] = Tail(@)]
      /\ bitmap' = IF Len(priority_qs[idx]) = 1 THEN bitmap \ {idx} ELSE bitmap
      /\ state' = state
  BY DEF Dispatch, NextReady, GetReady, Dequeue, GetBit
<1> HIDE DEF idx
<1>4. idx \in Priorities /\ priority_qs[idx] \in Seq(Tids) /\ priority_qs[idx] # <<>>
  BY <1>2 DEF TypeInv, TypeOK, BitmapSound
<1>5. /\ Head(priority_qs[idx]) \in Tids /\ Tail(priority_qs[idx]) \in Seq(Tids)
      /\ Len(priority_qs[idx]) # 1 => Tail(priority_qs[idx]) # <<>>
  BY <1>4, HeadTailProperties, TailEmpty
<1>6. bitmap' \subseteq Priorities /\ priority_qs' \in [Priorities -> Seq(Tids)] /\ state' \in [Tids -> TaskStates]
  BY <1>3, <1>4, <1>5 DEF TypeInv, TypeOK
<1>7. BitmapSound'
  BY <1>3, <1>4, <1>5 DEF TypeInv, TypeOK, BitmapSound
<1> QED BY <1>3, <1>5, <1>6, <1>7 DEF SchedTyped

\* Calls that only put the caller back and store its return value.
LEMMA ReturnsNowTyped ==
    ASSUME TypeInv, active \in Tids, NEW r \in Int, ReturnsNow(r)
    PROVE  SchedTyped' /\ ret' \in [Tids -> Int]
<1>1. SchedTyped'
  BY PutKeepsSched DEF ReturnsNow
<1>2. ret' \in [Tids -> Int]
  BY DEF ReturnsNow, TypeInv, TypeOK
<1> QED BY <1>1, <1>2

\* Calls that block the caller.
LEMMA BlocksCallerTyped ==
    ASSUME TypeInv, active \in Tids, NEW s \in TaskStates, BlocksCaller(s)
    PROVE  SchedTyped' /\ ret' \in [Tids -> Int]
  BY DEF BlocksCaller, SchedTyped, BitmapSound, TypeInv, TypeOK, schVars

\* The parts that a step leaves unchanged stay typed.
LEMMA PartsUnchanged ==
    /\ TdTyped /\ UNCHANGED tdVars => TdTyped'
    /\ MsgTyped /\ UNCHANGED msgVars => MsgTyped'
    /\ IrqTyped /\ UNCHANGED irqVars => IrqTyped'
    /\ IdleTyped /\ UNCHANGED idleVars => IdleTyped'
    /\ HistoryTyped /\ UNCHANGED history => HistoryTyped'
  BY DEF TdTyped, MsgTyped, IrqTyped, IdleTyped, HistoryTyped, tdVars, msgVars, irqVars, idleVars, history

\* The kernel goes on to pick a task.
LEMMA ToDispatchTyped == ToDispatch => PcTyped'
  BY DEF ToDispatch, PcTyped, ActiveAtPc

\* Every system call keeps TypeInv.
LEMMA TypeCall == TypeInv /\ Call => TypeInv'
<1> SUFFICES ASSUME TypeInv, Call PROVE TypeInv'
  OBVIOUS
<1>0. /\ SchedTyped /\ TdTyped /\ MsgTyped /\ IrqTyped /\ IdleTyped /\ HistoryTyped
      /\ PcTyped /\ ret \in [Tids -> Int]
  BY TypeInvParts
<1>a. active \in Tids /\ receiving' \in [Tids -> BOOLEAN]
  BY SyscallTyped DEF Call, kernel_pass, kernel_mytid, kernel_parenttid, kernel_create, kernel_send,
     kernel_receive, kernel_reply, kernel_await_event, kernel_exit, Quit, kernel_panic
<1>1. CASE kernel_pass
  <2>1. SchedTyped' /\ ret' \in [Tids -> Int]
    BY <1>1, <1>a, ReturnsNowTyped DEF kernel_pass
  <2> QED BY <1>0, <1>a, <1>1, <2>1, PartsUnchanged, ToDispatchTyped, TypeInvNext DEF kernel_pass
<1>2. CASE kernel_mytid
  <2>0. tid[active] \in Int
    BY <1>0, <1>a DEF TdTyped, Tids
  <2>1. SchedTyped' /\ ret' \in [Tids -> Int]
    BY <1>2, <1>a, <2>0, ReturnsNowTyped DEF kernel_mytid
  <2> QED BY <1>0, <1>a, <1>2, <2>1, PartsUnchanged, ToDispatchTyped, TypeInvNext DEF kernel_mytid
<1>3. CASE kernel_parenttid
  <2>0. (IF parent[active] = NoTask THEN -1 ELSE tid[parent[active]]) \in Int
    BY <1>0, <1>a DEF TdTyped, Tids
  <2>1. SchedTyped' /\ ret' \in [Tids -> Int]
    BY <1>3, <1>a, <2>0, ReturnsNowTyped DEF kernel_parenttid
  <2> QED BY <1>0, <1>a, <1>3, <2>1, PartsUnchanged, ToDispatchTyped, TypeInvNext DEF kernel_parenttid
<1>4. ASSUME NEW p \in CreatePriorities, kernel_create(p) PROVE TypeInv'
  <2>1. CASE CreateFails(p)
    <3>1. SchedTyped' /\ TdTyped' /\ MsgTyped' /\ HistoryTyped' /\ ret' \in [Tids -> Int]
      BY <1>0, <1>a, <2>1 DEF CreateFails, SchedTyped, BitmapSound, TdTyped, MsgTyped, HistoryTyped,
         schVars, tdVars, msgVars
    <3> QED BY <1>0, <1>a, <1>4, <3>1, PartsUnchanged, ToDispatchTyped, TypeInvNext DEF kernel_create
  <2>2. CASE CreateSucceeds(p)
    <3>1. next_free_td \in Tids /\ next_free_td + 1 \in 2 .. MaxTasks /\ p \in Priorities
      BY <1>0, <2>2, KernelAssumption DEF CreateSucceeds, TableFull, TdTyped, Tids
    <3>2. SchedTyped'
      BY <1>a, <2>2, <3>1, PutTwoKeepsSched DEF CreateSucceeds
    <3>3. TdTyped'
      BY <1>0, <1>a, <2>2, <3>1 DEF CreateSucceeds, TdTyped
    <3>4. MsgTyped'
      BY <1>0, <2>2, <3>1, EmptySeq DEF CreateSucceeds, MsgTyped
    <3>5. ret' \in [Tids -> Int]
      BY <1>0, <1>a, <2>2, <3>1 DEF CreateSucceeds, Tids
    <3>6. HistoryTyped'
      BY <1>0, <2>2, PartsUnchanged DEF CreateSucceeds
    <3> QED BY <1>0, <1>a, <1>4, <3>2, <3>3, <3>4, <3>5, <3>6, PartsUnchanged, ToDispatchTyped, TypeInvNext
            DEF kernel_create
  <2> QED BY <1>4, <2>1, <2>2 DEF kernel_create
<1>5. ASSUME NEW to \in Tids, NEW len \in Lens, NEW rlen \in Lens, kernel_send(to, len, rlen) PROVE TypeInv'
  <2>0. len \in Nat /\ rlen \in Nat
    BY KernelAssumption
  <2>a. TdTyped' /\ IrqTyped' /\ IdleTyped' /\ PcTyped'
    BY <1>0, <1>5, PartsUnchanged, ToDispatchTyped DEF kernel_send
  <2>b. lost' = lost /\ panicked' = panicked
    BY <1>5 DEF kernel_send
  <2>1. CASE SendRejected(to, len)
    <3>1. SchedTyped' /\ ret' \in [Tids -> Int]
      BY <1>a, <2>1, ReturnsNowTyped DEF SendRejected
    <3>2. MsgTyped' /\ HistoryTyped'
      BY <1>0, <2>1, <2>b DEF SendRejected, MsgTyped, HistoryTyped, msgVars
    <3> QED BY <1>a, <2>a, <3>1, <3>2, TypeInvNext
  <2>2. CASE SendDelivers(to, len, rlen)
    <3>1. priority[to] \in Priorities /\ tid[active] \in Int
      BY <1>0, <1>a DEF TdTyped, Tids
    <3>2. bitmap' \subseteq Priorities /\ priority_qs' \in [Priorities -> Seq(Tids)] /\ BitmapSound'
      BY <1>0, <2>2, <3>1, PutTyped DEF SendDelivers, SendReadies, SchedTyped, BitmapSound
    <3>3. state' \in [Tids -> TaskStates]
      BY <1>0, <1>a, <2>2 DEF SendDelivers, SchedTyped, TaskStates
    <3>4. ret' \in [Tids -> Int]
      BY <1>0, <1>a, <2>2, <3>1 DEF SendDelivers, SendReturns
    <3>5. MsgTyped'
      BY <1>0, <1>a, <2>0, <2>2 DEF SendDelivers, MsgTyped
    <3>6. HistoryTyped'
      BY <1>0, <1>a, <2>2, <2>b DEF SendDelivers, HistoryTyped
    <3> QED BY <1>a, <2>a, <3>2, <3>3, <3>4, <3>5, <3>6, TypeInvNext DEF SchedTyped
  <2>3. CASE SendQueues(to, len, rlen)
    <3>1. SchedTyped' /\ ret' \in [Tids -> Int]
      BY <1>a, <2>3, BlocksCallerTyped DEF SendQueues, TaskStates
    <3>2. Append(send_q[to], active) \in Seq(Tids)
      BY <1>0, <1>a, AppendProperties DEF MsgTyped
    <3>3. MsgTyped'
      BY <1>0, <1>a, <2>0, <2>3, <3>2 DEF SendQueues, Enqueue, MsgTyped
    <3>4. HistoryTyped'
      BY <1>0, <2>3, <2>b DEF SendQueues, HistoryTyped
    <3> QED BY <1>a, <2>a, <3>1, <3>3, <3>4, TypeInvNext
  <2> QED BY <1>5, <2>1, <2>2, <2>3 DEF kernel_send
<1>6. ASSUME NEW len \in Lens, kernel_receive(len) PROVE TypeInv'
  <2>0. len \in Nat
    BY KernelAssumption
  <2>a. TdTyped' /\ IrqTyped' /\ IdleTyped' /\ PcTyped'
    BY <1>0, <1>6, PartsUnchanged, ToDispatchTyped DEF kernel_receive
  <2>b. rep_len' = rep_len /\ panicked' = panicked
    BY <1>6 DEF kernel_receive
  <2>1. CASE ReceiveTakes(len)
    <3> DEFINE sender == Head(send_q[active])
    <3>1. priority[active] \in Priorities /\ sender \in Tids /\ Tail(send_q[active]) \in Seq(Tids)
      BY <1>0, <1>a, <2>1, HeadTailProperties DEF TdTyped, MsgTyped, ReceiveTakes
    <3>2. tid[sender] \in Int
      BY <1>0, <3>1 DEF TdTyped, Tids
    <3> HIDE DEF sender
    <3>e. /\ bitmap' = PutBit(bitmap, priority[active])
          /\ priority_qs' = Enqueue(priority_qs, priority[active], active)
          /\ owed' = owed \/ owed' = [owed EXCEPT ![active] = @ \cup {sender}]
          /\ lost' = lost \/ lost' = lost \cup {sender}
      BY <2>1 DEF ReceiveTakes, sender
    <3>3. bitmap' \subseteq Priorities /\ priority_qs' \in [Priorities -> Seq(Tids)] /\ BitmapSound'
      <4>1. /\ bitmap \in SUBSET Priorities /\ priority_qs \in [Priorities -> Seq(Tids)]
            /\ \A p \in bitmap : priority_qs[p] # <<>>
        BY <1>0 DEF SchedTyped, BitmapSound
      <4>2. /\ bitmap' \in SUBSET Priorities /\ priority_qs' \in [Priorities -> Seq(Tids)]
            /\ \A p \in bitmap' : priority_qs'[p] # <<>>
        BY <1>a, <3>1, <3>e, <4>1, PutTyped
      <4> QED BY <4>2 DEF BitmapSound
    <3>4. state' \in [Tids -> TaskStates]
      BY <1>0, <1>a, <2>1, <3>1 DEF ReceiveTakes, TakenState, SchedTyped, TaskStates, sender
    <3>5. ret' \in [Tids -> Int]
      BY <1>0, <1>a, <2>1, <3>1, <3>2 DEF ReceiveTakes, sender
    <3>6. MsgTyped'
      BY <1>0, <1>a, <2>1, <2>b, <3>1 DEF ReceiveTakes, MsgTyped, Dequeue
    <3>7. HistoryTyped'
      BY <1>0, <1>a, <2>b, <3>1, <3>e DEF HistoryTyped
    <3> QED BY <1>a, <2>a, <3>3, <3>4, <3>5, <3>6, <3>7, TypeInvNext DEF SchedTyped
  <2>2. CASE ReceiveBlocks(len)
    <3>1. SchedTyped' /\ ret' \in [Tids -> Int]
      BY <1>a, <2>2, BlocksCallerTyped DEF ReceiveBlocks, TaskStates
    <3>2. MsgTyped' /\ HistoryTyped'
      BY <1>0, <1>a, <2>0, <2>2, <2>b DEF ReceiveBlocks, MsgTyped, HistoryTyped
    <3> QED BY <1>a, <2>a, <3>1, <3>2, TypeInvNext
  <2> QED BY <1>6, <2>1, <2>2 DEF kernel_receive
<1>7. ASSUME NEW to \in Tids, NEW rlen \in Lens, kernel_reply(to, rlen) PROVE TypeInv'
  <2>a. TdTyped' /\ MsgTyped' /\ IrqTyped' /\ IdleTyped' /\ PcTyped'
    BY <1>0, <1>7, PartsUnchanged, ToDispatchTyped DEF kernel_reply
  <2>b. lost' = lost /\ panicked' = panicked
    BY <1>7 DEF kernel_reply
  <2>1. CASE ReplyRejected(to, rlen)
    <3>1. SchedTyped' /\ ret' \in [Tids -> Int]
      BY <1>a, <2>1, ReturnsNowTyped DEF ReplyRejected
    <3>2. HistoryTyped'
      BY <1>0, <2>1, <2>b DEF ReplyRejected, HistoryTyped
    <3> QED BY <1>a, <2>a, <3>1, <3>2, TypeInvNext
  <2>2. CASE ReplyWakes(to, rlen)
    <3>1. SchedTyped'
      BY <1>0, <1>a, <2>2, PutTwoKeepsSched DEF ReplyWakes, TdTyped
    <3>2. ret' \in [Tids -> Int]
      BY <1>0, <1>a, <2>2 DEF ReplyWakes
    <3>3. HistoryTyped'
      BY <1>0, <1>a, <2>2, <2>b DEF ReplyWakes, HistoryTyped
    <3> QED BY <1>a, <2>a, <3>1, <3>2, <3>3, TypeInvNext
  <2> QED BY <1>7, <2>1, <2>2 DEF kernel_reply
<1>8. ASSUME NEW e \in AwaitedEvents, kernel_await_event(e) PROVE TypeInv'
  <2>a. TdTyped' /\ MsgTyped' /\ IdleTyped' /\ HistoryTyped' /\ PcTyped'
    BY <1>0, <1>8, PartsUnchanged, ToDispatchTyped DEF kernel_await_event
  <2>b. event' = event /\ retVal' = retVal
    BY <1>8 DEF kernel_await_event
  <2>1. CASE AwaitRejected(e)
    <3>1. SchedTyped' /\ ret' \in [Tids -> Int]
      BY <1>a, <2>1, ReturnsNowTyped DEF AwaitRejected
    <3>2. IrqTyped'
      BY <1>0, <2>1, <2>b DEF AwaitRejected, IrqTyped
    <3> QED BY <1>a, <2>a, <3>1, <3>2, TypeInvNext
  <2>2. CASE AwaitQueues(e)
    <3>1. SchedTyped' /\ ret' \in [Tids -> Int]
      BY <1>a, <2>2, BlocksCallerTyped DEF AwaitQueues, TaskStates
    <3>2. Append(await_qs[e], active) \in Seq(Tids)
      BY <1>0, <1>a, <2>2, AppendProperties DEF IrqTyped, AwaitQueues
    <3>3. IrqTyped'
      BY <1>0, <2>2, <2>b, <3>2 DEF AwaitQueues, Enqueue, IrqTyped, Arms
    <3> QED BY <1>a, <2>a, <3>1, <3>3, TypeInvNext
  <2> QED BY <1>8, <2>1, <2>2 DEF kernel_await_event
<1>9. CASE kernel_exit
  <2>1. SchedTyped' /\ PcTyped' /\ ret' \in [Tids -> Int]
    BY <1>0, <1>a, <1>9 DEF kernel_exit, ExitActive, SchedTyped, BitmapSound, PcTyped, ActiveAtPc, TaskStates, schVars
  <2> QED BY <1>0, <1>a, <1>9, <2>1, PartsUnchanged, TypeInvNext DEF kernel_exit, ExitActive
<1>10. CASE Quit
  <2>1. SchedTyped' /\ PcTyped' /\ ret' \in [Tids -> Int]
    BY <1>0, <1>a, <1>10 DEF Quit, SchedTyped, BitmapSound, PcTyped, ActiveAtPc, schVars
  <2> QED BY <1>0, <1>a, <1>10, <2>1, PartsUnchanged, TypeInvNext DEF Quit
<1>11. CASE kernel_panic
  <2>1. SchedTyped' /\ ret' \in [Tids -> Int]
    BY <1>0, <1>a, <1>11 DEF kernel_panic, ForgetReadyTasks, SchedTyped, BitmapSound
  <2>2. HistoryTyped'
    BY <1>0, <1>11 DEF kernel_panic, HistoryTyped
  <2> QED BY <1>0, <1>a, <1>11, <2>1, <2>2, PartsUnchanged, ToDispatchTyped, TypeInvNext DEF kernel_panic
<1> QED BY <1>1, <1>2, <1>3, <1>4, <1>5, <1>6, <1>7, <1>8, <1>9, <1>10, <1>11 DEF Call

\* Every interrupt keeps TypeInv.
LEMMA TypeInterrupt == TypeInv /\ Interrupt => TypeInv'
<1> SUFFICES ASSUME TypeInv, Interrupt PROVE TypeInv'
  OBVIOUS
<1>0. /\ SchedTyped /\ TdTyped /\ MsgTyped /\ IrqTyped /\ IdleTyped /\ HistoryTyped
      /\ PcTyped /\ ret \in [Tids -> Int] /\ receiving \in [Tids -> BOOLEAN]
  BY TypeInvParts
<1>1. ASSUME NEW e \in Events \cup {NoEvent}, NEW val \in Nat, TakeInterrupt(e, val),
             bitmap' = bitmap \/ bitmap' = {}, enabled' \subseteq enabled,
             panicked' \in BOOLEAN
      PROVE  TypeInv'
  <2>1. TdTyped' /\ MsgTyped' /\ IdleTyped'
    BY <1>0, <1>1, PartsUnchanged DEF TakeInterrupt
  <2>2. SchedTyped'
    BY <1>0, <1>1 DEF TakeInterrupt, SchedTyped, BitmapSound
  <2>3. IrqTyped'
    BY <1>0, <1>1 DEF TakeInterrupt, IrqTyped
  <2>4. HistoryTyped'
    BY <1>0, <1>1 DEF TakeInterrupt, HistoryTyped
  <2>5. PcTyped'
    BY <1>0, <1>1 DEF TakeInterrupt, PcTyped, ActiveAtPc
  <2>6. ret' \in [Tids -> Int] /\ receiving' \in [Tids -> BOOLEAN]
    BY <1>0, <1>1 DEF TakeInterrupt
  <2> QED BY <2>1, <2>2, <2>3, <2>4, <2>5, <2>6, TypeInvNext
<1>2. panicked \in BOOLEAN /\ TRUE \in BOOLEAN
  BY <1>0 DEF HistoryTyped
<1>3. CASE TimerInterrupt
  BY <1>1, <1>2, <1>3 DEF TimerInterrupt, Events
<1>4. ASSUME NEW e \in UartEvents, NEW val \in Bytes, ReceiveInterrupt(e, val) PROVE TypeInv'
  BY <1>1, <1>2, <1>4, KernelAssumption DEF ReceiveInterrupt, Events
<1>5. ASSUME NEW val \in Bytes, ModemInterrupt(val) PROVE TypeInv'
  BY <1>1, <1>2, <1>5, KernelAssumption DEF ModemInterrupt, Events, UartEvents, Disable
<1>6. ASSUME NEW e \in UartEvents, TransmitInterrupt(e) PROVE TypeInv'
  BY <1>1, <1>2, <1>6 DEF TransmitInterrupt, Events, Disable
<1>7. ASSUME NEW s \in UnhandledSources, UnexpectedInterrupt(s) PROVE TypeInv'
  BY <1>1, <1>2, <1>7 DEF UnexpectedInterrupt, ForgetReadyTasks, Events
<1> QED BY <1>3, <1>4, <1>5, <1>6, <1>7 DEF Interrupt

\* Every step keeps TypeInv.
LEMMA TypeStep == TypeInv /\ [Next]_vars => TypeInv'
<1> SUFFICES ASSUME TypeInv, [Next]_vars PROVE TypeInv'
  OBVIOUS
<1>0. /\ SchedTyped /\ TdTyped /\ MsgTyped /\ IrqTyped /\ IdleTyped /\ HistoryTyped
      /\ PcTyped /\ ret \in [Tids -> Int] /\ receiving \in [Tids -> BOOLEAN]
  BY TypeInvParts
<1>1. CASE Dispatch
  <2>1. SchedTyped' /\ active' \in Tids
    BY <1>1, GetTyped
  <2>2. PcTyped'
    BY <1>1, <2>1 DEF Dispatch, PcTyped, ActiveAtPc, Tids, NoTask
  <2>3. IdleTyped'
    <3>1. is_exit' = event_handler_empty \/ is_exit' = is_exit
      BY <1>1 DEF Dispatch, update_idle_task
    <3>2. event_handler_empty \in BOOLEAN
      BY DEF event_handler_empty
    <3>3. idle_done' = idle_done
      BY <1>1 DEF Dispatch
    <3> QED BY <1>0, <3>1, <3>2, <3>3 DEF IdleTyped
  <2>4. ret' \in [Tids -> Int] /\ receiving' \in [Tids -> BOOLEAN]
    BY <1>0, <1>1 DEF Dispatch
  <2> QED BY <1>0, <1>1, <2>1, <2>2, <2>3, <2>4, PartsUnchanged, TypeInvNext DEF Dispatch
<1>2. CASE NoneReady
  <2>1. SchedTyped' /\ PcTyped' /\ ret' \in [Tids -> Int] /\ receiving' \in [Tids -> BOOLEAN]
    BY <1>0, <1>2 DEF NoneReady, SchedTyped, BitmapSound, PcTyped, ActiveAtPc, schVars
  <2> QED BY <1>0, <1>2, <2>1, PartsUnchanged, TypeInvNext DEF NoneReady
<1>3. CASE Call
  BY <1>3, TypeCall
<1>4. CASE IdleLeavesLoop
  <2>1. SchedTyped' /\ PcTyped' /\ ret' \in [Tids -> Int] /\ receiving' \in [Tids -> BOOLEAN]
    BY <1>0, <1>4 DEF IdleLeavesLoop, SchedTyped, BitmapSound, PcTyped, ActiveAtPc, schVars
  <2>2. IdleTyped'
    BY <1>0, <1>4 DEF IdleLeavesLoop, IdleTyped
  <2> QED BY <1>0, <1>4, <2>1, <2>2, PartsUnchanged, TypeInvNext DEF IdleLeavesLoop
<1>5. CASE IdleExits
  <2>0. active \in Tids
    BY <1>5, ActiveIsTask DEF IdleExits
  <2>1. SchedTyped' /\ PcTyped' /\ ret' \in [Tids -> Int]
    BY <1>0, <1>5, <2>0 DEF IdleExits, ExitActive, SchedTyped, BitmapSound, PcTyped, ActiveAtPc, TaskStates, schVars
  <2>2. receiving' \in [Tids -> BOOLEAN]
    BY <1>0, <1>5 DEF IdleExits
  <2> QED BY <1>0, <1>5, <2>1, <2>2, PartsUnchanged, TypeInvNext DEF IdleExits, ExitActive
<1>6. CASE Interrupt
  BY <1>6, TypeInterrupt
<1>7. CASE EventWake
  <2> DEFINE t == Head(await_qs[event])
  <2>1. event \in Events /\ await_qs[event] \in Seq(Tids) /\ await_qs[event] # <<>>
    BY <1>0, <1>7 DEF EventWake, IrqTyped
  <2>2. t \in Tids /\ Tail(await_qs[event]) \in Seq(Tids)
    BY <2>1, HeadTailProperties
  <2>3. scheduler_put(t) /\ ret' = [ret EXCEPT ![t] = retVal] /\ await_qs' = [await_qs EXCEPT ![event] = Tail(@)]
    BY <1>7 DEF EventWake, Dequeue
  <2> HIDE DEF t
  <2>4. SchedTyped'
    BY <2>2, <2>3, PutKeepsSched
  <2>5. ret' \in [Tids -> Int]
    BY <1>0, <2>2, <2>3 DEF IrqTyped
  <2>6. IrqTyped'
    BY <1>0, <1>7, <2>1, <2>2, <2>3 DEF EventWake, IrqTyped
  <2>7. PcTyped' /\ receiving' \in [Tids -> BOOLEAN]
    BY <1>0, <1>7 DEF EventWake, PcTyped, ActiveAtPc
  <2> QED BY <1>0, <1>7, <2>4, <2>5, <2>6, <2>7, PartsUnchanged, TypeInvNext DEF EventWake
<1>8. CASE EventDone
  <2>0. active \in Tids
    BY <1>8, ActiveIsTask DEF EventDone
  <2>1. SchedTyped'
    BY <1>8, <2>0, PutKeepsSched DEF EventDone
  <2>2. IrqTyped' /\ ret' \in [Tids -> Int] /\ receiving' \in [Tids -> BOOLEAN]
    BY <1>0, <1>8 DEF EventDone, IrqTyped
  <2> QED BY <1>0, <1>8, <2>1, <2>2, PartsUnchanged, ToDispatchTyped, TypeInvNext DEF EventDone
<1>9. CASE UNCHANGED vars
  <2>1. SchedTyped' /\ PcTyped' /\ ret' \in [Tids -> Int] /\ receiving' \in [Tids -> BOOLEAN]
    BY <1>0, <1>9 DEF vars, SchedTyped, BitmapSound, PcTyped, ActiveAtPc, schVars
  <2> QED BY <1>0, <1>9, <2>1, PartsUnchanged, TypeInvNext DEF vars
<1> QED BY <1>1, <1>2, <1>3, <1>4, <1>5, <1>6, <1>7, <1>8, <1>9 DEF Next, Stopped

\* Every field keeps its type for ever, whatever the tasks call: in particular
\* scheduler_get never finds an empty queue where the bitmap has a bit, and
\* next_free_td never leaves the array of task descriptors.
THEOREM TypeCorrect == Spec => []TypeOK
<1>1. TypeInv => TypeOK
  BY DEF TypeInv
<1> QED BY <1>1, TypeInit, TypeStep, PTL DEF Spec

-----------------------------------------------------------------------------
(***************************************************************************)
(* Interrupt enable bits.                                                  *)
(***************************************************************************)

\* The interrupts that the handler disables.
SelfDisabling == {"UART1_TX", "UART1_MS", "UART2_TX"}

\* While the waiters of such an interrupt are being woken it is disabled: without
\* this, EnabledIsAwaited would be lost when the last of them leaves the queue.
Disarmed == kpc = "event" /\ event \in SelfDisabling => event \notin enabled

ArmedInv == EnabledWhileAwaited /\ Disarmed

\* The steps that wake or queue no waiter and take no interrupt.
LEMMA ArmedKept ==
    ASSUME ArmedInv, UNCHANGED <<await_qs, enabled>>, kpc # "event", kpc' # "event"
    PROVE  ArmedInv'
  BY DEF ArmedInv, EnabledWhileAwaited, AwaitedIsEnabled, EnabledIsAwaited, Disarmed

\* An interrupt: what it disables is what it hands to the event handler.
LEMMA ArmedTake ==
    ASSUME ArmedInv, NEW e, NEW val, TakeInterrupt(e, val),
           \/ enabled' = enabled /\ e \notin SelfDisabling
           \/ enabled' = enabled \ {e}
    PROVE  ArmedInv'
<1>1. kpc = "user" /\ kpc' = "event" /\ event' = e /\ await_qs' = await_qs
  BY DEF TakeInterrupt
<1>2. AwaitedIsEnabled'
  BY <1>1 DEF ArmedInv, EnabledWhileAwaited, AwaitedIsEnabled
<1>3. EnabledIsAwaited'
  BY <1>1 DEF ArmedInv, EnabledWhileAwaited, EnabledIsAwaited
<1>4. Disarmed'
  BY <1>1 DEF Disarmed
<1> QED BY <1>2, <1>3, <1>4 DEF ArmedInv, EnabledWhileAwaited

\* kernel_await_event enables the interrupt and fills the queue.
LEMMA ArmedAwait ==
    ASSUME TypeInv, ArmedInv, NEW e \in Events, AwaitQueues(e), active \in Tids, kpc = "user", kpc' = "dispatch"
    PROVE  ArmedInv'
<1>1. await_qs \in [Events -> Seq(Tids)]
  BY DEF TypeInv, TypeOK
<1>2. Append(await_qs[e], active) # <<>>
  BY <1>1, AppendProperties
<1>3. /\ await_qs'[e] # <<>> /\ \A d \in Events : d # e => await_qs'[d] = await_qs[d]
      /\ enabled' = enabled \cup Arms(e)
  BY <1>1, <1>2 DEF AwaitQueues, Enqueue
<1>4. AwaitedIsEnabled'
  BY <1>3 DEF ArmedInv, EnabledWhileAwaited, AwaitedIsEnabled, Arms, Events
<1>5. EnabledIsAwaited'
  BY <1>3 DEF ArmedInv, EnabledWhileAwaited, EnabledIsAwaited, Arms, Events, UartEvents
<1> QED BY <1>4, <1>5 DEF ArmedInv, EnabledWhileAwaited, Disarmed

\* A waiter leaves the queue of the event that is being handled.
LEMMA ArmedWake ==
    ASSUME TypeInv, ArmedInv, EventWake
    PROVE  ArmedInv'
<1>1. /\ await_qs \in [Events -> Seq(Tids)] /\ event \in Events /\ kpc = "event"
      /\ UNCHANGED <<enabled, event, kpc>> /\ await_qs' = Dequeue(await_qs, event)
  BY DEF TypeInv, TypeOK, EventWake
<1>2. \A d \in Events : d # event => await_qs'[d] = await_qs[d]
  BY <1>1 DEF Dequeue
<1>3. AwaitedIsEnabled'
  BY <1>1, <1>2 DEF ArmedInv, EnabledWhileAwaited, AwaitedIsEnabled, Events
<1>4. EnabledIsAwaited'
  BY <1>1, <1>2 DEF ArmedInv, EnabledWhileAwaited, EnabledIsAwaited, Disarmed, SelfDisabling, Events, UartEvents
<1>5. Disarmed'
  BY <1>1 DEF ArmedInv, Disarmed
<1> QED BY <1>3, <1>4, <1>5 DEF ArmedInv, EnabledWhileAwaited

\* The handler ends with the queue of its event empty.
LEMMA ArmedDone ==
    ASSUME TypeInv, ArmedInv, EventDone
    PROVE  ArmedInv'
<1>1. /\ event # NoEvent => await_qs[event] = <<>>
      /\ UNCHANGED <<enabled, await_qs>> /\ kpc = "event" /\ kpc' = "dispatch"
  BY DEF EventDone, ToDispatch
<1>2. AwaitedIsEnabled'
  BY <1>1 DEF ArmedInv, EnabledWhileAwaited, AwaitedIsEnabled, UartEvents, NoEvent
<1>3. EnabledIsAwaited'
  BY <1>1 DEF ArmedInv, EnabledWhileAwaited, EnabledIsAwaited
<1> QED BY <1>1, <1>2, <1>3 DEF ArmedInv, EnabledWhileAwaited, Disarmed

\* Every step keeps ArmedInv.
LEMMA ArmedStep == TypeInv /\ ArmedInv /\ [Next]_vars => ArmedInv'
<1> SUFFICES ASSUME TypeInv, ArmedInv, [Next]_vars PROVE ArmedInv'
  OBVIOUS
<1>1. CASE Dispatch \/ NoneReady \/ Stopped \/ IdleLeavesLoop \/ IdleExits
  <2>1. UNCHANGED <<await_qs, enabled>> /\ kpc # "event" /\ kpc' # "event"
    BY <1>1 DEF Dispatch, NoneReady, Stopped, IdleLeavesLoop, IdleExits, ExitActive, irqVars, vars
  <2> QED BY <2>1, ArmedKept
<1>2. ASSUME NEW e \in AwaitedEvents, kernel_await_event(e) PROVE ArmedInv'
  <2>1. active \in Tids /\ kpc = "user" /\ kpc' = "dispatch"
    BY <1>2, SyscallTyped DEF kernel_await_event, Syscall, ToDispatch
  <2>2. CASE AwaitRejected(e)
    BY <2>1, <2>2, ArmedKept DEF AwaitRejected
  <2>3. CASE AwaitQueues(e)
    BY <2>1, <2>3, ArmedAwait DEF AwaitQueues
  <2> QED BY <1>2, <2>2, <2>3 DEF kernel_await_event
<1>3. CASE Call
  <2>1. CASE ~\E e \in AwaitedEvents : kernel_await_event(e)
    <3>1. UNCHANGED <<await_qs, enabled>> /\ kpc = "user" /\ kpc' \in {"dispatch", "halted"}
      BY <1>3, <2>1 DEF Call, kernel_pass, kernel_mytid, kernel_parenttid, kernel_create, kernel_send,
         kernel_receive, kernel_reply, kernel_exit, ExitActive, Quit, kernel_panic, Syscall, ToDispatch, irqVars
    <3> QED BY <3>1, ArmedKept
  <2> QED BY <1>2, <2>1
<1>4. CASE TimerInterrupt
  BY <1>4, ArmedTake DEF TimerInterrupt, SelfDisabling
<1>5. ASSUME NEW e \in UartEvents, NEW val \in Bytes, ReceiveInterrupt(e, val) PROVE ArmedInv'
  BY <1>5, ArmedTake DEF ReceiveInterrupt, SelfDisabling
<1>6. ASSUME NEW val \in Bytes, ModemInterrupt(val) PROVE ArmedInv'
  BY <1>6, ArmedTake DEF ModemInterrupt, Disable
<1>7. ASSUME NEW e \in UartEvents, TransmitInterrupt(e) PROVE ArmedInv'
  BY <1>7, ArmedTake DEF TransmitInterrupt, Disable
<1>8. ASSUME NEW s \in UnhandledSources, UnexpectedInterrupt(s) PROVE ArmedInv'
  BY <1>8, ArmedTake DEF UnexpectedInterrupt, SelfDisabling, NoEvent
<1>9. CASE EventWake
  BY <1>9, ArmedWake
<1>10. CASE EventDone
  BY <1>10, ArmedDone
<1>11. CASE UNCHANGED vars
  <2>1. UNCHANGED <<await_qs, enabled, kpc, event>>
    BY <1>11 DEF vars, irqVars
  <2> QED BY <2>1 DEF ArmedInv, EnabledWhileAwaited, AwaitedIsEnabled, EnabledIsAwaited, Disarmed
<1> QED BY <1>1, <1>3, <1>4, <1>5, <1>6, <1>7, <1>8, <1>9, <1>10, <1>11 DEF Next, Interrupt

\* An interrupt that a task waits for is enabled until it is handled, and a transmit
\* or modem interrupt that nobody waits for is disabled, whatever the tasks call.
THEOREM InterruptsMatchWaiters == Spec => []EnabledWhileAwaited
<1>1. Init => ArmedInv
  <2> SUFFICES ASSUME Init PROVE ArmedInv
    OBVIOUS
  <2>1. kpc = "dispatch" /\ enabled = BootEnabled /\ \A e \in Events : await_qs[e] = <<>>
    BY DEF Init
  <2> QED BY <2>1 DEF ArmedInv, EnabledWhileAwaited, AwaitedIsEnabled, EnabledIsAwaited, Disarmed, Events
<1>2. ArmedInv => EnabledWhileAwaited
  BY DEF ArmedInv
<1> QED BY <1>1, <1>2, ArmedStep, TypeInit, TypeStep, PTL DEF Spec

-----------------------------------------------------------------------------
(***************************************************************************)
(* Consistency.  The kernel's lists and states agree in every interleaving *)
(* of calls and interrupts, as long as tasks reply only to tasks whose     *)
(* message they hold.                                                      *)
(***************************************************************************)

(***************************************************************************)
(* Queues: what a put and a get do to membership.                          *)
(***************************************************************************)

\* queue_put adds one member, and no repetition if the node was not linked.
LEMMA AppendIn ==
    ASSUME NEW S, NEW q \in Seq(S), NEW t \in S
    PROVE  /\ \A x : In(Append(q, t), x) <=> In(q, x) \/ x = t
           /\ NoRepeat(q) /\ ~In(q, t) => NoRepeat(Append(q, t))
<1>1. /\ Append(q, t) \in Seq(S) /\ Len(Append(q, t)) = Len(q) + 1 /\ Len(q) \in Nat
      /\ \A i \in 1 .. Len(q) : Append(q, t)[i] = q[i]
      /\ Append(q, t)[Len(q) + 1] = t
  BY AppendProperties, LenProperties
<1>2. DOMAIN q = 1 .. Len(q) /\ DOMAIN Append(q, t) = 1 .. Len(q) + 1
  BY <1>1, LenProperties
<1>3. \A x : In(Append(q, t), x) <=> In(q, x) \/ x = t
  <2> TAKE x
  <2>1. ASSUME In(Append(q, t), x) PROVE In(q, x) \/ x = t
    BY <1>1, <1>2, <2>1 DEF In
  <2>2. ASSUME In(q, x) PROVE In(Append(q, t), x)
    BY <1>1, <1>2, <2>2 DEF In
  <2>3. In(Append(q, t), t)
    BY <1>1, <1>2 DEF In
  <2> QED BY <2>1, <2>2, <2>3
<1>4. ASSUME NoRepeat(q), ~In(q, t) PROVE NoRepeat(Append(q, t))
  BY <1>1, <1>2, <1>4 DEF NoRepeat, In
<1> QED BY <1>3, <1>4

\* queue_get removes exactly the front.
LEMMA TailIn ==
    ASSUME NEW S, NEW q \in Seq(S), q # <<>>, NoRepeat(q)
    PROVE  /\ In(q, Head(q)) /\ NoRepeat(Tail(q))
           /\ \A x : In(Tail(q), x) <=> In(q, x) /\ x # Head(q)
<1>1. /\ Tail(q) \in Seq(S) /\ Len(Tail(q)) = Len(q) - 1 /\ Len(q) \in Nat \ {0}
      /\ \A i \in 1 .. Len(Tail(q)) : Tail(q)[i] = q[i + 1]
  BY HeadTailProperties, EmptySeq
<1>2. DOMAIN q = 1 .. Len(q) /\ DOMAIN Tail(q) = 1 .. Len(q) - 1 /\ Head(q) = q[1]
  BY <1>1, LenProperties
<1>3. In(q, Head(q))
  BY <1>1, <1>2 DEF In
<1>4. NoRepeat(Tail(q))
  BY <1>1, <1>2 DEF NoRepeat
<1>5. \A x : In(Tail(q), x) <=> In(q, x) /\ x # Head(q)
  <2> TAKE x
  <2>1. ASSUME In(Tail(q), x) PROVE In(q, x) /\ x # Head(q)
    <3>1. PICK i \in 1 .. Len(q) - 1 : Tail(q)[i] = x
      BY <1>2, <2>1 DEF In
    <3>2. q[i + 1] = x /\ i + 1 \in 1 .. Len(q) /\ i + 1 # 1 /\ 1 \in 1 .. Len(q)
      BY <1>1, <3>1
    <3> QED BY <1>2, <3>2 DEF In, NoRepeat
  <2>2. ASSUME In(q, x), x # Head(q) PROVE In(Tail(q), x)
    <3>1. PICK i \in 1 .. Len(q) : q[i] = x
      BY <1>2, <2>2 DEF In
    <3>2. i - 1 \in 1 .. Len(q) - 1 /\ (i - 1) + 1 = i
      BY <1>1, <1>2, <2>2, <3>1
    <3> QED BY <1>1, <1>2, <3>1, <3>2 DEF In
  <2> QED BY <2>1, <2>2
<1> QED BY <1>3, <1>4, <1>5

\* The empty queue has no member, and is the only one.
LEMMA EmptyIn ==
    ASSUME NEW S, NEW q \in Seq(S)
    PROVE  q = <<>> <=> \A x : ~In(q, x)
<1>1. DOMAIN q = 1 .. Len(q) /\ Len(q) \in Nat
  BY LenProperties
<1>2. q = <<>> => \A x : ~In(q, x)
  BY DEF In
<1>3. q # <<>> => In(q, q[1])
  BY <1>1, EmptySeq DEF In
<1> QED BY <1>2, <1>3

\* A put into one queue of a family.
LEMMA FamilyPut ==
    ASSUME NEW K, NEW qs \in [K -> Seq(Tids)], NEW k \in K, NEW t \in Tids,
           LinkedOnce(qs), \A j \in K : ~In(qs[j], t)
    PROVE  /\ LinkedOnce(Enqueue(qs, k, t))
           /\ \A j \in K, x \in Tids : In(Enqueue(qs, k, t)[j], x) <=> In(qs[j], x) \/ (j = k /\ x = t)
<1> DEFINE new == Enqueue(qs, k, t)
<1>1. /\ DOMAIN new = K /\ DOMAIN qs = K
      /\ \A j \in K : new[j] = IF j = k THEN Append(qs[k], t) ELSE qs[j]
  BY DEF Enqueue
<1> HIDE DEF new
<1>2. /\ \A x : In(Append(qs[k], t), x) <=> In(qs[k], x) \/ x = t
      /\ NoRepeat(qs[k]) /\ ~In(qs[k], t) => NoRepeat(Append(qs[k], t))
  BY AppendIn
<1>3. \A j \in K, x \in Tids : In(new[j], x) <=> In(qs[j], x) \/ (j = k /\ x = t)
  BY <1>1, <1>2
<1>4. \A j \in K : NoRepeat(new[j])
  BY <1>1, <1>2 DEF LinkedOnce
<1>5. \A j1, j2 \in K, x \in Tids : In(new[j1], x) /\ In(new[j2], x) => j1 = j2
  BY <1>1, <1>3 DEF LinkedOnce
<1> QED BY <1>1, <1>3, <1>4, <1>5 DEF LinkedOnce, new

\* A get from one queue of a family.
LEMMA FamilyGet ==
    ASSUME NEW K, NEW qs \in [K -> Seq(Tids)], NEW k \in K, qs[k] # <<>>,
           LinkedOnce(qs)
    PROVE  /\ LinkedOnce(Dequeue(qs, k)) /\ Head(qs[k]) \in Tids /\ In(qs[k], Head(qs[k]))
           /\ \A j \in K, x \in Tids : In(Dequeue(qs, k)[j], x) <=> In(qs[j], x) /\ x # Head(qs[k])
<1> DEFINE new == Dequeue(qs, k)
<1>1. /\ DOMAIN new = K /\ DOMAIN qs = K
      /\ \A j \in K : new[j] = IF j = k THEN Tail(qs[k]) ELSE qs[j]
  BY DEF Dequeue
<1> HIDE DEF new
<1>2. Head(qs[k]) \in Tids /\ NoRepeat(qs[k])
  BY <1>1, HeadTailProperties DEF LinkedOnce
<1>3. /\ In(qs[k], Head(qs[k])) /\ NoRepeat(Tail(qs[k]))
      /\ \A x : In(Tail(qs[k]), x) <=> In(qs[k], x) /\ x # Head(qs[k])
  BY <1>2, TailIn
<1>4. \A j \in K, x \in Tids : In(new[j], x) <=> In(qs[j], x) /\ x # Head(qs[k])
  BY <1>1, <1>2, <1>3 DEF LinkedOnce
<1>5. \A j \in K : NoRepeat(new[j])
  BY <1>1, <1>3 DEF LinkedOnce
<1>6. \A j1, j2 \in K, x \in Tids : In(new[j1], x) /\ In(new[j2], x) => j1 = j2
  BY <1>1, <1>4 DEF LinkedOnce
<1> QED BY <1>1, <1>2, <1>3, <1>4, <1>5, <1>6 DEF LinkedOnce, new

-----------------------------------------------------------------------------
(***************************************************************************)
(* The inductive invariant.  NodesLinkedOnce alone is not inductive: that  *)
(* a put never links a linked node follows from the states of the tasks in *)
(* the queues, and those from the discipline of replies.                   *)
(***************************************************************************)

\* The tid check of kernel_send and kernel_reply accepts exactly the created tasks.
TidsOfCreated == \A t \in Tids : tid[t] = t <=> t \in Created

Consistent ==
    NodesLinkedOnce /\ QueuesMatchState /\ OwedOnce /\ NoSleepingReceiver /\ TidsOfCreated

SafeInv == TypeInv /\ Consistent

\* The fields the invariant reads besides priority_qs, state and active.
linkVars == <<send_q, await_qs, owed>>

\* The invariant, unfolded for a step.
LEMMA ConsistentNow ==
    ASSUME SafeInv
    PROVE  /\ LinkedOnce(priority_qs) /\ LinkedOnce(send_q) /\ LinkedOnce(await_qs)
           /\ priority_qs \in [Priorities -> Seq(Tids)]
           /\ send_q \in [Tids -> Seq(Tids)] /\ await_qs \in [Events -> Seq(Tids)]
           /\ state \in [Tids -> TaskStates] /\ owed \in [Tids -> SUBSET Tids]
           /\ priority \in [Tids -> Priorities]
           /\ ReadyMatch /\ SendersMatch /\ WaitersMatch /\ OwedMatch /\ ActiveMatch
           /\ OwedOnce /\ NoSleepingReceiver /\ TidsOfCreated
  BY DEF SafeInv, Consistent, NodesLinkedOnce, QueuesMatchState, TypeInv, TypeOK

\* The tasks created so far are task ids.
LEMMA CreatedAreTids == TypeInv => Created \subseteq Tids
<1> SUFFICES ASSUME TypeInv PROVE Created \subseteq Tids
  OBVIOUS
<1>1. next_free_td \in 2 .. MaxTasks
  BY DEF TypeInv, TypeOK
<1> QED BY <1>1, KernelAssumption DEF Created, Tids

\* The invariant after a step, from its parts.
LEMMA ConsistentNext ==
    ASSUME LinkedOnce(priority_qs'), LinkedOnce(send_q'), LinkedOnce(await_qs'),
           ReadyMatch', SendersMatch', WaitersMatch', OwedMatch', ActiveMatch',
           OwedOnce', NoSleepingReceiver', TidsOfCreated'
    PROVE  Consistent'
<1>1. NodesLinkedOnce'
  BY DEF NodesLinkedOnce, LinkedOnce
<1> QED BY <1>1 DEF Consistent, QueuesMatchState

(***************************************************************************)
(* A family of queues that a step leaves alone still matches the states if *)
(* the tasks in it keep their state.                                       *)
(***************************************************************************)

LEMMA SendersKept ==
    ASSUME SendersMatch, send_q' = send_q, Created \subseteq Created',
           \A r, x \in Tids : In(send_q[r], x) => state'[x] = state[x]
    PROVE  SendersMatch'
  BY DEF SendersMatch

LEMMA WaitersKept ==
    ASSUME WaitersMatch, await_qs' = await_qs, Created \subseteq Created',
           \A e \in Events, x \in Tids : In(await_qs[e], x) => state'[x] = state[x]
    PROVE  WaitersMatch'
  BY DEF WaitersMatch

LEMMA OwedKept ==
    ASSUME OwedMatch, OwedOnce, owed \in [Tids -> SUBSET Tids], owed' = owed, Created \subseteq Created',
           \A r, x \in Tids : x \in owed[r] => state'[x] = state[x]
    PROVE  OwedMatch' /\ OwedOnce'
  BY DEF OwedMatch, OwedOnce

LEMMA ReadyKept ==
    ASSUME ReadyMatch, priority_qs' = priority_qs, priority' = priority, Created' = Created,
           active' \in {active, NoTask},
           \A p \in Priorities, x \in Tids : In(priority_qs[p], x) => state'[x] = state[x]
    PROVE  ReadyMatch'
  BY DEF ReadyMatch, NoTask, Tids

LEMMA SleepersKept ==
    ASSUME NoSleepingReceiver, TidsOfCreated, send_q' = send_q, tid' = tid, Created' = Created,
           \A x \in Created : state'[x] = "SEND_BLOCKED" => state[x] = "SEND_BLOCKED"
    PROVE  NoSleepingReceiver' /\ TidsOfCreated'
  BY DEF NoSleepingReceiver, TidsOfCreated

-----------------------------------------------------------------------------
(***************************************************************************)
(* The steps.                                                              *)
(***************************************************************************)

\* Steps that move no task: at most the active task is dropped.
LEMMA NothingMoves ==
    ASSUME SafeInv, UNCHANGED <<priority_qs, tdVars, state, linkVars>>, active' \in {active, NoTask}
    PROVE  Consistent'
<1>0. /\ priority_qs' = priority_qs /\ send_q' = send_q /\ await_qs' = await_qs /\ owed' = owed
      /\ state' = state /\ tid' = tid /\ priority' = priority /\ Created' = Created
  BY DEF tdVars, linkVars, Created
<1>1. ReadyMatch'
  BY <1>0, ConsistentNow, ReadyKept
<1>2. SendersMatch' /\ WaitersMatch' /\ OwedMatch' /\ OwedOnce'
  BY <1>0, ConsistentNow, SendersKept, WaitersKept, OwedKept
<1>3. ActiveMatch'
  BY <1>0, ConsistentNow DEF ActiveMatch
<1>4. NoSleepingReceiver' /\ TidsOfCreated'
  BY <1>0, ConsistentNow, SleepersKept
<1> QED BY <1>0, <1>1, <1>2, <1>3, <1>4, ConsistentNow, ConsistentNext

\* The active task: it is in no queue and is owed nothing.
LEMMA CallerFacts ==
    ASSUME SafeInv, active \in Tids
    PROVE  /\ active \in Created /\ state[active] = "READY" /\ priority[active] \in Priorities
           /\ \A p \in Priorities : ~In(priority_qs[p], active)
           /\ \A r \in Tids : ~In(send_q[r], active) /\ active \notin owed[r]
           /\ \A e \in Events : ~In(await_qs[e], active)
<1>1. active \in Created /\ state[active] = "READY"
  BY ConsistentNow DEF ActiveMatch, Tids, NoTask
<1> QED BY <1>1, ConsistentNow DEF ReadyMatch, SendersMatch, WaitersMatch, OwedMatch

\* scheduler_put of a task t that is in no ready queue, made READY; the task a that
\* was active, if it is t, is no longer.
LEMMA ReadyPut ==
    ASSUME SafeInv, NEW t \in Created, NEW pt \in Priorities,
           \A p \in Priorities : ~In(priority_qs[p], t),
           priority_qs' = Enqueue(priority_qs, pt, t),
           active' = NoTask \/ (active' = active /\ t # active),
           Created \subseteq Created', priority'[t] = pt, state'[t] = "READY",
           \A p \in Priorities, x \in Tids :
               In(priority_qs[p], x) => state'[x] = state[x] /\ priority'[x] = priority[x]
    PROVE  LinkedOnce(priority_qs') /\ ReadyMatch'
<1>0. LinkedOnce(priority_qs) /\ priority_qs \in [Priorities -> Seq(Tids)] /\ ReadyMatch
  BY ConsistentNow
<1>1. t \in Tids
  BY CreatedAreTids DEF SafeInv
<1>2. /\ LinkedOnce(priority_qs')
      /\ \A p \in Priorities, x \in Tids :
            In(priority_qs'[p], x) <=> In(priority_qs[p], x) \/ (p = pt /\ x = t)
  BY <1>0, <1>1, FamilyPut
<1>3. ReadyMatch'
  BY <1>0, <1>1, <1>2 DEF ReadyMatch, NoTask, Tids
<1> QED BY <1>2, <1>3

\* The caller, or the interrupted task, is put back.
LEMMA PutBackSafe ==
    ASSUME SafeInv, active \in Tids, active' = NoTask, scheduler_put(active), UNCHANGED <<tdVars, linkVars>>
    PROVE  Consistent'
<1>0. /\ send_q' = send_q /\ await_qs' = await_qs /\ owed' = owed
      /\ tid' = tid /\ priority' = priority /\ Created' = Created
      /\ priority_qs' = Enqueue(priority_qs, priority[active], active)
  BY DEF tdVars, linkVars, Created, scheduler_put
<1>1. state' = state
  BY CallerFacts, ConsistentNow DEF scheduler_put
<1>2. LinkedOnce(priority_qs') /\ ReadyMatch'
  BY <1>0, <1>1, CallerFacts, ReadyPut
<1>3. SendersMatch' /\ WaitersMatch' /\ OwedMatch' /\ OwedOnce'
  BY <1>0, <1>1, ConsistentNow, SendersKept, WaitersKept, OwedKept
<1>4. NoSleepingReceiver' /\ TidsOfCreated'
  BY <1>0, <1>1, ConsistentNow, SleepersKept
<1>5. ActiveMatch'
  BY DEF ActiveMatch
<1> QED BY <1>0, <1>2, <1>3, <1>4, <1>5, ConsistentNow, ConsistentNext

\* The caller leaves the processor in state s, and send_q and await_qs stay as
\* they are: it exits, or blocks in Receive.
LEMMA StopsSafe ==
    ASSUME SafeInv, active \in Tids, active' = NoTask, NEW s \in {"EXITED", "SEND_BLOCKED"},
           s = "SEND_BLOCKED" => send_q[active] = <<>>,
           state' = [state EXCEPT ![active] = s], UNCHANGED <<priority_qs, tdVars, linkVars>>
    PROVE  Consistent'
<1>0. /\ priority_qs' = priority_qs /\ send_q' = send_q /\ await_qs' = await_qs /\ owed' = owed
      /\ tid' = tid /\ priority' = priority /\ Created' = Created
  BY DEF tdVars, linkVars, Created
<1>1. state'[active] = s /\ \A x \in Tids : x # active => state'[x] = state[x]
  BY ConsistentNow
<1>2. ReadyMatch'
  BY <1>0, <1>1, ConsistentNow, CallerFacts, ReadyKept
<1>3. SendersMatch' /\ WaitersMatch' /\ OwedMatch' /\ OwedOnce'
  BY <1>0, <1>1, ConsistentNow, CallerFacts, SendersKept, WaitersKept, OwedKept
<1>4. NoSleepingReceiver' /\ TidsOfCreated'
  <2>1. Created \subseteq Tids
    BY CreatedAreTids DEF SafeInv
  <2> QED BY <1>0, <1>1, <2>1, ConsistentNow DEF NoSleepingReceiver, TidsOfCreated
<1>5. ActiveMatch'
  BY DEF ActiveMatch
<1> QED BY <1>0, <1>2, <1>3, <1>4, <1>5, ConsistentNow, ConsistentNext

\* scheduler_get: the task leaves the ready queues and becomes active.
LEMMA DispatchSafe ==
    ASSUME SafeInv, Dispatch
    PROVE  Consistent'
<1> DEFINE idx == bitmap_leadingzeroes(bitmap)
           t == Head(priority_qs[idx])
<1>0. TypeInv
  BY DEF SafeInv
<1>1. bitmap \in SUBSET (0 .. WordSize - 1) /\ bitmap # {}
  <2>1. Priorities \subseteq 0 .. WordSize - 1
    BY KernelAssumption DEF Priorities, WordSize
  <2>2. bitmap # {}
    BY DEF Dispatch, scheduler_empty
  <2>3. bitmap \subseteq Priorities
    BY <1>0 DEF TypeInv, TypeOK
  <2> QED BY <2>1, <2>2, <2>3
<1>2. idx \in bitmap
  BY <1>1, LowestBit
<1>3. idx \in Priorities /\ priority_qs[idx] # <<>>
  BY <1>0, <1>2 DEF TypeInv, TypeOK, BitmapSound
<1>4. /\ active' = t /\ priority_qs' = Dequeue(priority_qs, idx)
      /\ send_q' = send_q /\ await_qs' = await_qs /\ owed' = owed /\ state' = state
      /\ tid' = tid /\ priority' = priority /\ Created' = Created
  BY DEF Dispatch, NextReady, GetReady, tdVars, msgVars, irqVars, history, Created
<1> HIDE DEF idx
<1>5. /\ LinkedOnce(priority_qs') /\ t \in Tids /\ In(priority_qs[idx], t)
      /\ \A p \in Priorities, x \in Tids : In(priority_qs'[p], x) <=> In(priority_qs[p], x) /\ x # t
  BY ConsistentNow, <1>3, <1>4, FamilyGet
<1> HIDE DEF t
<1>6. ReadyMatch' /\ ActiveMatch'
  BY <1>3, <1>4, <1>5, ConsistentNow DEF ReadyMatch, ActiveMatch
<1>7. SendersMatch' /\ WaitersMatch' /\ OwedMatch' /\ OwedOnce'
  BY <1>4, ConsistentNow, SendersKept, WaitersKept, OwedKept
<1>8. NoSleepingReceiver' /\ TidsOfCreated'
  BY <1>4, ConsistentNow, SleepersKept
<1> QED BY <1>4, <1>5, <1>6, <1>7, <1>8, ConsistentNow, ConsistentNext

\* The caller waits for an event.
LEMMA AwaitSafe ==
    ASSUME SafeInv, active \in Tids, active' = NoTask, NEW e \in Events,
           state' = [state EXCEPT ![active] = "EVENT_BLOCKED"],
           await_qs' = Enqueue(await_qs, e, active),
           UNCHANGED <<priority_qs, tdVars, send_q, owed>>
    PROVE  Consistent'
<1>0. /\ priority_qs' = priority_qs /\ send_q' = send_q /\ owed' = owed
      /\ tid' = tid /\ priority' = priority /\ Created' = Created
  BY DEF tdVars, Created
<1>1. state'[active] = "EVENT_BLOCKED" /\ \A x \in Tids : x # active => state'[x] = state[x]
  BY ConsistentNow
<1>2. ReadyMatch'
  BY <1>0, <1>1, ConsistentNow, CallerFacts, ReadyKept
<1>3. SendersMatch' /\ OwedMatch' /\ OwedOnce'
  BY <1>0, <1>1, ConsistentNow, CallerFacts, SendersKept, OwedKept
<1>4. /\ LinkedOnce(await_qs')
      /\ \A d \in Events, x \in Tids : In(await_qs'[d], x) <=> In(await_qs[d], x) \/ (d = e /\ x = active)
  <2>1. await_qs \in [Events -> Seq(Tids)] /\ LinkedOnce(await_qs)
    BY ConsistentNow
  <2>2. \A d \in Events : ~In(await_qs[d], active)
    BY CallerFacts
  <2> QED BY <2>1, <2>2, FamilyPut
<1>5. WaitersMatch'
  BY <1>0, <1>1, <1>4, ConsistentNow, CallerFacts DEF WaitersMatch
<1>6. NoSleepingReceiver' /\ TidsOfCreated'
  <2>1. Created \subseteq Tids
    BY CreatedAreTids DEF SafeInv
  <2> QED BY <1>0, <1>1, <2>1, ConsistentNow, SleepersKept
<1>7. ActiveMatch'
  BY DEF ActiveMatch
<1> QED BY <1>0, <1>2, <1>3, <1>4, <1>5, <1>6, <1>7, ConsistentNow, ConsistentNext

\* A waiter is woken.
LEMMA WakeSafe ==
    ASSUME SafeInv, EventWake
    PROVE  Consistent'
<1> DEFINE t == Head(await_qs[event])
<1>0. TypeInv
  BY DEF SafeInv
<1>1. event \in Events /\ await_qs[event] # <<>>
  BY <1>0 DEF EventWake, TypeInv, TypeOK
<1>2. /\ await_qs' = Dequeue(await_qs, event)
      /\ priority_qs' = Enqueue(priority_qs, priority[t], t)
      /\ state' = [state EXCEPT ![t] = "READY"]
      /\ active' = active /\ send_q' = send_q /\ owed' = owed
      /\ tid' = tid /\ priority' = priority /\ Created' = Created
  BY DEF EventWake, scheduler_put, tdVars, msgVars, history, Created
<1>3. /\ LinkedOnce(await_qs') /\ t \in Tids /\ In(await_qs[event], t)
      /\ \A e \in Events, x \in Tids : In(await_qs'[e], x) <=> In(await_qs[e], x) /\ x # t
  BY <1>1, <1>2, ConsistentNow, FamilyGet
<1> HIDE DEF t
<1>4. t \in Created /\ state[t] = "EVENT_BLOCKED"
  BY <1>1, <1>3, ConsistentNow DEF WaitersMatch
<1>5. /\ t # active /\ priority[t] \in Priorities
      /\ \A p \in Priorities : ~In(priority_qs[p], t)
      /\ \A r \in Tids : ~In(send_q[r], t) /\ t \notin owed[r]
  BY <1>3, <1>4, ConsistentNow DEF ReadyMatch, SendersMatch, OwedMatch, ActiveMatch, Tids, NoTask
<1>6. state'[t] = "READY" /\ \A x \in Tids : x # t => state'[x] = state[x]
  BY <1>2, <1>3, ConsistentNow
<1>7. LinkedOnce(priority_qs') /\ ReadyMatch'
  BY <1>2, <1>4, <1>5, <1>6, ReadyPut
<1>8. SendersMatch' /\ OwedMatch' /\ OwedOnce'
  BY <1>2, <1>5, <1>6, ConsistentNow, SendersKept, OwedKept
<1>9. WaitersMatch'
  BY <1>2, <1>3, <1>6, ConsistentNow DEF WaitersMatch
<1>10. ActiveMatch'
  <2>1. Created \subseteq Tids
    BY CreatedAreTids DEF SafeInv
  <2> QED BY <1>2, <1>5, <1>6, <2>1, ConsistentNow DEF ActiveMatch
<1>11. NoSleepingReceiver' /\ TidsOfCreated'
  <2>1. Created \subseteq Tids
    BY CreatedAreTids DEF SafeInv
  <2> QED BY <1>2, <1>6, <2>1, ConsistentNow, SleepersKept
<1> QED BY <1>2, <1>3, <1>7, <1>8, <1>9, <1>10, <1>11, ConsistentNow, ConsistentNext

\* A message is delivered: the receiver wakes and owes the caller a reply.
LEMMA DeliverSafe ==
    ASSUME SafeInv, active \in Tids, active' = NoTask, NEW to \in Tids, tid[to] = to,
           state[to] = "SEND_BLOCKED", SendReadies(to),
           state' = [state EXCEPT ![to] = "READY", ![active] = "REPLY_BLOCKED"],
           owed' = [owed EXCEPT ![to] = @ \cup {active}],
           UNCHANGED <<tdVars, send_q, await_qs>>
    PROVE  Consistent'
<1>0. /\ send_q' = send_q /\ await_qs' = await_qs
      /\ tid' = tid /\ priority' = priority /\ Created' = Created
      /\ priority_qs' = Enqueue(priority_qs, priority[to], to)
  BY DEF tdVars, Created, SendReadies
<1>1. to \in Created /\ to # active /\ priority[to] \in Priorities
  BY ConsistentNow, CallerFacts DEF TidsOfCreated
<1>2. /\ state'[active] = "REPLY_BLOCKED" /\ state'[to] = "READY"
      /\ \A x \in Tids : x # active /\ x # to => state'[x] = state[x]
  BY <1>1, ConsistentNow
<1>3. \A p \in Priorities : ~In(priority_qs[p], to)
  BY ConsistentNow DEF ReadyMatch
<1>4. /\ \A p \in Priorities, x \in Tids : In(priority_qs[p], x) => state'[x] = state[x]
      /\ \A r, x \in Tids : In(send_q[r], x) => state'[x] = state[x]
      /\ \A e \in Events, x \in Tids : In(await_qs[e], x) => state'[x] = state[x]
      /\ \A r, x \in Tids : x \in owed[r] => state'[x] = state[x]
  BY <1>2, <1>3, ConsistentNow, CallerFacts DEF SendersMatch, WaitersMatch, OwedMatch
<1>5. LinkedOnce(priority_qs') /\ ReadyMatch'
  BY <1>0, <1>1, <1>2, <1>3, <1>4, ReadyPut
<1>6. SendersMatch' /\ WaitersMatch'
  BY <1>0, <1>4, ConsistentNow, SendersKept, WaitersKept
<1>7. \A r \in Tids : owed'[r] = IF r = to THEN owed[r] \cup {active} ELSE owed[r]
  BY ConsistentNow
<1>8. OwedMatch'
  BY <1>0, <1>2, <1>4, <1>7, ConsistentNow, CallerFacts DEF OwedMatch
<1>9. OwedOnce'
  BY <1>7, ConsistentNow, CallerFacts DEF OwedOnce
<1>10. NoSleepingReceiver' /\ TidsOfCreated'
  <2>1. Created \subseteq Tids
    BY CreatedAreTids DEF SafeInv
  <2> QED BY <1>0, <1>2, <2>1, ConsistentNow, SleepersKept
<1>11. ActiveMatch'
  BY DEF ActiveMatch
<1> QED BY <1>0, <1>5, <1>6, <1>8, <1>9, <1>10, <1>11, ConsistentNow, ConsistentNext

\* The caller queues behind a receiver that does not wait.
LEMMA QueueSafe ==
    ASSUME SafeInv, active \in Tids, active' = NoTask, NEW to \in Tids,
           state[to] # "SEND_BLOCKED",
           state' = [state EXCEPT ![active] = "RECEIVE_BLOCKED"],
           send_q' = Enqueue(send_q, to, active),
           UNCHANGED <<priority_qs, tdVars, await_qs, owed>>
    PROVE  Consistent'
<1>0. /\ priority_qs' = priority_qs /\ await_qs' = await_qs /\ owed' = owed
      /\ tid' = tid /\ priority' = priority /\ Created' = Created
  BY DEF tdVars, Created
<1>1. state'[active] = "RECEIVE_BLOCKED" /\ \A x \in Tids : x # active => state'[x] = state[x]
  BY ConsistentNow
<1>2. ReadyMatch'
  BY <1>0, <1>1, ConsistentNow, CallerFacts, ReadyKept
<1>3. WaitersMatch' /\ OwedMatch' /\ OwedOnce'
  BY <1>0, <1>1, ConsistentNow, CallerFacts, WaitersKept, OwedKept
<1>4. /\ LinkedOnce(send_q')
      /\ \A r, x \in Tids : In(send_q'[r], x) <=> In(send_q[r], x) \/ (r = to /\ x = active)
  <2>1. send_q \in [Tids -> Seq(Tids)] /\ LinkedOnce(send_q)
    BY ConsistentNow
  <2>2. \A r \in Tids : ~In(send_q[r], active)
    BY CallerFacts
  <2> QED BY <2>1, <2>2, FamilyPut
<1>5. SendersMatch'
  BY <1>0, <1>1, <1>4, ConsistentNow, CallerFacts DEF SendersMatch
<1>6. NoSleepingReceiver' /\ TidsOfCreated'
  <2>1. Created \subseteq Tids
    BY CreatedAreTids DEF SafeInv
  <2>2. \A r \in Tids : r # to => send_q'[r] = send_q[r]
    BY ConsistentNow DEF Enqueue
  <2>3. NoSleepingReceiver'
    BY <1>0, <1>1, <2>1, <2>2, ConsistentNow DEF NoSleepingReceiver
  <2>4. TidsOfCreated'
    BY <1>0, ConsistentNow DEF TidsOfCreated
  <2> QED BY <2>3, <2>4
<1>7. ActiveMatch'
  BY DEF ActiveMatch
<1> QED BY <1>0, <1>2, <1>3, <1>4, <1>5, <1>6, <1>7, ConsistentNow, ConsistentNext

\* The caller takes the first of its senders, and owes it a reply if the sizes agree.
LEMMA TakeSafe ==
    ASSUME SafeInv, active \in Tids, active' = NoTask, send_q[active] # <<>>,
           NEW sender, sender = Head(send_q[active]),
           send_q' = Dequeue(send_q, active),
           priority_qs' = Enqueue(priority_qs, priority[active], active),
           \/ state' = [state EXCEPT ![active] = "READY"] /\ owed' = owed
           \/ /\ state' = [state EXCEPT ![active] = "READY", ![sender] = "REPLY_BLOCKED"]
              /\ owed' = [owed EXCEPT ![active] = @ \cup {sender}],
           UNCHANGED <<tdVars, await_qs>>
    PROVE  Consistent'
<1>0. /\ await_qs' = await_qs /\ tid' = tid /\ priority' = priority /\ Created' = Created
  BY DEF tdVars, Created
<1>1. /\ LinkedOnce(send_q') /\ sender \in Tids /\ In(send_q[active], sender)
      /\ \A r, x \in Tids : In(send_q'[r], x) <=> In(send_q[r], x) /\ x # sender
  <2>1. send_q \in [Tids -> Seq(Tids)] /\ LinkedOnce(send_q)
    BY ConsistentNow
  <2> QED BY <2>1, FamilyGet
<1>2. sender \in Created /\ state[sender] = "RECEIVE_BLOCKED" /\ sender # active
  BY <1>1, ConsistentNow, CallerFacts DEF SendersMatch
<1>3. /\ state'[active] = "READY" /\ state'[sender] \in {"RECEIVE_BLOCKED", "REPLY_BLOCKED"}
      /\ \A x \in Tids : x # sender => state'[x] = state[x]
  BY <1>1, <1>2, ConsistentNow, CallerFacts
<1>4. /\ \A p \in Priorities : ~In(priority_qs[p], sender)
      /\ \A r \in Tids : sender \notin owed[r]
      /\ \A e \in Events : ~In(await_qs[e], sender)
  BY <1>1, <1>2, ConsistentNow DEF ReadyMatch, WaitersMatch, OwedMatch
<1>5. LinkedOnce(priority_qs') /\ ReadyMatch'
  BY <1>0, <1>3, <1>4, CallerFacts, ReadyPut
<1>6. SendersMatch'
  BY <1>0, <1>1, <1>3, ConsistentNow DEF SendersMatch
<1>7. WaitersMatch'
  BY <1>0, <1>3, <1>4, ConsistentNow, WaitersKept
<1>8. OwedMatch' /\ OwedOnce'
  <2>1. CASE owed' = owed
    BY <1>0, <1>3, <1>4, <2>1, ConsistentNow, OwedKept
  <2>2. CASE /\ state' = [state EXCEPT ![active] = "READY", ![sender] = "REPLY_BLOCKED"]
             /\ owed' = [owed EXCEPT ![active] = @ \cup {sender}]
    <3>1. /\ \A r \in Tids : owed'[r] = IF r = active THEN owed[r] \cup {sender} ELSE owed[r]
          /\ state'[sender] = "REPLY_BLOCKED"
      BY <1>1, <2>2, ConsistentNow
    <3>a. OwedMatch /\ OwedOnce /\ \A r \in Tids : owed[r] \subseteq Tids
      BY ConsistentNow
    <3>2. OwedMatch'
      <4>1. \A r \in Tids : \A x \in owed[r] : x \in Created /\ state'[x] = "REPLY_BLOCKED"
        BY <1>3, <1>4, <3>a DEF OwedMatch
      <4> QED BY <1>0, <1>2, <3>1, <4>1 DEF OwedMatch
    <3>3. ASSUME NEW r \in Tids, NEW q \in Tids, r # q PROVE owed'[r] \cap owed'[q] = {}
      <4>1. owed[r] \cap owed[q] = {} /\ sender \notin owed[r] /\ sender \notin owed[q]
        BY <1>4, <3>3, <3>a DEF OwedOnce
      <4> QED BY <3>1, <3>3, <4>1
    <3> QED BY <3>2, <3>3 DEF OwedOnce
  <2> QED BY <2>1, <2>2
<1>9. NoSleepingReceiver' /\ TidsOfCreated'
  <2>1. Created \subseteq Tids
    BY CreatedAreTids DEF SafeInv
  <2>2. \A r \in Tids : r # active => send_q'[r] = send_q[r]
    BY ConsistentNow DEF Dequeue
  <2>3. NoSleepingReceiver'
    BY <1>0, <1>3, <2>1, <2>2, ConsistentNow DEF NoSleepingReceiver
  <2>4. TidsOfCreated'
    BY <1>0, ConsistentNow DEF TidsOfCreated
  <2> QED BY <2>3, <2>4
<1>10. ActiveMatch'
  BY DEF ActiveMatch
<1> QED BY <1>0, <1>1, <1>5, <1>6, <1>7, <1>8, <1>9, <1>10, ConsistentNow, ConsistentNext

\* A task t in no ready queue is put, then the caller.
LEMMA PutTwo ==
    ASSUME SafeInv, active \in Tids, NEW t \in Tids, t # active, NEW pt \in Priorities,
           \A p \in Priorities : ~In(priority_qs[p], t),
           PutThenActive(t, pt)
    PROVE  /\ LinkedOnce(priority_qs')
           /\ \A p \in Priorities, x \in Tids :
                In(priority_qs'[p], x) <=> \/ In(priority_qs[p], x)
                                           \/ p = pt /\ x = t
                                           \/ p = priority[active] /\ x = active
           /\ state'[t] = "READY" /\ \A x \in Tids : x # t => state'[x] = state[x]
<1> DEFINE q1 == Enqueue(priority_qs, pt, t)
<1>1. priority_qs \in [Priorities -> Seq(Tids)] /\ LinkedOnce(priority_qs)
  BY ConsistentNow
<1>2. /\ LinkedOnce(q1)
      /\ \A p \in Priorities, x \in Tids : In(q1[p], x) <=> In(priority_qs[p], x) \/ (p = pt /\ x = t)
  BY <1>1, FamilyPut
<1>3. q1 \in [Priorities -> Seq(Tids)]
  <2>1. Append(priority_qs[pt], t) \in Seq(Tids)
    BY <1>1, AppendProperties
  <2> QED BY <1>1, <2>1 DEF Enqueue
<1>4. priority_qs' = Enqueue(q1, priority[active], active)
  BY DEF PutThenActive
<1> HIDE DEF q1
<1>5. priority[active] \in Priorities /\ \A p \in Priorities : ~In(q1[p], active)
  BY <1>2, CallerFacts
<1>6. /\ LinkedOnce(priority_qs')
      /\ \A p \in Priorities, x \in Tids :
            In(priority_qs'[p], x) <=> In(q1[p], x) \/ (p = priority[active] /\ x = active)
  BY <1>2, <1>3, <1>4, <1>5, FamilyPut
<1>7. state'[t] = "READY" /\ \A x \in Tids : x # t => state'[x] = state[x]
  BY ConsistentNow, CallerFacts DEF PutThenActive
<1> QED BY <1>2, <1>6, <1>7

\* A new task: its descriptor is in no queue yet.
LEMMA CreateSafe ==
    ASSUME SafeInv, active \in Tids, active' = NoTask, NEW p \in Priorities, CreateSucceeds(p),
           await_qs' = await_qs
    PROVE  Consistent'
<1> DEFINE t == next_free_td
<1>0. t \in Tids /\ t \notin Created /\ Created' = Created \cup {t} /\ Created \subseteq Tids
  <2>1. t \in 2 .. MaxTasks /\ t < MaxTasks /\ t' = t + 1
    BY KernelAssumption DEF SafeInv, TypeInv, TypeOK, CreateSucceeds, TableFull
  <2> QED BY <2>1, KernelAssumption DEF Created, Tids
<1>1. /\ tid' = [tid EXCEPT ![t] = t] /\ priority' = [priority EXCEPT ![t] = p]
      /\ send_q' = [send_q EXCEPT ![t] = <<>>] /\ owed' = owed /\ PutThenActive(t, p)
  BY DEF CreateSucceeds, history
<1> HIDE DEF t
<1>2. /\ t # active
      /\ \A k \in Priorities : ~In(priority_qs[k], t)
      /\ \A r \in Tids : ~In(send_q[r], t) /\ t \notin owed[r]
      /\ \A e \in Events : ~In(await_qs[e], t)
  BY <1>0, CallerFacts, ConsistentNow DEF ReadyMatch, SendersMatch, WaitersMatch, OwedMatch
<1>3. /\ LinkedOnce(priority_qs')
      /\ \A k \in Priorities, x \in Tids :
            In(priority_qs'[k], x) <=> \/ In(priority_qs[k], x)
                                       \/ k = p /\ x = t
                                       \/ k = priority[active] /\ x = active
      /\ state'[t] = "READY" /\ \A x \in Tids : x # t => state'[x] = state[x]
  BY <1>0, <1>1, <1>2, PutTwo
<1>4. ReadyMatch'
  <2>1. priority'[t] = p /\ \A x \in Tids : x # t => priority'[x] = priority[x]
    BY <1>0, <1>1, ConsistentNow
  <2>2. active \in Created /\ state[active] = "READY"
    BY CallerFacts
  <2>3. ReadyMatch
    BY ConsistentNow
  <2> QED BY <1>0, <1>2, <1>3, <2>1, <2>2, <2>3 DEF ReadyMatch, NoTask, Tids
<1>5. /\ send_q'[t] = <<>> /\ \A r \in Tids : r # t => send_q'[r] = send_q[r]
      /\ DOMAIN send_q' = Tids /\ DOMAIN send_q = Tids
  BY <1>0, <1>1, ConsistentNow
<1>6. \A x : ~In(<<>>, x)
  BY DEF In
<1>7. LinkedOnce(send_q')
  <2>1. NoRepeat(<<>>)
    BY DEF NoRepeat
  <2>2. LinkedOnce(send_q)
    BY ConsistentNow
  <2>3. \A r \in Tids : NoRepeat(send_q'[r])
    BY <1>5, <2>1, <2>2 DEF LinkedOnce
  <2>4. \A r, x \in Tids : In(send_q'[r], x) => In(send_q[r], x)
    BY <1>5, <1>6
  <2> QED BY <1>5, <2>2, <2>3, <2>4 DEF LinkedOnce
<1>8. SendersMatch'
  <2>1. SendersMatch
    BY ConsistentNow
  <2> QED BY <1>0, <1>2, <1>3, <1>5, <1>6, <2>1 DEF SendersMatch
<1>9. WaitersMatch' /\ OwedMatch' /\ OwedOnce'
  BY <1>0, <1>1, <1>2, <1>3, ConsistentNow, WaitersKept, OwedKept
<1>10. NoSleepingReceiver'
  BY <1>0, <1>3, <1>5, ConsistentNow DEF NoSleepingReceiver
<1>11. TidsOfCreated'
  <2>1. tid'[t] = t /\ \A x \in Tids : x # t => tid'[x] = tid[x]
    BY <1>0, <1>1 DEF SafeInv, TypeInv, TypeOK
  <2> QED BY <1>0, <2>1, ConsistentNow DEF TidsOfCreated
<1>12. ActiveMatch'
  BY DEF ActiveMatch
<1> QED BY <1>3, <1>4, <1>7, <1>8, <1>9, <1>10, <1>11, <1>12, ConsistentNow, ConsistentNext

\* A reply to a task the caller owes one: both are put.
LEMMA ReplySafe ==
    ASSUME SafeInv, active \in Tids, active' = NoTask, NEW to \in owed[active],
           PutThenActive(to, priority[to]),
           owed' = [owed EXCEPT ![active] = @ \ {to}],
           UNCHANGED <<tdVars, send_q, await_qs>>
    PROVE  Consistent'
<1>0. /\ send_q' = send_q /\ await_qs' = await_qs
      /\ tid' = tid /\ priority' = priority /\ Created' = Created
  BY DEF tdVars, Created
<1>1. to \in Tids /\ to \in Created /\ state[to] = "REPLY_BLOCKED" /\ to # active /\ priority[to] \in Priorities
  <2>1. to \in Tids
    BY ConsistentNow
  <2>2. to \in Created /\ state[to] = "REPLY_BLOCKED"
    BY ConsistentNow DEF OwedMatch
  <2> QED BY <2>1, <2>2, ConsistentNow, CallerFacts
<1>2. /\ \A k \in Priorities : ~In(priority_qs[k], to)
      /\ \A r \in Tids : ~In(send_q[r], to)
      /\ \A e \in Events : ~In(await_qs[e], to)
      /\ \A r \in Tids : r # active => to \notin owed[r]
  BY <1>1, ConsistentNow DEF ReadyMatch, SendersMatch, WaitersMatch, OwedOnce
<1>3. /\ LinkedOnce(priority_qs')
      /\ \A k \in Priorities, x \in Tids :
            In(priority_qs'[k], x) <=> \/ In(priority_qs[k], x)
                                       \/ k = priority[to] /\ x = to
                                       \/ k = priority[active] /\ x = active
      /\ state'[to] = "READY" /\ \A x \in Tids : x # to => state'[x] = state[x]
  BY <1>1, <1>2, PutTwo
<1>4. ReadyMatch'
  <2>1. active \in Created /\ state[active] = "READY" /\ ReadyMatch
    BY CallerFacts, ConsistentNow
  <2> QED BY <1>0, <1>1, <1>3, <2>1 DEF ReadyMatch, NoTask, Tids
<1>5. SendersMatch' /\ WaitersMatch'
  BY <1>0, <1>2, <1>3, ConsistentNow, SendersKept, WaitersKept
<1>6. /\ \A r \in Tids : owed'[r] = IF r = active THEN owed[r] \ {to} ELSE owed[r]
      /\ \A r \in Tids : owed[r] \subseteq Tids
  BY ConsistentNow
<1>7. OwedMatch'
  <2>1. OwedMatch
    BY ConsistentNow
  <2> QED BY <1>0, <1>2, <1>3, <1>6, <2>1 DEF OwedMatch
<1>8. OwedOnce'
  BY <1>6, ConsistentNow DEF OwedOnce
<1>9. NoSleepingReceiver' /\ TidsOfCreated'
  <2>1. Created \subseteq Tids
    BY CreatedAreTids DEF SafeInv
  <2> QED BY <1>0, <1>3, <2>1, ConsistentNow, SleepersKept
<1>10. ActiveMatch'
  BY DEF ActiveMatch
<1> QED BY <1>0, <1>3, <1>4, <1>5, <1>7, <1>8, <1>9, <1>10, ConsistentNow, ConsistentNext

-----------------------------------------------------------------------------
(***************************************************************************)
(* The induction.                                                          *)
(***************************************************************************)

\* At the start user_main and the idle task are each in the queue of their priority.
LEMMA SafeInit == Init => SafeInv
<1> SUFFICES ASSUME Init PROVE SafeInv
  OBVIOUS
<1>0. TypeInv
  BY TypeInit
<1>1. /\ 0 \in Tids /\ 1 \in Tids /\ UserPriority \in Priorities /\ IdlePriority \in Priorities
      /\ Created = {0, 1}
  BY KernelAssumption DEF Init, Tids, Priorities, WordSize, Created
<1>2. \A x : ~In(<<>>, x)
  BY DEF In
<1>3. NoRepeat(<<>>)
  BY DEF NoRepeat
<1> DEFINE q0 == [p \in Priorities |-> <<>>]
           q1 == Enqueue(q0, UserPriority, 0)
<1>4. q0 \in [Priorities -> Seq(Tids)] /\ LinkedOnce(q0) /\ \A p \in Priorities, x \in Tids : ~In(q0[p], x)
  BY <1>2, <1>3, EmptySeq DEF LinkedOnce
<1> HIDE DEF q0
<1>5. /\ LinkedOnce(q1)
      /\ \A p \in Priorities, x \in Tids : In(q1[p], x) <=> In(q0[p], x) \/ (p = UserPriority /\ x = 0)
  BY <1>1, <1>4, FamilyPut
<1>6. q1 \in [Priorities -> Seq(Tids)]
  <2>1. Append(q0[UserPriority], 0) \in Seq(Tids)
    BY <1>1, <1>4, AppendProperties
  <2> QED BY <1>1, <1>4, <2>1 DEF Enqueue
<1>7. priority_qs = Enqueue(q1, IdlePriority, 1)
  BY DEF Init, IDLE_TASK_TID, q0
<1> HIDE DEF q1
<1>8. /\ LinkedOnce(priority_qs)
      /\ \A p \in Priorities, x \in Tids :
            In(priority_qs[p], x) <=> In(q1[p], x) \/ (p = IdlePriority /\ x = 1)
  <2>1. \A p \in Priorities : ~In(q1[p], 1)
    BY <1>1, <1>4, <1>5
  <2> QED BY <1>1, <1>5, <1>6, <1>7, <2>1, FamilyPut
<1>9. /\ send_q = [t \in Tids |-> <<>>] /\ await_qs = [e \in Events |-> <<>>]
      /\ owed = [t \in Tids |-> {}] /\ active = NoTask /\ state = [t \in Tids |-> "READY"]
      /\ tid = [t \in Tids |-> IF t = 1 THEN 1 ELSE 0]
      /\ priority[0] = UserPriority /\ priority[1] = IdlePriority
  BY <1>1 DEF Init, FirstPriority, IDLE_TASK_TID
<1>10. NodesLinkedOnce
  <2>1. LinkedOnce(send_q)
    BY <1>2, <1>3, <1>9 DEF LinkedOnce
  <2>2. LinkedOnce(await_qs)
    BY <1>2, <1>3, <1>9 DEF LinkedOnce
  <2> QED BY <1>8, <2>1, <2>2 DEF NodesLinkedOnce
<1>11. ReadyMatch
  BY <1>1, <1>4, <1>5, <1>8, <1>9 DEF ReadyMatch, NoTask, Tids
<1>12. SendersMatch /\ WaitersMatch /\ OwedMatch /\ ActiveMatch
  BY <1>2, <1>9 DEF SendersMatch, WaitersMatch, OwedMatch, ActiveMatch
<1>13. OwedOnce
  BY <1>9 DEF OwedOnce
<1>14. NoSleepingReceiver
  BY <1>1, <1>9 DEF NoSleepingReceiver
<1>15. TidsOfCreated
  BY <1>1, <1>9 DEF TidsOfCreated
<1> QED BY <1>0, <1>10, <1>11, <1>12, <1>13, <1>14, <1>15 DEF SafeInv, Consistent, QueuesMatchState

\* Every system call keeps the lists consistent.
LEMMA SafeCall == SafeInv /\ ~FreeReply /\ Call => Consistent'
<1> SUFFICES ASSUME SafeInv, ~FreeReply, Call PROVE Consistent'
  OBVIOUS
<1>0. TypeInv
  BY DEF SafeInv
<1>a. active \in Tids
  BY <1>0, SyscallTyped DEF Call, kernel_pass, kernel_mytid, kernel_parenttid, kernel_create, kernel_send,
     kernel_receive, kernel_reply, kernel_await_event, kernel_exit, Quit, kernel_panic
<1>1. CASE kernel_pass
  BY <1>1, <1>a, PutBackSafe DEF kernel_pass, ReturnsNow, ToDispatch, linkVars, msgVars, irqVars, history
<1>2. CASE kernel_mytid
  BY <1>2, <1>a, PutBackSafe DEF kernel_mytid, ReturnsNow, ToDispatch, linkVars, msgVars, irqVars, history
<1>3. CASE kernel_parenttid
  BY <1>3, <1>a, PutBackSafe DEF kernel_parenttid, ReturnsNow, ToDispatch, linkVars, msgVars, irqVars, history
<1>4. ASSUME NEW p \in CreatePriorities, kernel_create(p) PROVE Consistent'
  <2>0. active' = NoTask /\ await_qs' = await_qs
    BY <1>4 DEF kernel_create, ToDispatch, irqVars
  <2>1. CASE CreateFails(p)
    BY <2>0, <2>1, NothingMoves DEF CreateFails, schVars, msgVars, linkVars
  <2>2. CASE CreateSucceeds(p)
    BY <1>a, <2>0, <2>2, CreateSafe DEF CreateSucceeds
  <2> QED BY <1>4, <2>1, <2>2 DEF kernel_create
<1>5. ASSUME NEW to \in Tids, NEW len \in Lens, NEW rlen \in Lens, kernel_send(to, len, rlen) PROVE Consistent'
  <2>0. active' = NoTask /\ await_qs' = await_qs /\ UNCHANGED tdVars
    BY <1>5 DEF kernel_send, ToDispatch, irqVars
  <2>1. CASE SendRejected(to, len)
    BY <1>a, <2>0, <2>1, PutBackSafe DEF SendRejected, ReturnsNow, msgVars, linkVars
  <2>2. CASE SendDelivers(to, len, rlen)
    BY <1>a, <2>0, <2>2, DeliverSafe DEF SendDelivers, WaitsForMessage
  <2>3. CASE SendQueues(to, len, rlen)
    BY <1>a, <2>0, <2>3, QueueSafe DEF SendQueues, WaitsForMessage, BlocksCaller, schVars
  <2> QED BY <1>5, <2>1, <2>2, <2>3 DEF kernel_send
<1>6. ASSUME NEW len \in Lens, kernel_receive(len) PROVE Consistent'
  <2>0. active' = NoTask /\ await_qs' = await_qs /\ UNCHANGED tdVars
    BY <1>6 DEF kernel_receive, ToDispatch, irqVars
  <2>1. CASE ReceiveTakes(len)
    BY <1>a, <2>0, <2>1, TakeSafe DEF ReceiveTakes, TakenState
  <2>2. CASE ReceiveBlocks(len)
    BY <1>a, <2>0, <2>2, StopsSafe DEF ReceiveBlocks, BlocksCaller, schVars, linkVars
  <2> QED BY <1>6, <2>1, <2>2 DEF kernel_receive
<1>7. ASSUME NEW to \in Tids, NEW rlen \in Lens, kernel_reply(to, rlen) PROVE Consistent'
  <2>0. active' = NoTask /\ await_qs' = await_qs /\ send_q' = send_q /\ UNCHANGED tdVars
    BY <1>7 DEF kernel_reply, ToDispatch, irqVars, msgVars
  <2>1. CASE ReplyRejected(to, rlen)
    BY <1>a, <2>0, <2>1, PutBackSafe DEF ReplyRejected, ReturnsNow, linkVars
  <2>2. CASE ReplyWakes(to, rlen)
    <3>1. to \in owed[active]
      BY <1>7, <2>2 DEF kernel_reply, ReplyWakes
    <3> QED BY <1>a, <2>0, <2>2, <3>1, ReplySafe DEF ReplyWakes
  <2> QED BY <1>7, <2>1, <2>2 DEF kernel_reply
<1>8. ASSUME NEW e \in AwaitedEvents, kernel_await_event(e) PROVE Consistent'
  <2>0. active' = NoTask /\ send_q' = send_q /\ owed' = owed /\ UNCHANGED tdVars
    BY <1>8 DEF kernel_await_event, ToDispatch, msgVars, history
  <2>1. CASE AwaitRejected(e)
    BY <1>a, <2>0, <2>1, PutBackSafe DEF AwaitRejected, ReturnsNow, linkVars
  <2>2. CASE AwaitQueues(e)
    BY <1>a, <2>0, <2>2, AwaitSafe DEF AwaitQueues, BlocksCaller, schVars
  <2> QED BY <1>8, <2>1, <2>2 DEF kernel_await_event
<1>9. CASE kernel_exit
  BY <1>9, <1>a, StopsSafe DEF kernel_exit, ExitActive, schVars, msgVars, irqVars, history, linkVars
<1>10. CASE Quit
  BY <1>10, NothingMoves DEF Quit, schVars, msgVars, irqVars, history, linkVars
<1>11. CASE kernel_panic
  BY <1>11, NothingMoves DEF kernel_panic, ToDispatch, msgVars, irqVars, linkVars
<1> QED BY <1>1, <1>2, <1>3, <1>4, <1>5, <1>6, <1>7, <1>8, <1>9, <1>10, <1>11 DEF Call

\* So does every step.
LEMMA SafeStep == SafeInv /\ ~FreeReply /\ [Next]_vars => SafeInv'
<1> SUFFICES ASSUME SafeInv, ~FreeReply, [Next]_vars PROVE SafeInv'
  OBVIOUS
<1>0. TypeInv
  BY DEF SafeInv
<1>a. TypeInv'
  BY <1>0, TypeStep
<1>1. CASE Dispatch
  BY <1>1, <1>a, DispatchSafe DEF SafeInv
<1>2. CASE NoneReady
  BY <1>2, <1>a, NothingMoves DEF NoneReady, SafeInv, schVars, msgVars, irqVars, history, linkVars
<1>3. CASE Call
  BY <1>3, <1>a, SafeCall DEF SafeInv
<1>4. CASE IdleLeavesLoop
  BY <1>4, <1>a, NothingMoves DEF IdleLeavesLoop, SafeInv, schVars, msgVars, irqVars, history, linkVars
<1>5. CASE IdleExits
  <2>1. active \in Tids
    BY <1>0, <1>5, ActiveIsTask DEF IdleExits
  <2>2. Consistent'
    BY <1>5, <2>1, StopsSafe DEF IdleExits, ExitActive, schVars, msgVars, irqVars, history, linkVars
  <2> QED BY <1>a, <2>2 DEF SafeInv
<1>6. CASE Interrupt
  <2>1. \E e, val : TakeInterrupt(e, val)
    BY <1>6 DEF Interrupt, TimerInterrupt, ReceiveInterrupt, ModemInterrupt, TransmitInterrupt, UnexpectedInterrupt
  <2>2. Consistent'
    BY <2>1, NothingMoves DEF TakeInterrupt, msgVars, linkVars
  <2> QED BY <1>a, <2>2 DEF SafeInv
<1>7. CASE EventWake
  BY <1>7, <1>a, WakeSafe DEF SafeInv
<1>8. CASE EventDone
  <2>1. active \in Tids
    BY <1>0, <1>8, ActiveIsTask DEF EventDone
  <2>2. Consistent'
    BY <1>8, <2>1, PutBackSafe DEF EventDone, ToDispatch, msgVars, history, linkVars
  <2> QED BY <1>a, <2>2 DEF SafeInv
<1>9. CASE UNCHANGED vars
  BY <1>9, <1>a, NothingMoves DEF vars, SafeInv, schVars, msgVars, irqVars, history, linkVars
<1> QED BY <1>1, <1>2, <1>3, <1>4, <1>5, <1>6, <1>7, <1>8, <1>9 DEF Next, Stopped

\* As long as tasks reply only to tasks they owe a reply, no list node of a task
\* descriptor is ever put while it is linked (queue_put would cut the list).
THEOREM NodesStayLinkedOnce == ASSUME ~FreeReply PROVE Spec => []NodesLinkedOnce
<1>1. SafeInv /\ [Next]_vars => SafeInv'
  BY SafeStep
<1>2. SafeInv => NodesLinkedOnce
  BY DEF SafeInv, Consistent
<1> QED BY <1>1, <1>2, SafeInit, PTL DEF Spec

\* Under the same assumption a task is in a list only in the state the list is for,
\* so that every put of the system calls and of the interrupt handler finds the node
\* unlinked; this is what makes the argument inductive.
THEOREM QueuesAlwaysMatchState == ASSUME ~FreeReply PROVE Spec => []QueuesMatchState
<1>1. SafeInv /\ [Next]_vars => SafeInv'
  BY SafeStep
<1>2. SafeInv => QueuesMatchState
  BY DEF SafeInv, Consistent
<1> QED BY <1>1, <1>2, SafeInit, PTL DEF Spec

\* kernel_send and kernel_receive meet in either order: a receiver never sleeps
\* while a sender is queued for it, and every sender whose message was received is
\* owed its reply by one task only.
THEOREM RendezvousNeverMissed == ASSUME ~FreeReply PROVE Spec => [](NoSleepingReceiver /\ OwedOnce)
<1>1. SafeInv /\ [Next]_vars => SafeInv'
  BY SafeStep
<1>2. SafeInv => NoSleepingReceiver /\ OwedOnce
  BY DEF SafeInv, Consistent
<1> QED BY <1>1, <1>2, SafeInit, PTL DEF Spec

-----------------------------------------------------------------------------
(***************************************************************************)
(* Send blocks until the reply.                                            *)
(***************************************************************************)

\* The task t stays blocked, or is woken by the reply it waits for.
WokenByReply(t) ==
    /\ state[t] \in {"RECEIVE_BLOCKED", "REPLY_BLOCKED"}
    /\ state'[t] \notin {"RECEIVE_BLOCKED", "REPLY_BLOCKED"}
    => active # NoTask /\ t \in owed[active] /\ state'[t] = "READY" /\ ret'[t] = 0

\* No other step wakes a task in Send: the other puts are of the active task, of a
\* new task, of a receiver that waits in Receive, and of a task that awaits an event.
LEMMA SendStep ==
    ASSUME SafeInv, ~FreeReply, [Next]_vars, NEW t \in Created
    PROVE  WokenByReply(t)
<1>0. TypeInv /\ t \in Tids /\ state \in [Tids -> TaskStates]
  BY CreatedAreTids, ConsistentNow DEF SafeInv
<1> SUFFICES ASSUME state[t] \in {"RECEIVE_BLOCKED", "REPLY_BLOCKED"} PROVE WokenByReply(t)
  BY DEF WokenByReply
<1>a. t # active
  BY <1>0, CallerFacts
<1>b. state'[t] \in {"RECEIVE_BLOCKED", "REPLY_BLOCKED"} => WokenByReply(t)
  BY DEF WokenByReply
<1>c. scheduler_put(active) => state'[t] = state[t]
  BY <1>0, <1>a DEF scheduler_put
<1>d. \A s : BlocksCaller(s) => state'[t] = state[t]
  BY <1>0, <1>a DEF BlocksCaller
<1>1. CASE Dispatch \/ NoneReady \/ IdleLeavesLoop \/ Quit \/ kernel_panic \/ UNCHANGED vars
  BY <1>1, <1>b DEF Dispatch, NoneReady, IdleLeavesLoop, Quit, kernel_panic, vars
<1>2. CASE kernel_pass \/ kernel_mytid \/ kernel_parenttid
  BY <1>2, <1>b, <1>c DEF kernel_pass, kernel_mytid, kernel_parenttid, ReturnsNow
<1>3. ASSUME NEW p \in CreatePriorities, kernel_create(p) PROVE WokenByReply(t)
  <2>1. t # next_free_td
    BY <1>0 DEF Created, TypeInv, TypeOK
  <2>2. state'[t] = state[t]
    BY <1>0, <1>3, <1>a, <2>1 DEF kernel_create, CreateFails, CreateSucceeds, PutThenActive
  <2> QED BY <1>b, <2>2
<1>4. ASSUME NEW to \in Tids, NEW len \in Lens, NEW rlen \in Lens, kernel_send(to, len, rlen)
      PROVE  WokenByReply(t)
  <2>1. CASE SendRejected(to, len)
    BY <1>b, <1>c, <2>1 DEF SendRejected, ReturnsNow
  <2>2. CASE SendDelivers(to, len, rlen)
    <3>1. t # to
      BY <2>2 DEF SendDelivers, WaitsForMessage
    <3>2. state'[t] = state[t]
      BY <1>0, <1>a, <2>2, <3>1 DEF SendDelivers
    <3> QED BY <1>b, <3>2
  <2>3. CASE SendQueues(to, len, rlen)
    BY <1>b, <1>d, <2>3 DEF SendQueues
  <2> QED BY <1>4, <2>1, <2>2, <2>3 DEF kernel_send
<1>5. ASSUME NEW len \in Lens, kernel_receive(len) PROVE WokenByReply(t)
  <2>1. CASE ReceiveTakes(len)
    <3>1. state'[t] \in {state[t], "REPLY_BLOCKED"}
      BY <1>0, <1>a, <2>1 DEF ReceiveTakes, TakenState
    <3> QED BY <1>b, <3>1
  <2>2. CASE ReceiveBlocks(len)
    BY <1>b, <1>d, <2>2 DEF ReceiveBlocks
  <2> QED BY <1>5, <2>1, <2>2 DEF kernel_receive
<1>6. ASSUME NEW to \in Tids, NEW rlen \in Lens, kernel_reply(to, rlen) PROVE WokenByReply(t)
  <2>0. active \in Tids
    BY <1>0, <1>6, SyscallTyped DEF kernel_reply
  <2>1. CASE ReplyRejected(to, rlen)
    BY <1>b, <1>c, <2>1 DEF ReplyRejected, ReturnsNow
  <2>2. CASE ReplyWakes(to, rlen)
    <3>1. to \in owed[active] /\ active # NoTask
      BY <1>6, <2>0, <2>2 DEF kernel_reply, ReplyWakes, Tids, NoTask
    <3>2. CASE t = to
      <4>1. state'[t] = "READY" /\ ret'[t] = 0
        BY <1>0, <1>a, <2>2, <3>2 DEF ReplyWakes, PutThenActive, TypeInv, TypeOK
      <4> QED BY <3>1, <3>2, <4>1 DEF WokenByReply
    <3>3. CASE t # to
      <4>1. state'[t] = state[t]
        BY <1>0, <1>a, <2>2, <3>3 DEF ReplyWakes, PutThenActive
      <4> QED BY <1>b, <4>1
    <3> QED BY <3>2, <3>3
  <2> QED BY <1>6, <2>1, <2>2 DEF kernel_reply
<1>7. ASSUME NEW e \in AwaitedEvents, kernel_await_event(e) PROVE WokenByReply(t)
  BY <1>7, <1>b, <1>c, <1>d DEF kernel_await_event, AwaitRejected, AwaitQueues, ReturnsNow
<1>8. CASE kernel_exit \/ IdleExits
  <2>1. state'[t] = state[t]
    BY <1>0, <1>8, <1>a DEF kernel_exit, IdleExits, ExitActive
  <2> QED BY <1>b, <2>1
<1>9. CASE Interrupt
  <2>1. \E e, val : TakeInterrupt(e, val)
    BY <1>9 DEF Interrupt, TimerInterrupt, ReceiveInterrupt, ModemInterrupt, TransmitInterrupt, UnexpectedInterrupt
  <2> QED BY <1>b, <2>1 DEF TakeInterrupt
<1>10. CASE EventWake
  <2>1. event \in Events /\ await_qs[event] # <<>>
    BY <1>0, <1>10 DEF EventWake, TypeInv, TypeOK
  <2>2. Head(await_qs[event]) \in Tids /\ In(await_qs[event], Head(await_qs[event]))
    BY <2>1, ConsistentNow, FamilyGet
  <2>3. t # Head(await_qs[event])
    BY <2>1, <2>2, ConsistentNow DEF WaitersMatch
  <2>4. state'[t] = state[t]
    BY <1>0, <1>10, <2>3 DEF EventWake, scheduler_put
  <2> QED BY <1>b, <2>4
<1>11. CASE EventDone
  BY <1>11, <1>b, <1>c DEF EventDone
<1> QED BY <1>1, <1>2, <1>3, <1>4, <1>5, <1>6, <1>7, <1>8, <1>9, <1>10, <1>11 DEF Next, Stopped, Call

\* A task in Send runs again only after the task that received its message has
\* replied, and Send then returns 0.
THEOREM SendAlwaysBlocksUntilReply == ASSUME ~FreeReply PROVE Spec => SendBlocksUntilReply
<1>1. SafeInv /\ [Next]_vars => SafeInv'
  BY SafeStep
<1>2. SafeInv /\ [Next]_vars => [\A t \in Created : WokenByReply(t)]_vars
  BY SendStep
<1>3. SafeInv /\ [Next]_vars =>
        [\A t \in Created :
          /\ state[t] \in {"RECEIVE_BLOCKED", "REPLY_BLOCKED"}
          /\ state'[t] \notin {"RECEIVE_BLOCKED", "REPLY_BLOCKED"}
          => active # NoTask /\ t \in owed[active] /\ state'[t] = "READY" /\ ret'[t] = 0]_vars
  BY <1>2 DEF WokenByReply
<1> QED BY <1>1, <1>3, SafeInit, PTL DEF Spec, SendBlocksUntilReply

-----------------------------------------------------------------------------
(***************************************************************************)
(* The bitmap names every queue that holds a task, so the best task runs.  *)
(***************************************************************************)

\* scheduler_put sets the bit of the queue it fills.
LEMMA PutCovers ==
    ASSUME NEW bm, NEW qs \in [Priorities -> Seq(Tids)], NEW pr \in Priorities, NEW t,
           \A p \in Priorities : qs[p] # <<>> => p \in bm
    PROVE  /\ Enqueue(qs, pr, t) = [qs EXCEPT ![pr] = Append(@, t)]
           /\ \A p \in Priorities : Enqueue(qs, pr, t)[p] # <<>> => p \in PutBit(bm, pr)
  BY DEF Enqueue, PutBit

\* Short of a panic the bitmap covers the queues.
Covers == \A p \in Priorities : priority_qs[p] # <<>> => p \in bitmap

\* Two puts cover as well.
LEMMA PutTwoCovers ==
    ASSUME TypeInv, Covers, active \in Tids, NEW t \in Tids, NEW pt \in Priorities, PutThenActive(t, pt)
    PROVE  Covers'
<1>1. priority_qs \in [Priorities -> Seq(Tids)] /\ priority[active] \in Priorities
  BY DEF TypeInv, TypeOK
<1> DEFINE q1 == Enqueue(priority_qs, pt, t)
<1>2. q1 \in [Priorities -> Seq(Tids)]
  <2>1. Append(priority_qs[pt], t) \in Seq(Tids)
    BY <1>1, AppendProperties
  <2> QED BY <1>1, <2>1 DEF Enqueue
<1>3. \A p \in Priorities : q1[p] # <<>> => p \in PutBit(bitmap, pt)
  BY <1>1, PutCovers DEF Covers
<1> HIDE DEF q1
<1>4. \A p \in Priorities : Enqueue(q1, priority[active], active)[p] # <<>>
                            => p \in PutBit(PutBit(bitmap, pt), priority[active])
  BY <1>1, <1>2, <1>3, PutCovers
<1> QED BY <1>4 DEF PutThenActive, Covers, q1

\* One put, of any task.
LEMMA PutOneCovers ==
    ASSUME TypeInv, Covers, NEW t \in Tids,
           bitmap' = PutBit(bitmap, priority[t]),
           priority_qs' = Enqueue(priority_qs, priority[t], t)
    PROVE  Covers'
<1>1. priority_qs \in [Priorities -> Seq(Tids)] /\ priority[t] \in Priorities
  BY DEF TypeInv, TypeOK
<1> QED BY <1>1, PutCovers DEF Covers

\* scheduler_get clears the bit only of a queue it empties, and the task it returns
\* is from the first queue that holds one.
LEMMA GetCovers ==
    ASSUME TypeInv, Covers, Dispatch
    PROVE  /\ Covers' /\ bitmap_leadingzeroes(bitmap) \in Priorities
           /\ priority_qs[bitmap_leadingzeroes(bitmap)] # <<>>
           /\ \A p \in Priorities : priority_qs'[p] # <<>> => bitmap_leadingzeroes(bitmap) <= p
<1> DEFINE idx == bitmap_leadingzeroes(bitmap)
<1>1. bitmap \in SUBSET (0 .. WordSize - 1) /\ bitmap # {}
  <2>1. Priorities \subseteq 0 .. WordSize - 1
    BY KernelAssumption DEF Priorities, WordSize
  <2>2. bitmap # {}
    BY DEF Dispatch, scheduler_empty
  <2>3. bitmap \subseteq Priorities
    BY DEF TypeInv, TypeOK
  <2> QED BY <2>1, <2>2, <2>3
<1>2. idx \in bitmap /\ \A i \in bitmap : idx <= i
  BY <1>1, LowestBit
<1>3. /\ priority_qs' = [priority_qs EXCEPT ![idx] = Tail(@)]
      /\ bitmap' = IF Len(priority_qs[idx]) = 1 THEN bitmap \ {idx} ELSE bitmap
  BY DEF Dispatch, GetReady, Dequeue, GetBit
<1> HIDE DEF idx
<1>4. /\ idx \in Priorities /\ priority_qs[idx] \in Seq(Tids) /\ priority_qs[idx] # <<>>
      /\ priority_qs \in [Priorities -> Seq(Tids)]
  BY <1>2 DEF TypeInv, TypeOK, BitmapSound
<1>5. Len(priority_qs[idx]) = 1 => Tail(priority_qs[idx]) = <<>>
  BY <1>4, TailEmpty
<1>6. /\ priority_qs'[idx] = Tail(priority_qs[idx])
      /\ \A p \in Priorities : p # idx => priority_qs'[p] = priority_qs[p]
  BY <1>3, <1>4
<1>7. Covers'
  BY <1>2, <1>3, <1>4, <1>5, <1>6 DEF Covers
<1>8. \A p \in Priorities : priority_qs'[p] # <<>> => idx <= p
  BY <1>2, <1>4, <1>6 DEF Covers
<1> QED BY <1>4, <1>7, <1>8 DEF idx

\* Every step short of a panic keeps the bitmap complete.
LEMMA CoversStep ==
    ASSUME TypeInv, Covers, [Next]_vars, ~panicked'
    PROVE  Covers'
<1>1. CASE Dispatch
  BY <1>1, GetCovers
<1>2. CASE UNCHANGED <<bitmap, priority_qs>>
  BY <1>2 DEF Covers
<1>3. CASE scheduler_put(active) /\ kpc \in {"user", "event"}
  BY <1>3, ActiveIsTask, PutOneCovers DEF scheduler_put
<1>4. ASSUME NEW p \in CreatePriorities, kernel_create(p) PROVE Covers'
  <2>1. CASE CreateFails(p)
    BY <1>2, <2>1 DEF CreateFails, schVars
  <2>2. CASE CreateSucceeds(p)
    <3>1. active \in Tids
      BY <1>4, SyscallTyped DEF kernel_create
    <3>2. next_free_td \in Tids
      BY <2>2, KernelAssumption DEF CreateSucceeds, TableFull, TypeInv, TypeOK, Tids
    <3> QED BY <2>2, <3>1, <3>2, PutTwoCovers DEF CreateSucceeds
  <2> QED BY <1>4, <2>1, <2>2 DEF kernel_create
<1>5. ASSUME NEW to \in Tids, NEW len \in Lens, NEW rlen \in Lens, kernel_send(to, len, rlen) PROVE Covers'
  <2>1. CASE SendRejected(to, len)
    BY <1>3, <1>5, <2>1 DEF kernel_send, Syscall, SendRejected, ReturnsNow
  <2>2. CASE SendDelivers(to, len, rlen)
    BY <2>2, PutOneCovers DEF SendDelivers, SendReadies
  <2>3. CASE SendQueues(to, len, rlen)
    BY <1>2, <2>3 DEF SendQueues, BlocksCaller, schVars
  <2> QED BY <1>5, <2>1, <2>2, <2>3 DEF kernel_send
<1>6. ASSUME NEW len \in Lens, kernel_receive(len) PROVE Covers'
  <2>1. CASE ReceiveTakes(len)
    <3>1. active \in Tids
      BY <1>6, SyscallTyped DEF kernel_receive
    <3> QED BY <2>1, <3>1, PutOneCovers DEF ReceiveTakes
  <2>2. CASE ReceiveBlocks(len)
    BY <1>2, <2>2 DEF ReceiveBlocks, BlocksCaller, schVars
  <2> QED BY <1>6, <2>1, <2>2 DEF kernel_receive
<1>7. ASSUME NEW to \in Tids, NEW rlen \in Lens, kernel_reply(to, rlen) PROVE Covers'
  <2>1. CASE ReplyRejected(to, rlen)
    BY <1>3, <1>7, <2>1 DEF kernel_reply, Syscall, ReplyRejected, ReturnsNow
  <2>2. CASE ReplyWakes(to, rlen)
    <3>1. active \in Tids /\ priority[to] \in Priorities
      BY <1>7, SyscallTyped DEF kernel_reply, TypeInv, TypeOK
    <3> QED BY <2>2, <3>1, PutTwoCovers DEF ReplyWakes
  <2> QED BY <1>7, <2>1, <2>2 DEF kernel_reply
<1>8. ASSUME NEW e \in AwaitedEvents, kernel_await_event(e) PROVE Covers'
  BY <1>2, <1>3, <1>8 DEF kernel_await_event, Syscall, AwaitRejected, AwaitQueues, ReturnsNow, BlocksCaller, schVars
<1>9. CASE kernel_pass \/ kernel_mytid \/ kernel_parenttid
  BY <1>3, <1>9 DEF kernel_pass, kernel_mytid, kernel_parenttid, Syscall, ReturnsNow
<1>10. CASE NoneReady \/ Stopped \/ Quit \/ kernel_exit \/ IdleExits \/ IdleLeavesLoop \/ UNCHANGED vars
  BY <1>2, <1>10 DEF NoneReady, Stopped, Quit, kernel_exit, IdleExits, IdleLeavesLoop, ExitActive, vars, schVars
<1>11. CASE kernel_panic
  BY <1>11 DEF kernel_panic
<1>12. CASE Interrupt
  BY <1>2, <1>12 DEF Interrupt, TimerInterrupt, ReceiveInterrupt, ModemInterrupt, TransmitInterrupt,
     UnexpectedInterrupt, TakeInterrupt
<1>13. CASE EventWake
  <2>1. event \in Events /\ await_qs[event] \in Seq(Tids) /\ await_qs[event] # <<>>
    BY <1>13 DEF EventWake, TypeInv, TypeOK
  <2>2. Head(await_qs[event]) \in Tids
    BY <2>1, HeadTailProperties
  <2> QED BY <1>13, <2>2, PutOneCovers DEF EventWake, scheduler_put
<1>14. CASE EventDone
  BY <1>3, <1>14 DEF EventDone
<1> QED BY <1>1, <1>4, <1>5, <1>6, <1>7, <1>8, <1>9, <1>10, <1>11, <1>12, <1>13, <1>14 DEF Next, Call

\* panicked is never reset.
LEMMA PanicStays == panicked /\ [Next]_vars => panicked'
<1> SUFFICES ASSUME panicked, [Next]_vars PROVE panicked'
  OBVIOUS
<1>1. CASE Call
  BY <1>1 DEF Call, kernel_pass, kernel_mytid, kernel_parenttid, kernel_create, CreateFails, CreateSucceeds,
     kernel_send, kernel_receive, kernel_reply, kernel_await_event, kernel_exit, ExitActive, Quit, kernel_panic, history
<1>2. CASE Interrupt
  BY <1>2 DEF Interrupt, TimerInterrupt, ReceiveInterrupt, ModemInterrupt, TransmitInterrupt, UnexpectedInterrupt
<1> QED BY <1>1, <1>2 DEF Next, Dispatch, NoneReady, Stopped, IdleLeavesLoop, IdleExits, ExitActive,
        EventWake, EventDone, vars, history

\* The bitmap is exact whatever the tasks call, double replies included.
THEOREM BitmapStaysExact == Spec => []BitmapExact
<1> DEFINE Inv == TypeInv /\ (~panicked => Covers)
<1>1. Init => Inv
  <2>1. Init => Covers
    <3> SUFFICES ASSUME Init PROVE Covers
      OBVIOUS
    <3>1. UserPriority \in Priorities /\ IdlePriority \in Priorities
      BY KernelAssumption DEF Priorities, WordSize
    <3>2. /\ bitmap = {UserPriority, IdlePriority}
          /\ \A p \in Priorities : p \notin {UserPriority, IdlePriority} => priority_qs[p] = <<>>
      BY <3>1 DEF Init, PutBit, Enqueue
    <3> QED BY <3>2 DEF Covers
  <2> QED BY <2>1, TypeInit
<1>2. Inv /\ [Next]_vars => Inv'
  BY TypeStep, CoversStep, PanicStays
<1>3. Inv => BitmapExact
  BY DEF TypeInv, BitmapSound, BitmapExact, Covers
<1> HIDE DEF Inv
<1> QED BY <1>1, <1>2, <1>3, PTL DEF Spec

\* The invariant of the next theorem.
RunsInv == SafeInv /\ (~panicked => Covers) /\ HighestPriorityRuns

\* Dispatch establishes HighestPriorityRuns, and the queues do not change while a
\* task runs.
LEMMA RunsStep ==
    ASSUME RunsInv, ~FreeReply, [Next]_vars, ~panicked'
    PROVE  HighestPriorityRuns'
<1>0. SafeInv /\ TypeInv /\ Covers /\ ~panicked /\ HighestPriorityRuns
  BY PanicStays DEF RunsInv, SafeInv
<1>1. CASE Dispatch
  <2> DEFINE idx == bitmap_leadingzeroes(bitmap)
  <2>1. /\ idx \in Priorities /\ priority_qs[idx] # <<>>
        /\ \A p \in Priorities : priority_qs'[p] # <<>> => idx <= p
    BY <1>0, <1>1, GetCovers
  <2>2. active' = Head(priority_qs[idx]) /\ priority' = priority
    BY <1>1 DEF Dispatch, NextReady, tdVars
  <2> HIDE DEF idx
  <2>3. Head(priority_qs[idx]) \in Tids /\ In(priority_qs[idx], Head(priority_qs[idx]))
    <3>1. priority_qs \in [Priorities -> Seq(Tids)] /\ LinkedOnce(priority_qs)
      BY <1>0, ConsistentNow
    <3> QED BY <2>1, <3>1, FamilyGet
  <2>4. priority[Head(priority_qs[idx])] = idx
    BY <1>0, <2>1, <2>3, ConsistentNow DEF ReadyMatch
  <2> QED BY <2>1, <2>2, <2>4 DEF HighestPriorityRuns
<1>2. CASE IdleLeavesLoop \/ UNCHANGED vars
  <2>1. UNCHANGED <<priority_qs, priority, active, kpc>>
    BY <1>2 DEF IdleLeavesLoop, vars, schVars, tdVars
  <2> QED BY <1>0, <2>1 DEF HighestPriorityRuns
<1>3. CASE ~(Dispatch \/ IdleLeavesLoop \/ UNCHANGED vars)
  <2>1. kpc' # "user"
    <3>1. CASE Call
      BY <3>1 DEF Call, kernel_pass, kernel_mytid, kernel_parenttid, kernel_create, kernel_send,
         kernel_receive, kernel_reply, kernel_await_event, kernel_exit, ExitActive, Quit, kernel_panic, ToDispatch
    <3>2. CASE Interrupt
      BY <3>2 DEF Interrupt, TimerInterrupt, ReceiveInterrupt, ModemInterrupt, TransmitInterrupt,
         UnexpectedInterrupt, TakeInterrupt
    <3> QED BY <1>3, <3>1, <3>2 DEF Next, NoneReady, Stopped, IdleExits, ExitActive, EventWake, EventDone, ToDispatch
  <2> QED BY <2>1 DEF HighestPriorityRuns
<1> QED BY <1>1, <1>2, <1>3

\* The running task has the best priority of all tasks in the ready queues.
THEOREM BestQueuedTaskRuns == ASSUME ~FreeReply PROVE Spec => []HighestPriorityRuns
<1>1. Init => HighestPriorityRuns
  BY DEF Init, HighestPriorityRuns
<1>2. Spec => []SafeInv
  <2>1. SafeInv /\ [Next]_vars => SafeInv'
    BY SafeStep
  <2> QED BY <2>1, SafeInit, PTL DEF Spec
<1>3. Spec => []BitmapExact
  BY BitmapStaysExact
<1>4. SafeInv /\ BitmapExact /\ HighestPriorityRuns /\ [Next]_vars => HighestPriorityRuns'
  <2>1. CASE ~panicked'
    BY <2>1, RunsStep DEF RunsInv, BitmapExact, Covers
  <2>2. CASE panicked'
    BY <2>2 DEF HighestPriorityRuns
  <2> QED BY <2>1, <2>2
<1> QED BY <1>1, <1>2, <1>3, <1>4, PTL DEF Spec

-----------------------------------------------------------------------------
(***************************************************************************)
(* No task is forgotten.                                                   *)
(***************************************************************************)

\* Some later step of the kernel finds the task t.
Located(t) ==
    /\ state[t] = "READY" => t = active \/ Linked(priority_qs, t)
    /\ state[t] = "RECEIVE_BLOCKED" => Linked(send_q, t)
    /\ state[t] = "EVENT_BLOCKED" => Linked(await_qs, t)
    /\ state[t] = "REPLY_BLOCKED" => \E r \in Tids : t \in owed[r]

\* No task has sent to a task that does not exist yet: Create resets its send_q.
UnusedQueuesEmpty == \A r \in Tids : r \notin Created => send_q[r] = <<>>

FoundInv == UnusedQueuesEmpty /\ NoneForgotten

\* A put links its task and unlinks no other.
LEMMA LinkedPut ==
    ASSUME NEW K, NEW qs \in [K -> Seq(Tids)], NEW k \in K, NEW t \in Tids
    PROVE  /\ Linked(Enqueue(qs, k, t), t)
           /\ \A x : Linked(qs, x) => Linked(Enqueue(qs, k, t), x)
           /\ Enqueue(qs, k, t) \in [K -> Seq(Tids)]
<1> DEFINE new == Enqueue(qs, k, t)
<1>1. /\ DOMAIN new = K /\ DOMAIN qs = K
      /\ \A j \in K : new[j] = IF j = k THEN Append(qs[k], t) ELSE qs[j]
  BY DEF Enqueue
<1>2. \A x : In(Append(qs[k], t), x) <=> In(qs[k], x) \/ x = t
  BY AppendIn
<1>3. new \in [K -> Seq(Tids)]
  <2>1. Append(qs[k], t) \in Seq(Tids)
    BY AppendProperties
  <2> QED BY <2>1 DEF Enqueue
<1> HIDE DEF new
<1>4. Linked(new, t) /\ \A x : Linked(qs, x) => Linked(new, x)
  BY <1>1, <1>2 DEF Linked
<1> QED BY <1>3, <1>4 DEF new

\* A get unlinks the front only.
LEMMA LinkedGet ==
    ASSUME NEW K, NEW qs \in [K -> Seq(Tids)], NEW k \in K, qs[k] # <<>>, LinkedOnce(qs),
           NEW x \in Tids, x # Head(qs[k]), Linked(qs, x)
    PROVE  Linked(Dequeue(qs, k), x)
<1>1. \A j \in K : In(Dequeue(qs, k)[j], x) <=> In(qs[j], x) /\ x # Head(qs[k])
  BY FamilyGet
<1>2. DOMAIN Dequeue(qs, k) = K /\ DOMAIN qs = K
  BY DEF Dequeue
<1> QED BY <1>1, <1>2 DEF Linked

\* A task that keeps its state and its place.
LEMMA LocatedKept ==
    ASSUME NEW x, x # active, Located(x), state'[x] = state[x],
           Linked(priority_qs, x) => Linked(priority_qs', x),
           Linked(send_q, x) => Linked(send_q', x),
           Linked(await_qs, x) => Linked(await_qs', x),
           (\E r \in Tids : x \in owed[r]) => \E r \in Tids : x \in owed'[r]
    PROVE  Located(x)'
  BY DEF Located, Linked

\* A READY task in a ready queue.
LEMMA LocatedReady ==
    ASSUME NEW x, state'[x] = "READY", Linked(priority_qs', x)
    PROVE  Located(x)'
  BY DEF Located, Linked

\* The caller or the interrupted task is put back.
LEMMA LocatedPutBack ==
    ASSUME SafeInv, active \in Tids, scheduler_put(active), UNCHANGED linkVars,
           NEW x \in Created, Located(x)
    PROVE  Located(x)'
<1>0. x \in Tids /\ priority[active] \in Priorities /\ state \in [Tids -> TaskStates]
  BY CreatedAreTids, CallerFacts, ConsistentNow DEF SafeInv
<1>1. /\ Linked(priority_qs', active) /\ state'[active] = "READY"
      /\ Linked(priority_qs, x) => Linked(priority_qs', x)
      /\ x # active => state'[x] = state[x]
  <2>1. priority_qs \in [Priorities -> Seq(Tids)]
    BY ConsistentNow
  <2> QED BY <1>0, <2>1, LinkedPut DEF scheduler_put
<1>2. CASE x = active
  BY <1>1, <1>2, LocatedReady
<1>3. CASE x # active
  BY <1>1, <1>3, LocatedKept DEF linkVars
<1> QED BY <1>2, <1>3

\* Two tasks are put.
LEMMA LocatedPutTwo ==
    ASSUME SafeInv, active \in Tids, NEW t \in Tids, NEW pt \in Priorities, PutThenActive(t, pt),
           NEW x \in Tids
    PROVE  /\ x \in {t, active} => state'[x] = "READY" /\ Linked(priority_qs', x)
           /\ x \notin {t, active} => state'[x] = state[x]
           /\ Linked(priority_qs, x) => Linked(priority_qs', x)
<1> DEFINE q1 == Enqueue(priority_qs, pt, t)
<1>1. priority[active] \in Priorities /\ state \in [Tids -> TaskStates] /\ priority_qs \in [Priorities -> Seq(Tids)]
  BY CallerFacts, ConsistentNow
<1>2. /\ Linked(q1, t) /\ q1 \in [Priorities -> Seq(Tids)]
      /\ Linked(priority_qs, x) => Linked(q1, x)
  BY <1>1, LinkedPut
<1>3. priority_qs' = Enqueue(q1, priority[active], active)
  BY DEF PutThenActive
<1> HIDE DEF q1
<1>4. /\ Linked(priority_qs', active) /\ Linked(priority_qs', t)
      /\ Linked(priority_qs, x) => Linked(priority_qs', x)
  BY <1>1, <1>2, <1>3, LinkedPut
<1>5. /\ x \in {t, active} => state'[x] = "READY"
      /\ x \notin {t, active} => state'[x] = state[x]
  BY <1>1 DEF PutThenActive
<1> QED BY <1>4, <1>5

\* The caller leaves the processor in a state in which it is found, and no other
\* task moves.
LEMMA LocatedBlocks ==
    ASSUME NEW x, Located(x), UNCHANGED <<priority_qs, owed>>,
           \/ state'[active] \in {"EXITED", "SEND_BLOCKED"}
           \/ state'[active] = "RECEIVE_BLOCKED" /\ Linked(send_q', active)
           \/ state'[active] = "EVENT_BLOCKED" /\ Linked(await_qs', active),
           x # active => state'[x] = state[x],
           Linked(send_q, x) => Linked(send_q', x),
           Linked(await_qs, x) => Linked(await_qs', x)
    PROVE  Located(x)'
<1>1. CASE x = active
  BY <1>1 DEF Located, Linked
<1>2. CASE x # active
  BY <1>2, LocatedKept
<1> QED BY <1>1, <1>2

\* Steps that move no task.
LEMMA LocatedStays ==
    ASSUME NEW x, Located(x), UNCHANGED <<priority_qs, state, linkVars>>,
           x = active => active' = active \/ state[x] \notin {"READY"}
    PROVE  Located(x)'
  BY DEF Located, Linked, linkVars

\* Create.
LEMMA LocatedCreate ==
    ASSUME SafeInv, NEW p, kernel_create(p), UnusedQueuesEmpty,
           \A t \in Created \ lost : Located(t), NEW x \in Created' \ lost'
    PROVE  Located(x)'
<1>0. active \in Tids /\ active' = NoTask /\ await_qs' = await_qs
  BY SyscallTyped DEF SafeInv, kernel_create, ToDispatch, irqVars
<1>1. CASE CreateFails(p)
  <2>1. UNCHANGED <<priority_qs, state, linkVars>> /\ x \in Created \ lost /\ x # active
    BY <1>0, <1>1 DEF CreateFails, schVars, tdVars, msgVars, linkVars, Created
  <2> QED BY <2>1, LocatedStays
<1>2. CASE CreateSucceeds(p)
  <2> DEFINE t == next_free_td
  <2>1. /\ t \in Tids /\ x \in Tids /\ t \notin Created /\ Created' = Created \cup {t}
        /\ p \in Priorities /\ PutThenActive(t, p) /\ owed' = owed /\ lost' = lost
        /\ send_q' = [send_q EXCEPT ![t] = <<>>]
    <3>1. t \in 2 .. MaxTasks /\ t < MaxTasks /\ t' = t + 1
      BY <1>2, KernelAssumption DEF SafeInv, TypeInv, TypeOK, CreateSucceeds, TableFull
    <3>2. t \in Tids /\ t \notin Created /\ Created' = Created \cup {t}
      BY <3>1, KernelAssumption DEF Created, Tids
    <3>3. Created \subseteq Tids
      BY CreatedAreTids DEF SafeInv
    <3> QED BY <1>2, <3>2, <3>3 DEF CreateSucceeds, history
  <2> HIDE DEF t
  <2>2. /\ x \in {t, active} => state'[x] = "READY" /\ Linked(priority_qs', x)
        /\ x \notin {t, active} => state'[x] = state[x]
        /\ Linked(priority_qs, x) => Linked(priority_qs', x)
    BY <1>0, <2>1, LocatedPutTwo
  <2>3. CASE x \in {t, active}
    BY <2>2, <2>3, LocatedReady
  <2>4. CASE x \notin {t, active}
    <3>1. Located(x)
      BY <2>1, <2>4
    <3>2. Linked(send_q, x) => Linked(send_q', x)
      <4>1. DOMAIN send_q = Tids /\ DOMAIN send_q' = Tids /\ \A r \in Tids : r # t => send_q'[r] = send_q[r]
        BY <2>1, ConsistentNow
      <4>2. ASSUME NEW r \in Tids, In(send_q[r], x) PROVE r # t
        <5>1. send_q[t] = <<>> /\ ~In(<<>>, x)
          BY <2>1 DEF UnusedQueuesEmpty, In
        <5> QED BY <4>2, <5>1
      <4> QED BY <4>1, <4>2 DEF Linked
    <3> QED BY <1>0, <2>1, <2>2, <2>4, <3>1, <3>2, LocatedKept
  <2> QED BY <2>3, <2>4
<1> QED BY <1>1, <1>2 DEF kernel_create

\* Send.
LEMMA LocatedSend ==
    ASSUME SafeInv, NEW to \in Tids, NEW len, NEW rlen, kernel_send(to, len, rlen),
           NEW x \in Created, Located(x)
    PROVE  Located(x)'
<1>0. active \in Tids /\ await_qs' = await_qs /\ x \in Tids
  BY SyscallTyped, CreatedAreTids DEF SafeInv, kernel_send, irqVars
<1>1. CASE SendRejected(to, len)
  BY <1>0, <1>1, LocatedPutBack DEF SendRejected, ReturnsNow, msgVars, linkVars
<1>2. CASE SendDelivers(to, len, rlen)
  <2>1. to # active
    BY <1>0, <1>2, CallerFacts DEF SendDelivers, WaitsForMessage
  <2>2. /\ state' = [state EXCEPT ![to] = "READY", ![active] = "REPLY_BLOCKED"]
        /\ owed' = [owed EXCEPT ![to] = @ \cup {active}] /\ send_q' = send_q
        /\ priority_qs' = Enqueue(priority_qs, priority[to], to)
    BY <1>2 DEF SendDelivers, SendReadies
  <2>3. /\ state \in [Tids -> TaskStates] /\ owed \in [Tids -> SUBSET Tids]
        /\ priority[to] \in Priorities /\ priority_qs \in [Priorities -> Seq(Tids)]
    BY ConsistentNow
  <2>4. /\ Linked(priority_qs', to) /\ state'[to] = "READY"
        /\ Linked(priority_qs, x) => Linked(priority_qs', x)
    BY <2>1, <2>2, <2>3, LinkedPut
  <2>5. CASE x = to
    BY <2>4, <2>5, LocatedReady
  <2>6. CASE x = active
    <3>1. state'[x] = "REPLY_BLOCKED" /\ x \in owed'[to]
      BY <1>0, <2>2, <2>3, <2>6
    <3> QED BY <3>1 DEF Located
  <2>7. CASE x \notin {to, active}
    <3>1. state'[x] = state[x]
      BY <1>0, <2>2, <2>3, <2>7
    <3>2. ASSUME NEW r \in Tids, x \in owed[r] PROVE x \in owed'[r]
      BY <2>2, <2>3, <3>2
    <3> QED BY <1>0, <2>2, <2>4, <2>7, <3>1, <3>2, LocatedKept
  <2> QED BY <2>5, <2>6, <2>7
<1>3. CASE SendQueues(to, len, rlen)
  <2>1. /\ send_q' = Enqueue(send_q, to, active) /\ state' = [state EXCEPT ![active] = "RECEIVE_BLOCKED"]
        /\ UNCHANGED <<priority_qs, owed>>
    BY <1>3 DEF SendQueues, BlocksCaller, schVars
  <2>2. Linked(send_q', active) /\ (Linked(send_q, x) => Linked(send_q', x))
    <3>1. send_q \in [Tids -> Seq(Tids)]
      BY ConsistentNow
    <3> QED BY <1>0, <2>1, <3>1, LinkedPut
  <2>3. state'[active] = "RECEIVE_BLOCKED" /\ (x # active => state'[x] = state[x])
    BY <1>0, <2>1, ConsistentNow
  <2> QED BY <1>0, <2>1, <2>2, <2>3, LocatedBlocks
<1> QED BY <1>1, <1>2, <1>3 DEF kernel_send

\* Receive: the sender that a size mismatch drops is counted as lost.
LEMMA LocatedReceive ==
    ASSUME SafeInv, NEW len, kernel_receive(len), NEW x \in Created, x \notin lost', Located(x)
    PROVE  Located(x)'
<1>0. active \in Tids /\ await_qs' = await_qs /\ x \in Tids
  BY SyscallTyped, CreatedAreTids DEF SafeInv, kernel_receive, irqVars
<1>1. CASE ReceiveTakes(len)
  <2> DEFINE sender == Head(send_q[active])
  <2>1. /\ send_q[active] # <<>> /\ send_q' = Dequeue(send_q, active)
        /\ priority_qs' = Enqueue(priority_qs, priority[active], active)
        /\ \/ /\ state' = [state EXCEPT ![active] = "READY"] /\ owed' = owed
              /\ sender \in lost'
           \/ /\ state' = [state EXCEPT ![active] = "READY", ![sender] = "REPLY_BLOCKED"]
              /\ owed' = [owed EXCEPT ![active] = @ \cup {sender}]
    BY <1>1 DEF ReceiveTakes, TakenState
  <2>2. /\ state \in [Tids -> TaskStates] /\ owed \in [Tids -> SUBSET Tids]
        /\ priority[active] \in Priorities /\ priority_qs \in [Priorities -> Seq(Tids)]
        /\ send_q \in [Tids -> Seq(Tids)] /\ LinkedOnce(send_q)
    BY <1>0, ConsistentNow, CallerFacts
  <2>3. sender \in Tids /\ In(send_q[active], sender)
    BY <1>0, <2>1, <2>2, FamilyGet
  <2> HIDE DEF sender
  <2>4. sender # active
    BY <1>0, <2>3, CallerFacts
  <2>5. /\ Linked(priority_qs', active) /\ state'[active] = "READY"
        /\ Linked(priority_qs, x) => Linked(priority_qs', x)
    <3>1. state'[active] = "READY"
      BY <1>0, <2>1, <2>2, <2>3, <2>4
    <3> QED BY <1>0, <2>1, <2>2, <3>1, LinkedPut
  <2>6. CASE x = active
    BY <2>5, <2>6, LocatedReady
  <2>7. CASE x = sender
    <3>1. state'[x] = "REPLY_BLOCKED" /\ x \in owed'[active]
      BY <1>0, <2>1, <2>2, <2>3, <2>7
    <3> QED BY <1>0, <3>1 DEF Located
  <2>8. CASE x \notin {sender, active}
    <3>1. state'[x] = state[x]
      BY <1>0, <2>1, <2>2, <2>3, <2>8
    <3>2. ASSUME NEW r \in Tids, x \in owed[r] PROVE x \in owed'[r]
      BY <1>0, <2>1, <2>2, <3>2
    <3>3. Linked(send_q, x) => Linked(send_q', x)
      BY <1>0, <2>1, <2>2, <2>8, LinkedGet DEF sender
    <3> QED BY <1>0, <2>5, <2>8, <3>1, <3>2, <3>3, LocatedKept
  <2> QED BY <2>6, <2>7, <2>8
<1>2. CASE ReceiveBlocks(len)
  <2>1. /\ state' = [state EXCEPT ![active] = "SEND_BLOCKED"]
        /\ UNCHANGED <<priority_qs, owed, send_q>>
    BY <1>2 DEF ReceiveBlocks, BlocksCaller, schVars
  <2>2. state'[active] = "SEND_BLOCKED" /\ (x # active => state'[x] = state[x])
    BY <1>0, <2>1, ConsistentNow
  <2> QED BY <1>0, <2>1, <2>2, LocatedBlocks
<1> QED BY <1>1, <1>2 DEF kernel_receive

\* Reply.
LEMMA LocatedReply ==
    ASSUME SafeInv, NEW to \in Tids, NEW rlen, kernel_reply(to, rlen), NEW x \in Created, Located(x)
    PROVE  Located(x)'
<1>0. active \in Tids /\ await_qs' = await_qs /\ send_q' = send_q /\ x \in Tids
  BY SyscallTyped, CreatedAreTids DEF SafeInv, kernel_reply, irqVars, msgVars
<1>1. CASE ReplyRejected(to, rlen)
  BY <1>0, <1>1, LocatedPutBack DEF ReplyRejected, ReturnsNow, linkVars
<1>2. CASE ReplyWakes(to, rlen)
  <2>1. owed \in [Tids -> SUBSET Tids] /\ priority[to] \in Priorities
    BY ConsistentNow
  <2>2. /\ x \in {to, active} => state'[x] = "READY" /\ Linked(priority_qs', x)
        /\ x \notin {to, active} => state'[x] = state[x]
        /\ Linked(priority_qs, x) => Linked(priority_qs', x)
    BY <1>0, <1>2, <2>1, LocatedPutTwo DEF ReplyWakes
  <2>3. CASE x \in {to, active}
    BY <2>2, <2>3, LocatedReady
  <2>4. CASE x \notin {to, active}
    <3>1. ASSUME NEW r \in Tids, x \in owed[r] PROVE x \in owed'[r]
      BY <1>2, <2>1, <2>4, <3>1 DEF ReplyWakes
    <3> QED BY <1>0, <2>2, <2>4, <3>1, LocatedKept
  <2> QED BY <2>3, <2>4
<1> QED BY <1>1, <1>2 DEF kernel_reply

\* AwaitEvent.
LEMMA LocatedAwait ==
    ASSUME SafeInv, NEW e, kernel_await_event(e), NEW x \in Created, Located(x)
    PROVE  Located(x)'
<1>0. active \in Tids /\ send_q' = send_q /\ owed' = owed
  BY SyscallTyped DEF SafeInv, kernel_await_event, msgVars, history
<1>1. CASE AwaitRejected(e)
  BY <1>0, <1>1, LocatedPutBack DEF AwaitRejected, ReturnsNow, linkVars
<1>2. CASE AwaitQueues(e)
  <2>1. /\ e \in Events /\ await_qs' = Enqueue(await_qs, e, active)
        /\ state' = [state EXCEPT ![active] = "EVENT_BLOCKED"] /\ priority_qs' = priority_qs
    BY <1>2 DEF AwaitQueues, BlocksCaller, schVars
  <2>2. Linked(await_qs', active) /\ (Linked(await_qs, x) => Linked(await_qs', x))
    <3>1. await_qs \in [Events -> Seq(Tids)]
      BY ConsistentNow
    <3> QED BY <1>0, <2>1, <3>1, LinkedPut
  <2>3. state'[active] = "EVENT_BLOCKED" /\ (x # active => state'[x] = state[x])
    BY <1>0, <2>1, CreatedAreTids, ConsistentNow DEF SafeInv
  <2> QED BY <1>0, <2>1, <2>2, <2>3, LocatedBlocks
<1> QED BY <1>1, <1>2 DEF kernel_await_event

\* scheduler_get: the task it takes becomes active.
LEMMA LocatedDispatch ==
    ASSUME SafeInv, Dispatch, NEW x \in Created, Located(x)
    PROVE  Located(x)'
<1> DEFINE idx == bitmap_leadingzeroes(bitmap)
<1>1. idx \in Priorities /\ priority_qs[idx] # <<>>
  <2>1. bitmap \in SUBSET (0 .. WordSize - 1) /\ bitmap # {}
    <3>1. Priorities \subseteq 0 .. WordSize - 1
      BY KernelAssumption DEF Priorities, WordSize
    <3>2. bitmap # {} /\ bitmap \subseteq Priorities
      BY DEF SafeInv, TypeInv, TypeOK, Dispatch, scheduler_empty
    <3> QED BY <3>1, <3>2
  <2>2. idx \in bitmap
    BY <2>1, LowestBit
  <2> QED BY <2>2 DEF SafeInv, TypeInv, TypeOK, BitmapSound
<1>2. /\ active' = Head(priority_qs[idx]) /\ priority_qs' = Dequeue(priority_qs, idx)
      /\ UNCHANGED <<state, send_q, await_qs, owed>> /\ active = NoTask
  BY DEF Dispatch, NextReady, GetReady, msgVars, irqVars, history, SafeInv, TypeInv, ActiveAtPc
<1> HIDE DEF idx
<1>3. x \in Tids /\ x # active
  BY <1>2, CreatedAreTids DEF SafeInv, Tids, NoTask
<1>4. CASE x = active'
  <2>1. In(priority_qs[idx], x) /\ x \in Tids
    <3>1. priority_qs \in [Priorities -> Seq(Tids)] /\ LinkedOnce(priority_qs)
      BY ConsistentNow
    <3> QED BY <1>1, <1>2, <1>4, <3>1, FamilyGet
  <2>2. state'[x] = "READY"
    BY <1>1, <1>2, <2>1, ConsistentNow DEF ReadyMatch
  <2> QED BY <1>4, <2>2 DEF Located
<1>5. CASE x # active'
  <2>1. Linked(priority_qs, x) => Linked(priority_qs', x)
    BY <1>1, <1>2, <1>3, <1>5, ConsistentNow, LinkedGet
  <2> QED BY <1>2, <1>3, <2>1, LocatedKept
<1> QED BY <1>4, <1>5

\* A waiter moves from the await queue to a ready queue.
LEMMA LocatedWake ==
    ASSUME SafeInv, EventWake, NEW x \in Created, Located(x)
    PROVE  Located(x)'
<1> DEFINE t == Head(await_qs[event])
<1>1. /\ event \in Events /\ await_qs[event] # <<>> /\ await_qs' = Dequeue(await_qs, event)
      /\ priority_qs' = Enqueue(priority_qs, priority[t], t)
      /\ state' = [state EXCEPT ![t] = "READY"]
      /\ UNCHANGED <<active, send_q, owed>>
  BY DEF SafeInv, TypeInv, TypeOK, EventWake, scheduler_put, msgVars, history
<1>2. /\ state \in [Tids -> TaskStates] /\ priority_qs \in [Priorities -> Seq(Tids)]
      /\ await_qs \in [Events -> Seq(Tids)] /\ LinkedOnce(await_qs)
  BY ConsistentNow
<1>3. t \in Tids /\ x \in Tids
  BY <1>1, <1>2, FamilyGet, CreatedAreTids DEF SafeInv
<1>4. Linked(await_qs, x) /\ x # t => Linked(await_qs', x)
  BY <1>1, <1>2, <1>3, LinkedGet
<1> HIDE DEF t
<1>5. /\ Linked(priority_qs', t) /\ state'[t] = "READY"
      /\ Linked(priority_qs, x) => Linked(priority_qs', x)
  <2>1. priority[t] \in Priorities
    BY <1>3, ConsistentNow
  <2> QED BY <1>1, <1>2, <1>3, <2>1, LinkedPut
<1>6. CASE x = t
  BY <1>5, <1>6, LocatedReady
<1>7. CASE x # t
  <2>1. state'[x] = state[x]
    BY <1>1, <1>2, <1>3, <1>7
  <2>2. CASE x # active
    BY <1>1, <1>4, <1>5, <1>7, <2>1, <2>2, LocatedKept
  <2>3. CASE x = active
    <3>1. state'[x] = "READY" /\ x = active'
      BY <1>1, <1>3, <2>1, <2>3, CallerFacts
    <3> QED BY <3>1 DEF Located
  <2> QED BY <2>2, <2>3
<1> QED BY <1>6, <1>7

\* Create never finds a message in the queue of the task it makes.
LEMMA UnusedStep ==
    ASSUME SafeInv, UnusedQueuesEmpty, [Next]_vars
    PROVE  UnusedQueuesEmpty'
<1>0. send_q \in [Tids -> Seq(Tids)]
  BY ConsistentNow
<1>1. CASE send_q' = send_q /\ next_free_td' = next_free_td
  BY <1>1 DEF UnusedQueuesEmpty, Created
<1>2. ASSUME NEW p \in CreatePriorities, kernel_create(p) PROVE UnusedQueuesEmpty'
  <2>1. CASE CreateFails(p)
    BY <1>1, <2>1 DEF CreateFails, tdVars, msgVars
  <2>2. CASE CreateSucceeds(p)
    <3>1. Created \subseteq Created'
      BY <2>2 DEF CreateSucceeds, Created, SafeInv, TypeInv, TypeOK
    <3>2. send_q' = [send_q EXCEPT ![next_free_td] = <<>>]
      BY <2>2 DEF CreateSucceeds
    <3> QED BY <1>0, <3>1, <3>2 DEF UnusedQueuesEmpty
  <2> QED BY <1>2, <2>1, <2>2 DEF kernel_create
<1>3. ASSUME NEW to \in Tids, NEW len \in Lens, NEW rlen \in Lens, kernel_send(to, len, rlen)
      PROVE  UnusedQueuesEmpty'
  <2>0. next_free_td' = next_free_td
    BY <1>3 DEF kernel_send, tdVars
  <2>1. CASE SendQueues(to, len, rlen)
    <3>1. to \in Created
      BY <2>1, ConsistentNow DEF SendQueues, TidsOfCreated
    <3>2. \A r \in Tids : r # to => send_q'[r] = send_q[r]
      BY <1>0, <2>1 DEF SendQueues, Enqueue
    <3> QED BY <2>0, <3>1, <3>2 DEF UnusedQueuesEmpty, Created
  <2>2. CASE SendRejected(to, len) \/ SendDelivers(to, len, rlen)
    BY <1>1, <2>0, <2>2 DEF SendRejected, SendDelivers, msgVars
  <2> QED BY <1>3, <2>1, <2>2 DEF kernel_send
<1>4. ASSUME NEW len \in Lens, kernel_receive(len) PROVE UnusedQueuesEmpty'
  <2>0. next_free_td' = next_free_td /\ active \in Tids
    BY <1>4, SyscallTyped DEF kernel_receive, tdVars, SafeInv
  <2>1. CASE ReceiveTakes(len)
    <3>1. active \in Created
      BY <2>0, CallerFacts
    <3>2. \A r \in Tids : r # active => send_q'[r] = send_q[r]
      BY <1>0, <2>1 DEF ReceiveTakes, Dequeue
    <3> QED BY <2>0, <3>1, <3>2 DEF UnusedQueuesEmpty, Created
  <2>2. CASE ReceiveBlocks(len)
    BY <1>1, <2>0, <2>2 DEF ReceiveBlocks
  <2> QED BY <1>4, <2>1, <2>2 DEF kernel_receive
<1>5. CASE \/ kernel_pass \/ kernel_mytid \/ kernel_parenttid \/ kernel_exit \/ Quit \/ kernel_panic
           \/ \E to \in Tids, rlen \in Lens : kernel_reply(to, rlen)
           \/ \E e \in AwaitedEvents : kernel_await_event(e)
  BY <1>1, <1>5 DEF kernel_pass, kernel_mytid, kernel_parenttid, kernel_exit, ExitActive, Quit, kernel_panic,
     kernel_reply, kernel_await_event, tdVars, msgVars
<1>6. CASE Dispatch \/ NoneReady \/ IdleLeavesLoop \/ IdleExits \/ EventWake \/ EventDone \/ UNCHANGED vars
  BY <1>1, <1>6 DEF Dispatch, NoneReady, IdleLeavesLoop, IdleExits, ExitActive, EventWake, EventDone, vars,
     tdVars, msgVars
<1>7. CASE Interrupt
  <2>1. \E e, val : TakeInterrupt(e, val)
    BY <1>7 DEF Interrupt, TimerInterrupt, ReceiveInterrupt, ModemInterrupt, TransmitInterrupt, UnexpectedInterrupt
  <2> QED BY <1>1, <2>1 DEF TakeInterrupt, tdVars, msgVars
<1> QED BY <1>2, <1>3, <1>4, <1>5, <1>6, <1>7 DEF Next, Stopped, Call

\* lost only grows, and only Create makes a task.
LEMMA LostGrows == [Next]_vars => lost \subseteq lost'
<1> SUFFICES ASSUME [Next]_vars PROVE lost \subseteq lost'
  OBVIOUS
<1>1. CASE Call
  BY <1>1 DEF Call, kernel_pass, kernel_mytid, kernel_parenttid, kernel_create, CreateFails, CreateSucceeds,
     kernel_send, kernel_receive, ReceiveTakes, ReceiveBlocks, kernel_reply, kernel_await_event, kernel_exit,
     ExitActive, Quit, kernel_panic, history
<1>2. CASE Interrupt
  BY <1>2 DEF Interrupt, TimerInterrupt, ReceiveInterrupt, ModemInterrupt, TransmitInterrupt,
     UnexpectedInterrupt, TakeInterrupt
<1> QED BY <1>1, <1>2 DEF Next, Dispatch, NoneReady, Stopped, IdleLeavesLoop, IdleExits, ExitActive,
        EventWake, EventDone, vars, history

\* Every step leaves every task where it can be found, or counts it as lost.
LEMMA LocatedStep ==
    ASSUME SafeInv, FoundInv, [Next]_vars, ~panicked', NEW x \in Created' \ lost'
    PROVE  Located(x)'
<1>0. UnusedQueuesEmpty /\ \A t \in Created \ lost : Located(t)
  BY PanicStays DEF FoundInv, NoneForgotten, Located
<1>1. ASSUME NEW p \in CreatePriorities, kernel_create(p) PROVE Located(x)'
  BY <1>0, <1>1, LocatedCreate
<1> SUFFICES ASSUME next_free_td' = next_free_td PROVE Located(x)'
  <2>1. CASE Call
    BY <1>1, <2>1 DEF Call, kernel_pass, kernel_mytid, kernel_parenttid, kernel_send, kernel_receive,
       kernel_reply, kernel_await_event, kernel_exit, ExitActive, Quit, kernel_panic, tdVars
  <2>2. CASE Interrupt
    BY <2>2 DEF Interrupt, TimerInterrupt, ReceiveInterrupt, ModemInterrupt, TransmitInterrupt,
       UnexpectedInterrupt, TakeInterrupt, tdVars
  <2> QED BY <2>1, <2>2 DEF Next, Dispatch, NoneReady, Stopped, IdleLeavesLoop, IdleExits, ExitActive,
        EventWake, EventDone, vars, tdVars
<1>2. x \in Created /\ x \notin lost' /\ Located(x)
  BY <1>0, LostGrows DEF Created
<1>a. kpc \in {"user", "event"} => active \in Tids
  BY ActiveIsTask DEF SafeInv
<1>3. CASE Dispatch
  BY <1>2, <1>3, LocatedDispatch
<1>4. CASE NoneReady \/ IdleLeavesLoop \/ Quit \/ UNCHANGED vars
  <2>1. UNCHANGED <<priority_qs, state, linkVars, active>>
    BY <1>4 DEF NoneReady, IdleLeavesLoop, Quit, vars, schVars, msgVars, irqVars, history, linkVars
  <2> QED BY <1>2, <2>1, LocatedStays
<1>5. CASE kernel_pass \/ kernel_mytid \/ kernel_parenttid
  <2>1. scheduler_put(active) /\ UNCHANGED linkVars /\ active \in Tids
    BY <1>5, <1>a DEF kernel_pass, kernel_mytid, kernel_parenttid, Syscall, ReturnsNow, msgVars, irqVars, history, linkVars
  <2> QED BY <1>2, <2>1, LocatedPutBack
<1>6. ASSUME NEW to \in Tids, NEW len \in Lens, NEW rlen \in Lens, kernel_send(to, len, rlen) PROVE Located(x)'
  BY <1>2, <1>6, LocatedSend
<1>7. ASSUME NEW len \in Lens, kernel_receive(len) PROVE Located(x)'
  BY <1>2, <1>7, LocatedReceive
<1>8. ASSUME NEW to \in Tids, NEW rlen \in Lens, kernel_reply(to, rlen) PROVE Located(x)'
  BY <1>2, <1>8, LocatedReply
<1>9. ASSUME NEW e \in AwaitedEvents, kernel_await_event(e) PROVE Located(x)'
  BY <1>2, <1>9, LocatedAwait
<1>10. CASE kernel_exit \/ IdleExits
  <2>1. /\ active \in Tids /\ state' = [state EXCEPT ![active] = "EXITED"]
        /\ UNCHANGED <<priority_qs, owed, send_q, await_qs>>
    BY <1>10, <1>a DEF kernel_exit, IdleExits, ExitActive, Syscall, schVars, msgVars, irqVars, history
  <2>2. state'[active] = "EXITED" /\ (x # active => state'[x] = state[x])
    BY <1>2, <2>1, CreatedAreTids, ConsistentNow DEF SafeInv
  <2> QED BY <1>2, <2>1, <2>2, LocatedBlocks
<1>11. CASE kernel_panic
  BY <1>11 DEF kernel_panic
<1>12. CASE Interrupt
  <2>1. UNCHANGED <<priority_qs, state, linkVars, active>>
    BY <1>12 DEF Interrupt, TimerInterrupt, ReceiveInterrupt, ModemInterrupt, TransmitInterrupt,
       UnexpectedInterrupt, TakeInterrupt, msgVars, linkVars
  <2> QED BY <1>2, <2>1, LocatedStays
<1>13. CASE EventWake
  BY <1>2, <1>13, LocatedWake
<1>14. CASE EventDone
  BY <1>2, <1>14, <1>a, LocatedPutBack DEF EventDone, msgVars, history, linkVars
<1> QED BY <1>1, <1>3, <1>4, <1>5, <1>6, <1>7, <1>8, <1>9, <1>10, <1>11, <1>12, <1>13, <1>14
        DEF Next, Stopped, Call

\* Short of a panic, every task that no failing Create or Receive has dropped is
\* active, in the queue its state stands for, or owed a reply by some task.
THEOREM NoTaskForgotten == ASSUME ~FreeReply PROVE Spec => []NoneForgotten
<1>1. Init => FoundInv
  <2> SUFFICES ASSUME Init PROVE FoundInv
    OBVIOUS
  <2>1. UnusedQueuesEmpty
    BY DEF Init, UnusedQueuesEmpty
  <2>2. ASSUME NEW t \in Created PROVE Located(t)
    <3> DEFINE q0 == [p \in Priorities |-> <<>>]
               q1 == Enqueue(q0, UserPriority, 0)
    <3>1. /\ 0 \in Tids /\ 1 \in Tids /\ UserPriority \in Priorities /\ IdlePriority \in Priorities
          /\ t \in {0, 1}
      BY KernelAssumption DEF Init, Tids, Priorities, WordSize, Created
    <3>2. q0 \in [Priorities -> Seq(Tids)]
      BY EmptySeq
    <3>3. priority_qs = Enqueue(q1, IdlePriority, 1) /\ state[t] = "READY"
      BY <3>1 DEF Init, IDLE_TASK_TID
    <3> HIDE DEF q0
    <3>4. q1 \in [Priorities -> Seq(Tids)] /\ Linked(q1, 0)
      BY <3>1, <3>2, LinkedPut
    <3> HIDE DEF q1
    <3>5. Linked(priority_qs, 1) /\ \A x : Linked(q1, x) => Linked(priority_qs, x)
      BY <3>1, <3>3, <3>4, LinkedPut
    <3>6. Linked(priority_qs, t)
      BY <3>1, <3>4, <3>5
    <3> QED BY <3>3, <3>6 DEF Located
  <2> QED BY <2>1, <2>2 DEF FoundInv, NoneForgotten, Located
<1>2. SafeInv /\ FoundInv /\ [Next]_vars => FoundInv'
  <2> SUFFICES ASSUME SafeInv, FoundInv, [Next]_vars PROVE FoundInv'
    OBVIOUS
  <2>1. UnusedQueuesEmpty'
    BY UnusedStep DEF FoundInv
  <2>2. ~panicked' => \A t \in Created' \ lost' : Located(t)'
    BY LocatedStep
  <2>3. NoneForgotten'
    BY <2>2 DEF NoneForgotten, Located
  <2> QED BY <2>1, <2>3 DEF FoundInv
<1>3. SafeInv /\ [Next]_vars => SafeInv'
  BY SafeStep
<1>4. FoundInv => NoneForgotten
  BY DEF FoundInv
<1> QED BY <1>1, <1>2, <1>3, <1>4, SafeInit, PTL DEF Spec

-----------------------------------------------------------------------------
(***************************************************************************)
(* What Receive returns.                                                   *)
(***************************************************************************)

\* A task whose last call was Receive waits in it or has returned, and then holds
\* the message of the task it was told.  The first part excludes that such a task
\* is woken by an event or a reply, with some other return value.
ReceivedFrom(t) ==
    /\ receiving[t] => t \in Created /\ state[t] \in {"READY", "SEND_BLOCKED", "EXITED"}
    /\ receiving[t] /\ state[t] = "READY" /\ ret[t] >= 0 => ret[t] \in owed[t]

ReceiveInv == \A t \in Tids : ReceivedFrom(t)

\* A system call marks its caller and no other task.
LEMMA MarksCaller ==
    ASSUME TypeInv, NEW c, Syscall(c), NEW x \in Tids
    PROVE  /\ active \in Tids
           /\ x = active /\ c # "Receive" => ~receiving'[x]
           /\ x # active => (receiving'[x] <=> receiving[x])
<1>1. active \in Tids
  BY SyscallTyped
<1>2. receiving \in [Tids -> BOOLEAN] /\ receiving' = [receiving EXCEPT ![active] = (c = "Receive")]
  BY DEF TypeInv, TypeOK, Syscall
<1>3. receiving'[x] = IF x = active THEN (c = "Receive") ELSE receiving[x]
  BY <1>1, <1>2, Zenon
<1> QED BY <1>1, <1>3, Zenon

\* A task that is not in Receive.
LEMMA NotReceiving ==
    ASSUME NEW x, ~receiving'[x]
    PROVE  ReceivedFrom(x)'
  BY DEF ReceivedFrom

\* A task that keeps its state and return value and answers nobody.
LEMMA ReceivedKept ==
    ASSUME NEW x, ReceivedFrom(x), receiving'[x] => receiving[x], Created \subseteq Created',
           state'[x] = state[x], ret'[x] = ret[x], owed[x] \subseteq owed'[x]
    PROVE  ReceivedFrom(x)'
  BY DEF ReceivedFrom

\* Calls that return at once or block, other than Receive.
LEMMA ReceivedOthers ==
    ASSUME TypeInv, NEW c, Syscall(c), c # "Receive", NEW s,
           state' = [state EXCEPT ![active] = s],
           NEW r, ret' = [ret EXCEPT ![active] = r], UNCHANGED <<owed, next_free_td>>,
           NEW x \in Tids, ReceivedFrom(x)
    PROVE  ReceivedFrom(x)'
<1>1. CASE x = active
  BY <1>1, MarksCaller, NotReceiving
<1>2. CASE x # active
  <2>1. state'[x] = state[x] /\ ret'[x] = ret[x]
    BY <1>2 DEF TypeInv, TypeOK
  <2>2. receiving'[x] => receiving[x]
    BY <1>2, MarksCaller
  <2> QED BY <2>1, <2>2, ReceivedKept DEF Created
<1> QED BY <1>1, <1>2

\* Create: the new task has made no call.
LEMMA ReceivedCreate ==
    ASSUME TypeInv, ReceiveInv, NEW p, kernel_create(p), NEW x \in Tids
    PROVE  ReceivedFrom(x)'
<1>0. Syscall("Create") /\ ReceivedFrom(x)
  BY DEF kernel_create, ReceiveInv
<1>1. CASE x = active
  BY <1>0, <1>1, MarksCaller, NotReceiving
<1>2. CASE x # active
  <2>0. receiving'[x] => receiving[x]
    BY <1>0, <1>2, MarksCaller
  <2>1. CASE CreateFails(p)
    <3>1. state'[x] = state[x] /\ ret'[x] = ret[x] /\ owed' = owed /\ next_free_td' = next_free_td
      BY <1>2, <2>1 DEF CreateFails, tdVars, TypeInv, TypeOK
    <3> QED BY <1>0, <2>0, <3>1, ReceivedKept DEF Created
  <2>2. CASE CreateSucceeds(p)
    <3>1. CASE x = next_free_td
      <4>1. x \notin Created
        BY <3>1 DEF Created, TypeInv, TypeOK
      <4>2. ~receiving'[x]
        BY <1>0, <2>0, <4>1 DEF ReceivedFrom
      <4> QED BY <4>2, NotReceiving
    <3>2. CASE x # next_free_td
      <4>1. state'[x] = state[x] /\ ret'[x] = ret[x] /\ owed' = owed
        BY <1>2, <2>2, <3>2 DEF CreateSucceeds, PutThenActive, history, TypeInv, TypeOK
      <4>2. Created \subseteq Created'
        BY <2>2 DEF CreateSucceeds, Created, TypeInv, TypeOK
      <4> QED BY <1>0, <2>0, <4>1, <4>2, ReceivedKept
    <3> QED BY <3>1, <3>2
  <2> QED BY <2>1, <2>2 DEF kernel_create
<1> QED BY <1>1, <1>2

\* Send: a receiver that is woken is told the sender, which it then owes a reply.
LEMMA ReceivedSend ==
    ASSUME SafeInv, ReceiveInv, NEW to \in Tids, NEW len, NEW rlen, kernel_send(to, len, rlen), NEW x \in Tids
    PROVE  ReceivedFrom(x)'
<1>0. /\ TypeInv /\ Syscall("Send") /\ ReceivedFrom(x) /\ next_free_td' = next_free_td
      /\ state \in [Tids -> TaskStates] /\ ret \in [Tids -> Int]
  BY DEF SafeInv, TypeInv, TypeOK, kernel_send, ReceiveInv, tdVars
<1>a. active \in Tids
  BY <1>0, MarksCaller
<1>1. CASE SendRejected(to, len) \/ SendQueues(to, len, rlen)
  BY <1>0, <1>1, ReceivedOthers DEF SendRejected, SendQueues, ReturnsNow, BlocksCaller, scheduler_put
<1>2. CASE SendDelivers(to, len, rlen)
  <2>1. /\ to # active /\ tid[active] = active
    BY <1>2, <1>a, CallerFacts, ConsistentNow DEF SendDelivers, WaitsForMessage, TidsOfCreated
  <2>2. /\ state' = [state EXCEPT ![to] = "READY", ![active] = "REPLY_BLOCKED"]
        /\ owed' = [owed EXCEPT ![to] = @ \cup {active}]
        /\ ret' = [ret EXCEPT ![to] = tid[active], ![active] = 0]
        /\ owed \in [Tids -> SUBSET Tids]
    BY <1>2, ConsistentNow DEF SendDelivers, SendReturns
  <2>3. CASE x = active
    BY <1>0, <2>3, MarksCaller, NotReceiving
  <2>4. CASE x = to
    <3>1. ret'[x] = active /\ active \in owed'[x] /\ state'[x] = "READY" /\ x \in Created'
      BY <1>0, <1>2, <2>1, <2>2, <2>4, ConsistentNow DEF SendDelivers, TidsOfCreated, Created
    <3> QED BY <3>1 DEF ReceivedFrom
  <2>5. CASE x \notin {to, active}
    <3>1. state'[x] = state[x] /\ ret'[x] = ret[x] /\ owed'[x] = owed[x]
      BY <1>0, <2>2, <2>5
    <3>2. receiving'[x] => receiving[x]
      BY <1>0, <2>5, MarksCaller
    <3> QED BY <1>0, <3>1, <3>2, ReceivedKept DEF Created
  <2> QED BY <2>3, <2>4, <2>5
<1> QED BY <1>1, <1>2 DEF kernel_send

\* Receive.
LEMMA ReceivedReceive ==
    ASSUME SafeInv, ReceiveInv, NEW len, kernel_receive(len), NEW x \in Tids
    PROVE  ReceivedFrom(x)'
<1>0. /\ TypeInv /\ Syscall("Receive") /\ ReceivedFrom(x) /\ next_free_td' = next_free_td
      /\ state \in [Tids -> TaskStates] /\ ret \in [Tids -> Int]
  BY DEF SafeInv, TypeInv, TypeOK, kernel_receive, ReceiveInv, tdVars
<1>a. active \in Tids /\ active \in Created
  BY <1>0, MarksCaller, CallerFacts
<1>b. x # active => (receiving'[x] => receiving[x])
  BY <1>0, MarksCaller
<1>1. CASE ReceiveTakes(len)
  <2> DEFINE sender == Head(send_q[active])
  <2>1. /\ send_q[active] # <<>>
        /\ \/ /\ state' = [state EXCEPT ![active] = "READY"] /\ owed' = owed
              /\ ret' = [ret EXCEPT ![active] = -1]
           \/ /\ state' = [state EXCEPT ![active] = "READY", ![sender] = "REPLY_BLOCKED"]
              /\ owed' = [owed EXCEPT ![active] = @ \cup {sender}]
              /\ ret' = [ret EXCEPT ![active] = tid[sender]]
    BY <1>1 DEF ReceiveTakes, TakenState
  <2>2. sender \in Tids /\ In(send_q[active], sender)
    <3>1. send_q \in [Tids -> Seq(Tids)] /\ LinkedOnce(send_q)
      BY ConsistentNow
    <3> QED BY <1>a, <2>1, <3>1, FamilyGet
  <2> HIDE DEF sender
  <2>3. sender # active /\ tid[sender] = sender /\ state[sender] = "RECEIVE_BLOCKED"
    BY <1>a, <2>2, CallerFacts, ConsistentNow DEF SendersMatch, TidsOfCreated
  <2>4. owed \in [Tids -> SUBSET Tids]
    BY ConsistentNow
  <2>5. CASE x = active
    <3>1. state'[x] = "READY" /\ (ret'[x] = -1 \/ ret'[x] \in owed'[x])
      BY <1>0, <1>a, <2>1, <2>2, <2>3, <2>4, <2>5
    <3>2. x \in Created'
      BY <1>0, <1>a, <2>5 DEF Created
    <3> QED BY <3>1, <3>2 DEF ReceivedFrom
  <2>6. CASE x = sender
    <3>1. ~receiving'[x]
      BY <1>0, <1>b, <2>3, <2>6 DEF ReceivedFrom
    <3> QED BY <3>1, NotReceiving
  <2>7. CASE x \notin {sender, active}
    <3>1. state'[x] = state[x] /\ ret'[x] = ret[x] /\ owed'[x] = owed[x]
      BY <1>0, <2>1, <2>4, <2>7
    <3> QED BY <1>0, <1>b, <2>7, <3>1, ReceivedKept DEF Created
  <2> QED BY <2>5, <2>6, <2>7
<1>2. CASE ReceiveBlocks(len)
  <2>1. /\ state' = [state EXCEPT ![active] = "SEND_BLOCKED"] /\ ret' = [ret EXCEPT ![active] = 0]
        /\ owed' = owed
    BY <1>2 DEF ReceiveBlocks, BlocksCaller
  <2>2. CASE x = active
    <3>1. state'[x] = "SEND_BLOCKED" /\ x \in Created'
      BY <1>0, <1>a, <2>1, <2>2 DEF Created
    <3> QED BY <3>1 DEF ReceivedFrom
  <2>3. CASE x # active
    <3>1. state'[x] = state[x] /\ ret'[x] = ret[x]
      BY <1>0, <2>1, <2>3
    <3> QED BY <1>0, <1>b, <2>1, <2>3, <3>1, ReceivedKept DEF Created
  <2> QED BY <2>2, <2>3
<1> QED BY <1>1, <1>2 DEF kernel_receive

\* Reply: the task it wakes is in Send, not in Receive.
LEMMA ReceivedReply ==
    ASSUME SafeInv, ReceiveInv, ~FreeReply, NEW to \in Tids, NEW rlen, kernel_reply(to, rlen), NEW x \in Tids
    PROVE  ReceivedFrom(x)'
<1>0. /\ TypeInv /\ Syscall("Reply") /\ ReceivedFrom(x) /\ next_free_td' = next_free_td
      /\ state \in [Tids -> TaskStates] /\ ret \in [Tids -> Int]
  BY DEF SafeInv, TypeInv, TypeOK, kernel_reply, ReceiveInv, tdVars
<1>a. active \in Tids
  BY <1>0, MarksCaller
<1>1. CASE ReplyRejected(to, rlen)
  BY <1>0, <1>1, ReceivedOthers DEF ReplyRejected, ReturnsNow, scheduler_put
<1>2. CASE ReplyWakes(to, rlen)
  <2>1. CASE x = active
    BY <1>0, <2>1, MarksCaller, NotReceiving
  <2>2. CASE x # active
    <3>0. receiving'[x] => receiving[x]
      BY <1>0, <2>2, MarksCaller
    <3>1. CASE x = to
      <4>1. to \in owed[active]
        BY <1>2 DEF kernel_reply, ReplyWakes
      <4>2. state[x] = "REPLY_BLOCKED"
        BY <1>a, <3>1, <4>1, ConsistentNow DEF OwedMatch
      <4>3. ~receiving'[x]
        BY <1>0, <3>0, <4>2 DEF ReceivedFrom
      <4> QED BY <4>3, NotReceiving
    <3>2. CASE x # to
      <4>1. state'[x] = state[x] /\ ret'[x] = ret[x] /\ owed'[x] = owed[x]
        BY <1>0, <1>2, <2>2, <3>2, ConsistentNow DEF ReplyWakes, PutThenActive
      <4> QED BY <1>0, <3>0, <4>1, ReceivedKept DEF Created
    <3> QED BY <3>1, <3>2
  <2> QED BY <2>1, <2>2
<1> QED BY <1>1, <1>2 DEF kernel_reply

\* A woken waiter is in AwaitEvent, not in Receive.
LEMMA ReceivedWake ==
    ASSUME SafeInv, ReceiveInv, EventWake, NEW x \in Tids
    PROVE  ReceivedFrom(x)'
<1> DEFINE t == Head(await_qs[event])
<1>0. /\ ReceivedFrom(x) /\ state \in [Tids -> TaskStates] /\ ret \in [Tids -> Int]
      /\ event \in Events /\ await_qs[event] # <<>>
  BY DEF SafeInv, TypeInv, TypeOK, EventWake, ReceiveInv
<1>1. /\ state' = [state EXCEPT ![t] = "READY"] /\ ret' = [ret EXCEPT ![t] = retVal]
      /\ UNCHANGED <<owed, next_free_td, receiving>>
  BY DEF EventWake, scheduler_put, history, tdVars
<1>2. t \in Tids /\ In(await_qs[event], t)
  <2>1. await_qs \in [Events -> Seq(Tids)] /\ LinkedOnce(await_qs)
    BY ConsistentNow
  <2> QED BY <1>0, <2>1, FamilyGet
<1> HIDE DEF t
<1>3. CASE x = t
  <2>1. state[x] = "EVENT_BLOCKED"
    BY <1>0, <1>2, <1>3, ConsistentNow DEF WaitersMatch
  <2>2. ~receiving'[x]
    BY <1>0, <1>1, <2>1 DEF ReceivedFrom
  <2> QED BY <2>2, NotReceiving
<1>4. CASE x # t
  <2>1. state'[x] = state[x] /\ ret'[x] = ret[x]
    BY <1>0, <1>1, <1>4
  <2> QED BY <1>0, <1>1, <2>1, ReceivedKept DEF Created
<1> QED BY <1>3, <1>4

\* Every step keeps ReceiveInv.
LEMMA ReceiveStep ==
    ASSUME SafeInv, ReceiveInv, ~FreeReply, [Next]_vars
    PROVE  ReceiveInv'
<1> SUFFICES ASSUME NEW x \in Tids PROVE ReceivedFrom(x)'
  BY DEF ReceiveInv
<1>0. TypeInv /\ ReceivedFrom(x) /\ state \in [Tids -> TaskStates]
  BY DEF SafeInv, TypeInv, TypeOK, ReceiveInv
<1>1. CASE kernel_pass
  BY <1>0, <1>1, ReceivedOthers DEF kernel_pass, ReturnsNow, scheduler_put, history, tdVars
<1>2. CASE kernel_mytid
  BY <1>0, <1>2, ReceivedOthers DEF kernel_mytid, ReturnsNow, scheduler_put, history, tdVars
<1>3. CASE kernel_parenttid
  BY <1>0, <1>3, ReceivedOthers DEF kernel_parenttid, ReturnsNow, scheduler_put, history, tdVars
<1>4. ASSUME NEW p \in CreatePriorities, kernel_create(p) PROVE ReceivedFrom(x)'
  BY <1>0, <1>4, ReceivedCreate
<1>5. ASSUME NEW to \in Tids, NEW len \in Lens, NEW rlen \in Lens, kernel_send(to, len, rlen)
      PROVE  ReceivedFrom(x)'
  BY <1>5, ReceivedSend
<1>6. ASSUME NEW len \in Lens, kernel_receive(len) PROVE ReceivedFrom(x)'
  BY <1>6, ReceivedReceive
<1>7. ASSUME NEW to \in Tids, NEW rlen \in Lens, kernel_reply(to, rlen) PROVE ReceivedFrom(x)'
  BY <1>7, ReceivedReply
<1>8. ASSUME NEW e \in AwaitedEvents, kernel_await_event(e) PROVE ReceivedFrom(x)'
  BY <1>0, <1>8, ReceivedOthers DEF kernel_await_event, AwaitRejected, AwaitQueues, ReturnsNow, BlocksCaller,
     scheduler_put, history, tdVars
<1>9. CASE kernel_exit \/ Quit \/ kernel_panic
  <2>0. \E c : c # "Receive" /\ Syscall(c)
    BY <1>9 DEF kernel_exit, Quit, kernel_panic
  <2>1. CASE x = active
    BY <1>0, <2>0, <2>1, MarksCaller, NotReceiving
  <2>2. CASE x # active
    <3>1. state'[x] = state[x] /\ ret'[x] = ret[x] /\ UNCHANGED <<owed, next_free_td>>
      BY <1>0, <1>9, <2>2 DEF kernel_exit, ExitActive, Quit, kernel_panic, history, tdVars, TypeInv, TypeOK
    <3>2. receiving'[x] => receiving[x]
      BY <1>0, <2>0, <2>2, MarksCaller
    <3> QED BY <1>0, <3>1, <3>2, ReceivedKept DEF Created
  <2> QED BY <2>1, <2>2
<1>10. CASE IdleExits
  <2>1. UNCHANGED <<ret, owed, next_free_td, receiving>> /\ state' = [state EXCEPT ![active] = "EXITED"]
    BY <1>10 DEF IdleExits, ExitActive, history, tdVars
  <2>2. state'[x] \in {state[x], "EXITED"}
    BY <1>0, <2>1
  <2> QED BY <1>0, <2>1, <2>2 DEF ReceivedFrom, Created
<1>11. CASE Dispatch \/ NoneReady \/ IdleLeavesLoop \/ Interrupt \/ UNCHANGED vars
  <2>1. UNCHANGED <<state, ret, owed, next_free_td, receiving>>
    BY <1>11 DEF Dispatch, NoneReady, IdleLeavesLoop, Interrupt, TimerInterrupt, ReceiveInterrupt, ModemInterrupt,
       TransmitInterrupt, UnexpectedInterrupt, TakeInterrupt, vars, history, tdVars
  <2> QED BY <1>0, <2>1, ReceivedKept DEF Created
<1>12. CASE EventWake
  BY <1>12, ReceivedWake
<1>13. CASE EventDone
  <2>1. UNCHANGED <<ret, owed, next_free_td, receiving>> /\ state' = [state EXCEPT ![active] = "READY"]
    BY <1>13 DEF EventDone, scheduler_put, history, tdVars
  <2>2. active \in Tids /\ state[active] = "READY"
    BY <1>0, <1>13, ActiveIsTask, CallerFacts DEF EventDone
  <2>3. state'[x] = state[x]
    BY <1>0, <2>1, <2>2
  <2> QED BY <1>0, <2>1, <2>3, ReceivedKept DEF Created
<1> QED BY <1>1, <1>2, <1>3, <1>4, <1>5, <1>6, <1>7, <1>8, <1>9, <1>10, <1>11, <1>12, <1>13
        DEF Next, Stopped, Call

\* When Receive returns a task id, the receiver owes that task a reply, whether the
\* sender or the receiver came first.
THEOREM ReceiveAlwaysReturnsSender == ASSUME ~FreeReply PROVE Spec => []ReceiveReturnsSender
<1>1. Init => ReceiveInv
  BY Zenon DEF Init, ReceiveInv, ReceivedFrom
<1>2. SafeInv /\ ReceiveInv /\ [Next]_vars => ReceiveInv'
  BY ReceiveStep
<1>3. SafeInv /\ [Next]_vars => SafeInv'
  BY SafeStep
<1>4. SafeInv /\ ReceiveInv => ReceiveReturnsSender
  BY CreatedAreTids DEF SafeInv, ReceiveInv, ReceivedFrom, ReceiveReturnsSender
<1> QED BY <1>1, <1>2, <1>3, <1>4, SafeInit, PTL DEF Spec

-----------------------------------------------------------------------------
(***************************************************************************)
(* The kernel stops by itself only when nothing can happen.                *)
(***************************************************************************)

\* Short of a panic and of Quit, the idle task runs or is ready.
IdleWaits == kpc # "halted" => active = IDLE_TASK_TID \/ Linked(priority_qs, IDLE_TASK_TID)

\* Once the idle task has been told to leave, no other task is ready and none waits
\* for an event: is_exit, computed when the idle task was dispatched, is not stale
\* when the idle task acts on it, although interrupts may come in between.
OnlyIdleLeft ==
    is_exit => /\ \A e \in Events : await_qs[e] = <<>>
               /\ \A p \in Priorities, x \in Tids : In(priority_qs[p], x) => x = IDLE_TASK_TID
               /\ active \in {IDLE_TASK_TID, NoTask}

\* The state in which the kernel stops by itself.
HaltedQuiet ==
    kpc = "halted" /\ active = NoTask =>
        /\ \A e \in Events : await_qs[e] = <<>>
        /\ \A p \in Priorities : priority_qs[p] = <<>>

IdleFacts == (idle_done => is_exit) /\ OnlyIdleLeft /\ IdleWaits /\ HaltedQuiet

QuietInv ==
    /\ priority[IDLE_TASK_TID] = IdlePriority
    /\ ~panicked /\ IdleIsLowest => IdleFacts

\* What the earlier theorems give.
Base == SafeInv /\ BitmapExact /\ HighestPriorityRuns

\* While the idle task runs, the ready queues are empty.
IdleAlone == kpc = "user" /\ active = IDLE_TASK_TID => \A p \in Priorities : priority_qs[p] = <<>>

LEMMA IdleTid == IDLE_TASK_TID \in Tids /\ IDLE_TASK_TID # NoTask
  BY KernelAssumption DEF IDLE_TASK_TID, Tids, NoTask

LEMMA IdleRunsAlone ==
    Base /\ ~panicked /\ IdleIsLowest /\ priority[IDLE_TASK_TID] = IdlePriority => IdleAlone
<1> SUFFICES ASSUME Base, ~panicked, IdleIsLowest, priority[IDLE_TASK_TID] = IdlePriority,
                    kpc = "user", active = IDLE_TASK_TID,
                    NEW p \in Priorities, priority_qs[p] # <<>>
             PROVE  FALSE
  BY DEF IdleAlone
<1> DEFINE h == Head(priority_qs[p])
<1>1. SafeInv /\ priority_qs \in [Priorities -> Seq(Tids)] /\ LinkedOnce(priority_qs)
  BY ConsistentNow DEF Base
<1>2. h \in Tids /\ In(priority_qs[p], h)
  BY <1>1, FamilyGet
<1> HIDE DEF h
<1>3. h \in Created /\ priority[h] = p /\ h # active
  BY <1>1, <1>2, ConsistentNow DEF ReadyMatch
<1>4. priority[active] <= p
  BY DEF Base, HighestPriorityRuns
<1>5. p < IdlePriority
  BY <1>3 DEF IdleIsLowest
<1> QED BY <1>4, <1>5, KernelAssumption DEF Priorities, WordSize

\* The ready queues are empty if the bitmap is.
LEMMA EmptyBitmap ==
    ASSUME Base, ~panicked, scheduler_empty(bitmap)
    PROVE  \A p \in Priorities : priority_qs[p] = <<>>
  BY DEF Base, BitmapExact, scheduler_empty

\* A linked task is in a queue that is not empty, and no bit is set for an empty one.
LEMMA EmptyUnlinked ==
    ASSUME Base, \A p \in Priorities : priority_qs[p] = <<>>
    PROVE  scheduler_empty(bitmap) /\ \A x : ~Linked(priority_qs, x)
<1>1. priority_qs \in [Priorities -> Seq(Tids)] /\ bitmap \subseteq Priorities
  BY DEF Base, SafeInv, TypeInv, TypeOK
<1>2. \A x : ~In(<<>>, x)
  BY DEF In
<1>3. \A x : ~Linked(priority_qs, x)
  BY <1>1, <1>2 DEF Linked
<1>4. scheduler_empty(bitmap)
  BY <1>1 DEF Base, BitmapExact, scheduler_empty
<1> QED BY <1>3, <1>4

\* A task keeps its priority.
LEMMA PriorityStays ==
    ASSUME TypeInv, [Next]_vars
    PROVE  Created \subseteq Created' /\ \A t \in Created : priority'[t] = priority[t]
<1>1. CASE UNCHANGED tdVars
  BY <1>1 DEF tdVars, Created
<1>2. ASSUME NEW p \in CreatePriorities, kernel_create(p)
      PROVE  Created \subseteq Created' /\ \A t \in Created : priority'[t] = priority[t]
  <2>1. CASE CreateFails(p)
    BY <1>1, <2>1 DEF CreateFails
  <2>2. CASE CreateSucceeds(p)
    <3>1. next_free_td \in Nat /\ next_free_td' = next_free_td + 1 /\ next_free_td \notin Created
          /\ priority' = [priority EXCEPT ![next_free_td] = p] /\ DOMAIN priority = Tids
      BY <2>2, KernelAssumption DEF CreateSucceeds, Created, TypeInv, TypeOK
    <3>2. Created \subseteq Tids
      BY CreatedAreTids
    <3> QED BY <3>1, <3>2 DEF Created
  <2> QED BY <1>2, <2>1, <2>2 DEF kernel_create
<1>3. CASE Call
  BY <1>1, <1>2, <1>3 DEF Call, kernel_pass, kernel_mytid, kernel_parenttid, kernel_send, kernel_receive,
     kernel_reply, kernel_await_event, kernel_exit, ExitActive, Quit, kernel_panic
<1>4. CASE Interrupt
  BY <1>1, <1>4 DEF Interrupt, TimerInterrupt, ReceiveInterrupt, ModemInterrupt, TransmitInterrupt,
     UnexpectedInterrupt, TakeInterrupt
<1> QED BY <1>1, <1>3, <1>4 DEF Next, Dispatch, NoneReady, Stopped, IdleLeavesLoop, IdleExits, ExitActive,
        EventWake, EventDone, vars

\* No system call takes a task out of a ready queue.
LEMMA CallsKeepReady ==
    ASSUME SafeInv, Call, NEW x \in Tids, Linked(priority_qs, x)
    PROVE  Linked(priority_qs', x)
<1>0. /\ active \in Tids /\ priority \in [Tids -> Priorities] /\ priority_qs \in [Priorities -> Seq(Tids)]
  BY SyscallTyped, ConsistentNow DEF SafeInv, Call, kernel_pass, kernel_mytid, kernel_parenttid, kernel_create,
     kernel_send, kernel_receive, kernel_reply, kernel_await_event, kernel_exit, Quit, kernel_panic
<1>1. ASSUME NEW t \in Tids, priority_qs' = Enqueue(priority_qs, priority[t], t) PROVE Linked(priority_qs', x)
  BY <1>0, <1>1, LinkedPut
<1>2. CASE scheduler_put(active)
  BY <1>0, <1>1, <1>2 DEF scheduler_put
<1>3. CASE priority_qs' = priority_qs
  BY <1>3
<1>4. ASSUME NEW p \in CreatePriorities, kernel_create(p) PROVE Linked(priority_qs', x)
  <2>1. CASE CreateSucceeds(p)
    <3>1. next_free_td \in Tids
      BY <2>1, KernelAssumption DEF CreateSucceeds, TableFull, SafeInv, TypeInv, TypeOK, Tids
    <3> QED BY <1>0, <2>1, <3>1, LocatedPutTwo DEF CreateSucceeds
  <2>2. CASE CreateFails(p)
    BY <1>3, <2>2 DEF CreateFails, schVars
  <2> QED BY <1>4, <2>1, <2>2 DEF kernel_create
<1>5. ASSUME NEW to \in Tids, NEW len \in Lens, NEW rlen \in Lens, kernel_send(to, len, rlen)
      PROVE  Linked(priority_qs', x)
  BY <1>1, <1>2, <1>3, <1>5 DEF kernel_send, SendRejected, ReturnsNow, SendDelivers, SendReadies,
     SendQueues, BlocksCaller, schVars
<1>6. ASSUME NEW len \in Lens, kernel_receive(len) PROVE Linked(priority_qs', x)
  BY <1>0, <1>1, <1>3, <1>6 DEF kernel_receive, ReceiveTakes, ReceiveBlocks, BlocksCaller, schVars
<1>7. ASSUME NEW to \in Tids, NEW rlen \in Lens, kernel_reply(to, rlen) PROVE Linked(priority_qs', x)
  <2>1. CASE ReplyWakes(to, rlen)
    BY <1>0, <2>1, LocatedPutTwo DEF ReplyWakes
  <2>2. CASE ReplyRejected(to, rlen)
    BY <1>2, <2>2 DEF ReplyRejected, ReturnsNow
  <2> QED BY <1>7, <2>1, <2>2 DEF kernel_reply
<1>8. ASSUME NEW e \in AwaitedEvents, kernel_await_event(e) PROVE Linked(priority_qs', x)
  BY <1>2, <1>3, <1>8 DEF kernel_await_event, AwaitRejected, AwaitQueues, ReturnsNow, BlocksCaller, schVars
<1>9. CASE kernel_pass \/ kernel_mytid \/ kernel_parenttid \/ kernel_exit \/ Quit \/ kernel_panic
  BY <1>2, <1>3, <1>9 DEF kernel_pass, kernel_mytid, kernel_parenttid, ReturnsNow, kernel_exit, ExitActive,
     Quit, kernel_panic, schVars
<1> QED BY <1>4, <1>5, <1>6, <1>7, <1>8, <1>9 DEF Call

\* The idle task is dispatched, or some other task is and the idle task stays ready.
LEMMA QuietDispatch ==
    ASSUME Base, IdleFacts, Dispatch, IdleAlone'
    PROVE  IdleFacts'
<1> DEFINE idx == bitmap_leadingzeroes(bitmap)
<1>0. SafeInv /\ TypeInv
  BY DEF Base, SafeInv
<1>1. idx \in Priorities /\ priority_qs[idx] # <<>>
  <2>1. bitmap \in SUBSET (0 .. WordSize - 1) /\ bitmap # {}
    <3>1. Priorities \subseteq 0 .. WordSize - 1
      BY KernelAssumption DEF Priorities, WordSize
    <3>2. bitmap # {} /\ bitmap \subseteq Priorities
      BY <1>0 DEF TypeInv, TypeOK, Dispatch, scheduler_empty
    <3> QED BY <3>1, <3>2
  <2>2. idx \in bitmap
    BY <2>1, LowestBit
  <2> QED BY <1>0, <2>2 DEF TypeInv, TypeOK, BitmapSound
<1>2. /\ active' = Head(priority_qs[idx]) /\ priority_qs' = Dequeue(priority_qs, idx)
      /\ UNCHANGED <<await_qs, idle_done>> /\ kpc' = "user" /\ kpc = "dispatch" /\ active = NoTask
      /\ is_exit' = IF active' = IDLE_TASK_TID THEN event_handler_empty ELSE is_exit
  BY <1>0 DEF Dispatch, NextReady, GetReady, irqVars, update_idle_task, TypeInv, ActiveAtPc
<1> HIDE DEF idx
<1>3. active' \in Tids /\ In(priority_qs[idx], active')
  <2>1. priority_qs \in [Priorities -> Seq(Tids)] /\ LinkedOnce(priority_qs)
    BY <1>0, ConsistentNow
  <2> QED BY <1>1, <1>2, <2>1, FamilyGet
<1>4. CASE active' = IDLE_TASK_TID
  <2>1. \A p \in Priorities : priority_qs'[p] = <<>>
    BY <1>2, <1>4 DEF IdleAlone
  <2>2. is_exit' <=> \A e \in Events : await_qs[e] = <<>>
    BY <1>2, <1>4, Zenon DEF event_handler_empty
  <2>3. \A x : ~In(<<>>, x)
    BY DEF In
  <2>4. idle_done => is_exit'
    BY <2>2 DEF IdleFacts, OnlyIdleLeft
  <2>5. OnlyIdleLeft'
    BY <1>2, <1>4, <2>1, <2>2, <2>3 DEF OnlyIdleLeft
  <2> QED BY <1>2, <1>4, <2>4, <2>5 DEF IdleFacts, IdleWaits, HaltedQuiet
<1>5. CASE active' # IDLE_TASK_TID
  <2>1. ~is_exit /\ ~is_exit'
    BY <1>1, <1>2, <1>3, <1>5 DEF IdleFacts, OnlyIdleLeft
  <2>2. Linked(priority_qs, IDLE_TASK_TID)
    BY <1>2, IdleTid DEF IdleFacts, IdleWaits
  <2>3. Linked(priority_qs', IDLE_TASK_TID)
    BY <1>0, <1>1, <1>2, <1>5, <2>2, IdleTid, ConsistentNow, LinkedGet
  <2>4. IdleWaits'
    BY <2>3 DEF IdleWaits, Linked
  <2> QED BY <1>2, <2>1, <2>4 DEF IdleFacts, OnlyIdleLeft, HaltedQuiet
<1> QED BY <1>4, <1>5

\* A system call is made by another task, so the idle task has not been told to
\* leave and is in its ready queue, and the kernel goes on even if the caller exits.
LEMMA QuietCall ==
    ASSUME Base, IdleFacts, Call, ~panicked
    PROVE  IdleFacts'
<1>0. SafeInv /\ TypeInv /\ kpc = "user" /\ active # IDLE_TASK_TID
  BY DEF Base, SafeInv, Call, kernel_pass, kernel_mytid, kernel_parenttid, kernel_create,
     kernel_send, kernel_receive, kernel_reply, kernel_await_event, kernel_exit, Quit, kernel_panic, Syscall
<1>1. active # NoTask
  BY <1>0 DEF TypeInv, ActiveAtPc
<1>2. UNCHANGED <<is_exit, idle_done>>
  BY DEF Call, kernel_pass, kernel_mytid, kernel_parenttid, kernel_create,
     kernel_send, kernel_receive, kernel_reply, kernel_await_event, kernel_exit, Quit, kernel_panic, idleVars
<1>3. ~is_exit
  BY <1>0, <1>1 DEF IdleFacts, OnlyIdleLeft
<1>4. Linked(priority_qs, IDLE_TASK_TID)
  BY <1>0 DEF IdleFacts, IdleWaits
<1>5. Linked(priority_qs', IDLE_TASK_TID)
  BY <1>0, <1>4, IdleTid, CallsKeepReady
<1>6. IdleWaits'
  BY <1>5 DEF IdleWaits, Linked
<1>7. ~scheduler_empty(bitmap)
  BY <1>4, EmptyBitmap, EmptyUnlinked
<1>8. kpc' = "dispatch" \/ active' # NoTask
  BY <1>1, <1>7 DEF Call, kernel_pass, kernel_mytid, kernel_parenttid, kernel_create,
     kernel_send, kernel_receive, kernel_reply, kernel_await_event, kernel_exit, ExitActive, Quit, kernel_panic, ToDispatch
<1> QED BY <1>2, <1>3, <1>6, <1>8 DEF IdleFacts, OnlyIdleLeft, HaltedQuiet

\* A waiter is woken, so the idle task has not been told to leave.
LEMMA QuietWake ==
    ASSUME SafeInv, IdleFacts, EventWake
    PROVE  IdleFacts'
<1> DEFINE t == Head(await_qs[event])
<1>1. /\ event \in Events /\ await_qs[event] # <<>> /\ await_qs \in [Events -> Seq(Tids)]
      /\ priority_qs' = Enqueue(priority_qs, priority[t], t)
      /\ UNCHANGED <<active, kpc, is_exit, idle_done>> /\ kpc = "event"
  BY DEF SafeInv, TypeInv, TypeOK, EventWake, scheduler_put, idleVars
<1>2. ~is_exit
  BY <1>1 DEF IdleFacts, OnlyIdleLeft
<1>3. t \in Tids
  BY <1>1, HeadTailProperties
<1> HIDE DEF t
<1>4. Linked(priority_qs, IDLE_TASK_TID) => Linked(priority_qs', IDLE_TASK_TID)
  <2>1. priority[t] \in Priorities /\ priority_qs \in [Priorities -> Seq(Tids)]
    BY <1>3, ConsistentNow
  <2> QED BY <1>1, <1>3, <2>1, LinkedPut
<1>5. IdleWaits'
  BY <1>1, <1>4 DEF IdleFacts, IdleWaits, Linked
<1> QED BY <1>1, <1>2, <1>5 DEF IdleFacts, OnlyIdleLeft, HaltedQuiet

\* The interrupted task is put back.
LEMMA QuietDone ==
    ASSUME SafeInv, IdleFacts, EventDone
    PROVE  IdleFacts'
<1>1. /\ priority_qs' = Enqueue(priority_qs, priority[active], active)
      /\ UNCHANGED <<await_qs, is_exit, idle_done>> /\ kpc = "event" /\ kpc' = "dispatch" /\ active' = NoTask
  BY DEF EventDone, scheduler_put, ToDispatch, idleVars
<1>2. active \in Tids /\ active # NoTask
  BY <1>1, ActiveIsTask DEF SafeInv, TypeInv, ActiveAtPc
<1>3. /\ priority[active] \in Priorities /\ priority_qs \in [Priorities -> Seq(Tids)] /\ LinkedOnce(priority_qs)
      /\ \A p \in Priorities : ~In(priority_qs[p], active)
  BY <1>2, CallerFacts, ConsistentNow
<1>4. /\ Linked(priority_qs', active)
      /\ Linked(priority_qs, IDLE_TASK_TID) => Linked(priority_qs', IDLE_TASK_TID)
  BY <1>1, <1>2, <1>3, LinkedPut
<1>5. \A p \in Priorities, x \in Tids :
         In(priority_qs'[p], x) <=> In(priority_qs[p], x) \/ (p = priority[active] /\ x = active)
  <2>1. \A p \in Priorities, x \in Tids :
           In(Enqueue(priority_qs, priority[active], active)[p], x)
           <=> In(priority_qs[p], x) \/ (p = priority[active] /\ x = active)
    BY <1>2, <1>3, FamilyPut
  <2> QED BY <1>1, <2>1
<1>6. IdleWaits'
  <2>1. Linked(priority_qs', IDLE_TASK_TID)
    BY <1>1, <1>4 DEF IdleFacts, IdleWaits
  <2> QED BY <2>1 DEF IdleWaits, Linked
<1>7. OnlyIdleLeft'
  BY <1>1, <1>2, <1>5 DEF IdleFacts, OnlyIdleLeft
<1> QED BY <1>1, <1>6, <1>7 DEF IdleFacts, HaltedQuiet

\* The idle task exits: nothing else is ready, so the kernel stops.
LEMMA QuietExit ==
    ASSUME Base, IdleFacts, IdleAlone, IdleExits
    PROVE  IdleFacts'
<1>1. /\ kpc = "user" /\ active = IDLE_TASK_TID /\ idle_done
      /\ UNCHANGED <<priority_qs, await_qs, is_exit, idle_done>> /\ active' = NoTask
      /\ kpc' = IF scheduler_empty(bitmap) THEN "halted" ELSE "dispatch"
  BY DEF IdleExits, ExitActive, schVars, irqVars, idleVars
<1>2. (\A p \in Priorities : priority_qs[p] = <<>>) /\ \A e \in Events : await_qs[e] = <<>>
  BY <1>1 DEF IdleAlone, IdleFacts, OnlyIdleLeft
<1>3. kpc' = "halted"
  BY <1>1, <1>2, EmptyUnlinked
<1> QED BY <1>1, <1>2, <1>3 DEF IdleFacts, OnlyIdleLeft, IdleWaits, HaltedQuiet

\* Every step keeps QuietInv.
LEMMA QuietStep ==
    ASSUME Base, IdleAlone' \/ panicked' \/ ~IdleIsLowest', QuietInv, [Next]_vars
    PROVE  QuietInv'
<1>0. SafeInv /\ TypeInv /\ priority[IDLE_TASK_TID] = IdlePriority
  BY DEF Base, SafeInv, QuietInv
<1>1. priority'[IDLE_TASK_TID] = IdlePriority
  <2>1. IDLE_TASK_TID \in Created
    BY <1>0 DEF TypeInv, TypeOK, Created, IDLE_TASK_TID
  <2> QED BY <1>0, <2>1, PriorityStays
<1> SUFFICES ASSUME ~panicked', IdleIsLowest' PROVE IdleFacts'
  BY <1>1 DEF QuietInv
<1>2. ~panicked
  BY PanicStays
<1>3. IdleIsLowest
  BY <1>0, PriorityStays DEF IdleIsLowest
<1>4. IdleFacts
  BY <1>2, <1>3 DEF QuietInv
<1>5. IdleAlone
  BY <1>0, <1>2, <1>3, IdleRunsAlone
<1>6. CASE Dispatch
  BY <1>4, <1>6, QuietDispatch
<1>7. CASE NoneReady
  <2>1. \A p \in Priorities : priority_qs[p] = <<>>
    BY <1>2, <1>7, EmptyBitmap DEF NoneReady
  <2>2. ~Linked(priority_qs, IDLE_TASK_TID)
    BY <2>1, EmptyUnlinked
  <2>3. active = NoTask /\ kpc # "halted"
    BY <1>0, <1>7 DEF NoneReady, TypeInv, ActiveAtPc
  <2> QED BY <1>4, <2>2, <2>3, IdleTid DEF IdleFacts, IdleWaits
<1>8. CASE Call
  BY <1>2, <1>4, <1>8, QuietCall
<1>9. CASE IdleLeavesLoop
  <2>1. UNCHANGED <<priority_qs, await_qs, active, kpc, is_exit>> /\ is_exit
    BY <1>9 DEF IdleLeavesLoop, schVars, irqVars
  <2> QED BY <1>4, <2>1 DEF IdleFacts, OnlyIdleLeft, IdleWaits, HaltedQuiet, Linked
<1>10. CASE IdleExits
  BY <1>4, <1>5, <1>10, QuietExit
<1>11. CASE Interrupt
  <2>1. /\ UNCHANGED <<priority_qs, await_qs, active, is_exit, idle_done>>
        /\ kpc = "user" /\ kpc' = "event"
    BY <1>11 DEF Interrupt, TimerInterrupt, ReceiveInterrupt, ModemInterrupt, TransmitInterrupt,
       UnexpectedInterrupt, TakeInterrupt, idleVars
  <2> QED BY <1>4, <2>1 DEF IdleFacts, OnlyIdleLeft, IdleWaits, HaltedQuiet, Linked
<1>12. CASE EventWake
  BY <1>0, <1>4, <1>12, QuietWake
<1>13. CASE EventDone
  BY <1>0, <1>4, <1>13, QuietDone
<1>14. CASE UNCHANGED vars
  <2>1. UNCHANGED <<priority_qs, await_qs, active, kpc, is_exit, idle_done>>
    BY <1>14 DEF vars, schVars, irqVars, idleVars
  <2> QED BY <1>4, <2>1 DEF IdleFacts, OnlyIdleLeft, IdleWaits, HaltedQuiet, Linked
<1> QED BY <1>6, <1>7, <1>8, <1>9, <1>10, <1>11, <1>12, <1>13, <1>14 DEF Next, Stopped

\* If every other task has a better priority than the idle task, the kernel stops by
\* itself only when no task is ready and none waits for an interrupt.
THEOREM KernelStopsOnlyWhenQuiet == ASSUME ~FreeReply PROVE Spec => []StopsOnlyWhenQuiet
<1>1. Init => QuietInv
  <2> SUFFICES ASSUME Init PROVE QuietInv
    OBVIOUS
  <2>1. priority[IDLE_TASK_TID] = IdlePriority
    BY IdleTid DEF Init, FirstPriority, IDLE_TASK_TID
  <2>2. ~is_exit /\ ~idle_done /\ kpc = "dispatch"
    BY DEF Init
  <2>3. IdleWaits
    <3>1. 0 \in Tids /\ 1 \in Tids /\ UserPriority \in Priorities /\ IdlePriority \in Priorities
      BY KernelAssumption DEF Tids, Priorities, WordSize
    <3> DEFINE q0 == [p \in Priorities |-> <<>>]
               q1 == Enqueue(q0, UserPriority, 0)
    <3>2. q0 \in [Priorities -> Seq(Tids)]
      BY EmptySeq
    <3>3. priority_qs = Enqueue(q1, IdlePriority, 1)
      BY DEF Init, IDLE_TASK_TID
    <3> HIDE DEF q0
    <3>4. q1 \in [Priorities -> Seq(Tids)]
      BY <3>1, <3>2, LinkedPut
    <3> HIDE DEF q1
    <3>5. Linked(priority_qs, 1)
      BY <3>1, <3>3, <3>4, LinkedPut
    <3> QED BY <3>5 DEF IdleWaits, IDLE_TASK_TID
  <2> QED BY <2>1, <2>2, <2>3 DEF QuietInv, IdleFacts, OnlyIdleLeft, HaltedQuiet
<1>2. Spec => []SafeInv
  <2>1. SafeInv /\ [Next]_vars => SafeInv'
    BY SafeStep
  <2> QED BY <2>1, SafeInit, PTL DEF Spec
<1>3. Spec => []BitmapExact /\ []HighestPriorityRuns
  BY BitmapStaysExact, BestQueuedTaskRuns
<1>4. SafeInv /\ BitmapExact /\ HighestPriorityRuns => Base
  BY DEF Base
<1> DEFINE Alone == Base /\ priority[IDLE_TASK_TID] = IdlePriority => IdleAlone \/ panicked \/ ~IdleIsLowest
<1>5. Alone
  BY IdleRunsAlone
<1>6. Base /\ Base' /\ Alone' /\ QuietInv /\ [Next]_vars => QuietInv'
  <2> SUFFICES ASSUME Base, Base', Alone', QuietInv, [Next]_vars PROVE QuietInv'
    OBVIOUS
  <2>1. priority'[IDLE_TASK_TID] = IdlePriority
    <3>1. TypeInv /\ priority[IDLE_TASK_TID] = IdlePriority
      BY DEF Base, SafeInv, QuietInv
    <3>2. IDLE_TASK_TID \in Created
      BY <3>1 DEF TypeInv, TypeOK, Created, IDLE_TASK_TID
    <3> QED BY <3>1, <3>2, PriorityStays
  <2> QED BY <2>1, QuietStep
<1>7. QuietInv => StopsOnlyWhenQuiet
  BY DEF QuietInv, IdleFacts, HaltedQuiet, StopsOnlyWhenQuiet
<1> HIDE DEF Alone
<1> QED BY <1>1, <1>2, <1>3, <1>4, <1>5, <1>6, <1>7, PTL DEF Spec
=============================================================================
