------------------------------- MODULE Kernel -------------------------------
(***************************************************************************)
(* The microkernel of src/main.c: the loop scheduler_get / activate /      *)
(* handle, the system calls, the interrupt handler with the event handler  *)
(* of src/event_handler/event_handler.c, and the idle task.                *)
(*                                                                         *)
(* The kernel is single threaded and runs with interrupts off, so a system *)
(* call is one atomic step between two user instructions of the active     *)
(* task; an interrupt can be taken only while a task runs.  Tasks are the  *)
(* environment: the active task may make any call in Calls.                *)
(*                                                                         *)
(* The three intrusive lists a task can be linked in (ready_node,          *)
(* send_node, await_node) are sequences of tids.  That is sound as long as *)
(* no node is linked twice, which NodesLinkedOnce states.                  *)
(***************************************************************************)
EXTENDS SchedulerOps, FiniteSets

CONSTANTS MaxTasks,          \* TASK_DESCRIPTOR_MAX_TASKS (64)
          NumPriorities,     \* SCHEDULER_PRIORITY_COUNT (64)
          UserPriority,      \* priority of user_main (1)
          IdlePriority,      \* priority of idle_main (28)
          CreatePriorities,  \* the priorities tasks pass to Create
          Lens,              \* the message and reply sizes tasks use
          AwaitedEvents,     \* the arguments tasks pass to AwaitEvent
          Bytes,             \* values of the UART data and flag registers
          BootEnabled,       \* interrupt sources already enabled at boot
          Calls,             \* the system calls tasks make
          FreeReply          \* tasks may Reply to any task, not only to one whose
                             \* message they have received and not yet answered

\* The interrupt sources of a UART that the kernel knows an event for ...
UartEvents == {"UART1_RX", "UART1_MS", "UART1_TX", "UART2_RX", "UART2_TX"}

\* ... and those for which handle calls kernel_panic: a receive timeout of either
\* UART, and an interrupt of a device that has no vector.
UnhandledSources == {"UART1_RT", "UART2_RT", "OTHER"}

\* Events with an await queue.  "UNUSED" stands for an event number below
\* EVENT_HANDLER_MAX_EVENTS that no interrupt raises.
Events == UartEvents \cup {"TIMER", "UNUSED"}

CallNames == {"Create", "Pass", "MyTid", "MyParentTid", "Send", "Receive", "Reply",
              "AwaitEvent", "Exit", "Quit", "Panic"}

ASSUME KernelAssumption ==
    /\ MaxTasks \in Nat /\ MaxTasks >= 2
    /\ NumPriorities \in 1 .. WordSize
    /\ UserPriority \in 0 .. NumPriorities - 1
    /\ IdlePriority \in 0 .. NumPriorities - 1
    /\ CreatePriorities \subseteq Int
    /\ Lens \subseteq Nat
    /\ AwaitedEvents \subseteq Events \cup {"BAD"}
    /\ Bytes \subseteq Nat
    /\ BootEnabled \subseteq UartEvents \cup UnhandledSources
    /\ Calls \subseteq CallNames
    /\ FreeReply \in BOOLEAN

Tids == 0 .. MaxTasks - 1
Priorities == 0 .. NumPriorities - 1
NoTask == -1
NoEvent == "NONE"
IDLE_TASK_TID == 1

TaskStates == {"READY", "EXITED", "SEND_BLOCKED", "RECEIVE_BLOCKED",
               "REPLY_BLOCKED", "EVENT_BLOCKED"}

VARIABLES
    bitmap, priority_qs,        \* scheduler_t
    next_free_td,               \* ctx->next_free_td
    tid, priority, parent,      \* task_descriptor_t: identity,
    state, send_q, ret,         \* scheduling state, senders, r0 on return,
    msg_len, rep_len,           \* message_params
    await_qs,                   \* event_handler_t
    enabled,                    \* interrupt enable bits (UART CTLR, VIC)
    active,                     \* active_td, NoTask while the kernel picks one
    kpc,                        \* where the kernel is
    event, retVal,              \* locals of handle during an interrupt
    is_exit, idle_done,         \* the idle task's flag; it has left its loop
    owed, lost, panicked,       \* history, see below
    receiving                   \* history: the task's last call was Receive

(***************************************************************************)
(* History variables.  owed[r]: the tasks whose message r has received and *)
(* not yet answered.  lost: the tasks that an error return of              *)
(* kernel_create or kernel_receive left in no queue.  panicked:            *)
(* kernel_panic has run.                                                   *)
(***************************************************************************)

schVars  == <<bitmap, priority_qs>>
tdVars   == <<next_free_td, tid, priority, parent>>
msgVars  == <<send_q, msg_len, rep_len>>
irqVars  == <<await_qs, enabled, event, retVal>>
idleVars == <<is_exit, idle_done>>
history  == <<owed, lost, panicked>>
vars == <<schVars, tdVars, state, ret, msgVars, irqVars, active, kpc, idleVars,
          history, receiving>>

Created == 0 .. next_free_td - 1

-----------------------------------------------------------------------------
(***************************************************************************)
(* Initial state: user_main and the idle task are ready.  The descriptor   *)
(* array is a local variable of main in memory that reads zero, so a slot  *)
(* not yet initialised has tid 0 and state READY (0).                      *)
(***************************************************************************)

FirstPriority == [t \in Tids |-> IF t = 0 THEN UserPriority ELSE IF t = IDLE_TASK_TID THEN IdlePriority ELSE 0]

Init ==
    /\ bitmap = PutBit(PutBit({}, UserPriority), IdlePriority)
    /\ priority_qs = Enqueue(Enqueue([p \in Priorities |-> <<>>], UserPriority, 0),
                              IdlePriority, IDLE_TASK_TID)
    /\ next_free_td = 2
    /\ tid = [t \in Tids |-> IF t = IDLE_TASK_TID THEN IDLE_TASK_TID ELSE 0]
    /\ priority = FirstPriority
    /\ parent = [t \in Tids |-> IF t = IDLE_TASK_TID THEN 0 ELSE NoTask]
    /\ state = [t \in Tids |-> "READY"]
    /\ send_q = [t \in Tids |-> <<>>]
    /\ ret = [t \in Tids |-> 0]
    /\ msg_len = [t \in Tids |-> 0]
    /\ rep_len = [t \in Tids |-> 0]
    /\ await_qs = [e \in Events |-> <<>>]
    /\ enabled = BootEnabled
    /\ active = NoTask
    /\ kpc = "dispatch"
    /\ event = NoEvent
    /\ retVal = 0
    /\ is_exit = FALSE
    /\ idle_done = FALSE
    /\ owed = [t \in Tids |-> {}]
    /\ lost = {}
    /\ panicked = FALSE
    /\ receiving = [t \in Tids |-> FALSE]

-----------------------------------------------------------------------------
(***************************************************************************)
(* The kernel loop: pick a task, or stop when none is ready.               *)
(***************************************************************************)

\* Mutant: the loop looks at the first queue only.
FirstQueueEmpty == await_qs["TIMER"] = <<>>

event_handler_empty == \A e \in Events : await_qs[e] = <<>>

\* Mutant: the flag is not refreshed.
FlagNotUpdated(t) == is_exit' = is_exit

\* update_idle_task, called when the task picked is the idle task.
update_idle_task(t) == is_exit' = IF t = IDLE_TASK_TID THEN event_handler_empty ELSE is_exit

Dispatch ==
    /\ kpc = "dispatch"
    /\ ~scheduler_empty(bitmap)
    /\ active' = NextReady(bitmap, priority_qs)
    /\ priority_qs' = GetReady(bitmap, priority_qs)
    /\ bitmap' = GetBit(bitmap, priority_qs)
    /\ update_idle_task(active')
    /\ kpc' = "user"
    /\ UNCHANGED <<tdVars, state, ret, msgVars, irqVars, idle_done, history, receiving>>

NoneReady ==
    /\ kpc = "dispatch"
    /\ scheduler_empty(bitmap)
    /\ kpc' = "halted"
    /\ UNCHANGED <<schVars, tdVars, state, ret, msgVars, irqVars, active, idleVars, history, receiving>>

\* main has returned to the boot loader.
Stopped == kpc = "halted" /\ UNCHANGED vars

-----------------------------------------------------------------------------
(***************************************************************************)
(* System calls.  Syscall(c) holds when the active task traps with call c. *)
(* Every handler but Exit and Quit ends with the return value stored in    *)
(* the caller's r0 and the kernel looking for the next task.               *)
(***************************************************************************)

Syscall(c) ==
    /\ kpc = "user"
    /\ active # IDLE_TASK_TID
    /\ c \in Calls
    /\ receiving' = [receiving EXCEPT ![active] = (c = "Receive")]

ToDispatch == kpc' = "dispatch" /\ active' = NoTask

\* scheduler_put(ctx->sch, t): link t, set its bit, make it READY.
scheduler_put(t) ==
    /\ bitmap' = PutBit(bitmap, priority[t])
    /\ priority_qs' = Enqueue(priority_qs, priority[t], t)
    /\ state' = [state EXCEPT ![t] = "READY"]

\* Mutant: the caller is not put back.
PutOnlyOther(t, pt) ==
    /\ bitmap' = PutBit(bitmap, pt)
    /\ priority_qs' = Enqueue(priority_qs, pt, t)
    /\ state' = [state EXCEPT ![t] = "READY"]

\* scheduler_put of the task t, then of the active task.
PutThenActive(t, pt) ==
    /\ bitmap' = PutBit(PutBit(bitmap, pt), priority[active])
    /\ priority_qs' = Enqueue(Enqueue(priority_qs, pt, t), priority[active], active)
    /\ state' = [state EXCEPT ![t] = "READY", ![active] = "READY"]

\* The call returns r at once: the caller is put back at the end of its queue.
ReturnsNow(r) ==
    /\ scheduler_put(active)
    /\ ret' = [ret EXCEPT ![active] = r]

\* The call blocks the caller in state s; 0 is stored as its return value.
BlocksCaller(s) ==
    /\ state' = [state EXCEPT ![active] = s]
    /\ ret' = [ret EXCEPT ![active] = 0]
    /\ UNCHANGED schVars

kernel_pass ==
    /\ Syscall("Pass")
    /\ ReturnsNow(0)
    /\ ToDispatch
    /\ UNCHANGED <<tdVars, msgVars, irqVars, idleVars, history>>

kernel_mytid ==
    /\ Syscall("MyTid")
    /\ ReturnsNow(tid[active])
    /\ ToDispatch
    /\ UNCHANGED <<tdVars, msgVars, irqVars, idleVars, history>>

kernel_parenttid ==
    /\ Syscall("MyParentTid")
    /\ ReturnsNow(IF parent[active] = NoTask THEN -1 ELSE tid[parent[active]])
    /\ ToDispatch
    /\ UNCHANGED <<tdVars, msgVars, irqVars, idleVars, history>>

\* Mutant: `>` for `>=`.
TableFullOffByOne == next_free_td > MaxTasks

TableFull == next_free_td >= MaxTasks

\* Error returns of kernel_create: the caller is not put back.
CreateFails(p) ==
    /\ p \notin Priorities \/ TableFull
    /\ ret' = [ret EXCEPT ![active] = IF p \notin Priorities THEN -1 ELSE -2]
    /\ lost' = lost \cup {active}
    /\ UNCHANGED <<schVars, tdVars, state, msgVars, owed, panicked>>

CreateSucceeds(p) ==
    LET t == next_free_td
    IN  /\ p \in Priorities /\ ~TableFull
        \* task_descriptor_init
        /\ tid' = [tid EXCEPT ![t] = t]
        /\ priority' = [priority EXCEPT ![t] = p]
        /\ parent' = [parent EXCEPT ![t] = active]
        /\ send_q' = [send_q EXCEPT ![t] = <<>>]
        /\ PutThenActive(t, p)
        /\ next_free_td' = next_free_td + 1
        /\ ret' = [ret EXCEPT ![t] = 0, ![active] = t]
        /\ UNCHANGED <<msg_len, rep_len, history>>

kernel_create(p) ==
    /\ Syscall("Create")
    /\ CreateFails(p) \/ CreateSucceeds(p)
    /\ ToDispatch
    /\ UNCHANGED <<irqVars, idleVars>>

-----------------------------------------------------------------------------
(* Message passing. *)

\* Mutant: the receiver's state is not looked at.
NeverWaiting(to) == FALSE

WaitsForMessage(to) == state[to] = "SEND_BLOCKED"

SendRejected(to, len) ==
    /\ \/ tid[to] # to
       \/ WaitsForMessage(to) /\ msg_len[to] # len
    /\ ReturnsNow(IF tid[to] # to THEN -1 ELSE -2)
    /\ UNCHANGED <<msgVars, owed>>

\* Mutant: the caller is put back although it is REPLY_BLOCKED.
SendReadiesBoth(to) ==
    /\ bitmap' = PutBit(PutBit(bitmap, priority[to]), priority[active])
    /\ priority_qs' = Enqueue(Enqueue(priority_qs, priority[to], to), priority[active], active)

\* Only the receiver is put in its ready queue.
SendReadies(to) ==
    /\ bitmap' = PutBit(bitmap, priority[to])
    /\ priority_qs' = Enqueue(priority_qs, priority[to], to)

\* Mutant: the receiver's return value is not set.
SendReturnsNoTid(to) == [ret EXCEPT ![active] = 0]

\* Receive returns the sender's tid; Send returns 0, once it is replied to.
SendReturns(to) == [ret EXCEPT ![to] = tid[active], ![active] = 0]

\* The receiver waits: copy the message, wake it, wait for its reply.
SendDelivers(to, len, rlen) ==
    /\ tid[to] = to /\ WaitsForMessage(to) /\ msg_len[to] = len
    /\ SendReadies(to)
    /\ state' = [state EXCEPT ![to] = "READY", ![active] = "REPLY_BLOCKED"]
    /\ ret' = SendReturns(to)
    /\ rep_len' = [rep_len EXCEPT ![active] = rlen]
    /\ owed' = [owed EXCEPT ![to] = @ \cup {active}]
    /\ UNCHANGED <<send_q, msg_len>>

\* The receiver does not wait: queue behind its other senders.
SendQueues(to, len, rlen) ==
    /\ tid[to] = to /\ ~WaitsForMessage(to)
    /\ BlocksCaller("RECEIVE_BLOCKED")
    /\ send_q' = Enqueue(send_q, to, active)
    /\ msg_len' = [msg_len EXCEPT ![active] = len]
    /\ rep_len' = [rep_len EXCEPT ![active] = rlen]
    /\ UNCHANGED owed

kernel_send(to, len, rlen) ==
    /\ Syscall("Send")
    /\ SendRejected(to, len) \/ SendDelivers(to, len, rlen) \/ SendQueues(to, len, rlen)
    /\ ToDispatch
    /\ UNCHANGED <<tdVars, irqVars, idleVars, lost, panicked>>

\* Mutant: the sender is READY as soon as its message is received.
TakenIsReady(sender) == [state EXCEPT ![active] = "READY", ![sender] = "READY"]

\* The states after a message is received from a queued sender.
TakenState(sender) == [state EXCEPT ![active] = "READY", ![sender] = "REPLY_BLOCKED"]

\* A sender waits: take the first.  If the sizes differ the call fails, and the
\* sender has already been taken out of the queue.
ReceiveTakes(len) ==
    LET sender == Head(send_q[active])
    IN  /\ send_q[active] # <<>>
        /\ send_q' = Dequeue(send_q, active)
        /\ bitmap' = PutBit(bitmap, priority[active])
        /\ priority_qs' = Enqueue(priority_qs, priority[active], active)
        /\ IF msg_len[sender] # len
           THEN /\ ret' = [ret EXCEPT ![active] = -1]
                /\ state' = [state EXCEPT ![active] = "READY"]
                /\ lost' = lost \cup {sender}
                /\ UNCHANGED owed
           ELSE /\ ret' = [ret EXCEPT ![active] = tid[sender]]
                /\ state' = TakenState(sender)
                /\ owed' = [owed EXCEPT ![active] = @ \cup {sender}]
                /\ UNCHANGED lost
        /\ UNCHANGED msg_len

ReceiveBlocks(len) ==
    /\ send_q[active] = <<>>
    /\ BlocksCaller("SEND_BLOCKED")
    /\ msg_len' = [msg_len EXCEPT ![active] = len]
    /\ UNCHANGED <<send_q, owed, lost>>

kernel_receive(len) ==
    /\ Syscall("Receive")
    /\ ReceiveTakes(len) \/ ReceiveBlocks(len)
    /\ ToDispatch
    /\ UNCHANGED <<tdVars, rep_len, irqVars, idleVars, panicked>>

ReplyRejected(to, rlen) ==
    /\ tid[to] # to \/ rep_len[to] # rlen
    /\ ReturnsNow(IF tid[to] # to THEN -1 ELSE -2)
    /\ UNCHANGED owed

\* The reply wakes its addressee, whatever state that task is in.
ReplyWakes(to, rlen) ==
    /\ tid[to] = to /\ rep_len[to] = rlen
    /\ PutThenActive(to, priority[to])
    /\ ret' = [ret EXCEPT ![to] = 0, ![active] = 0]
    /\ owed' = [owed EXCEPT ![active] = @ \ {to}]

\* Tasks that keep to the protocol reply to a task they owe a reply, or to a tid
\* that does not exist.
kernel_reply(to, rlen) ==
    /\ Syscall("Reply")
    /\ FreeReply \/ to \in owed[active] \/ tid[to] # to
    /\ ReplyRejected(to, rlen) \/ ReplyWakes(to, rlen)
    /\ ToDispatch
    /\ UNCHANGED <<tdVars, msgVars, irqVars, idleVars, lost, panicked>>

-----------------------------------------------------------------------------
(* Waiting for events, leaving, panic. *)

AwaitRejected(e) ==
    /\ e \notin Events
    /\ ReturnsNow(-1)
    /\ UNCHANGED <<await_qs, enabled>>

\* The switch of kernel_await_event: the enable bit it sets.
Arms(e) == IF e \in UartEvents THEN {e} ELSE {}

\* The interrupt of a UART event is enabled, then the caller is queued.
AwaitQueues(e) ==
    /\ e \in Events
    /\ enabled' = enabled \cup Arms(e)
    /\ BlocksCaller("EVENT_BLOCKED")
    /\ await_qs' = Enqueue(await_qs, e, active)

kernel_await_event(e) ==
    /\ Syscall("AwaitEvent")
    /\ AwaitRejected(e) \/ AwaitQueues(e)
    /\ ToDispatch
    /\ UNCHANGED <<tdVars, msgVars, event, retVal, idleVars, history>>

\* Exit of the active task: the kernel stops if no task is ready.
ExitActive ==
    /\ state' = [state EXCEPT ![active] = "EXITED"]
    /\ kpc' = IF scheduler_empty(bitmap) THEN "halted" ELSE "dispatch"
    /\ active' = NoTask
    /\ UNCHANGED <<schVars, tdVars, ret, msgVars, irqVars, history>>

kernel_exit == Syscall("Exit") /\ ExitActive /\ UNCHANGED idleVars

Quit ==
    /\ Syscall("Quit")
    /\ kpc' = "halted"
    /\ UNCHANGED <<schVars, tdVars, state, ret, msgVars, irqVars, active, idleVars, history>>

\* kernel_panic: `ctx->sch->bitmap = 0ULL`.
ForgetReadyTasks == bitmap' = {}

\* panic() and every unknown SWI code: the ready queues are forgotten and the
\* caller is not put back, so the loop finds no task and stops.
kernel_panic ==
    /\ Syscall("Panic")
    /\ ForgetReadyTasks
    /\ ret' = [ret EXCEPT ![active] = 0]
    /\ panicked' = TRUE
    /\ ToDispatch
    /\ UNCHANGED <<priority_qs, tdVars, state, msgVars, irqVars, idleVars, owed, lost>>

(* The idle task. *)

IdleLeavesLoop ==
    /\ kpc = "user" /\ active = IDLE_TASK_TID
    /\ is_exit /\ ~idle_done
    /\ idle_done' = TRUE
    /\ UNCHANGED <<schVars, tdVars, state, ret, msgVars, irqVars, active, kpc, is_exit, history, receiving>>

IdleExits ==
    /\ kpc = "user" /\ active = IDLE_TASK_TID
    /\ idle_done
    /\ ExitActive
    /\ UNCHANGED <<idleVars, receiving>>

-----------------------------------------------------------------------------
(***************************************************************************)
(* Interrupts.  Any source whose enable bit is set may be the one that is  *)
(* asserted and served.  The handler names the event and the value to      *)
(* return, wakes every task that waits for the event (one EventWake each), *)
(* and puts the interrupted task back.                                     *)
(***************************************************************************)

TakeInterrupt(e, val) ==
    /\ kpc = "user"
    /\ kpc' = "event"
    /\ event' = e
    /\ retVal' = val
    /\ UNCHANGED <<priority_qs, tdVars, state, ret, msgVars, await_qs, active, idleVars,
                   owed, lost, receiving>>

\* Mutant: the tick is acknowledged and its waiters are not woken.
TickNotHandled ==
    /\ TakeInterrupt(NoEvent, 0)
    /\ UNCHANGED <<bitmap, enabled, panicked>>

TimerInterrupt ==
    /\ TakeInterrupt("TIMER", 0)
    /\ UNCHANGED <<bitmap, enabled, panicked>>

\* A received byte: reading the data register clears the interrupt.
ReceiveInterrupt(e, val) ==
    /\ e \in {"UART1_RX", "UART2_RX"} \cap enabled
    /\ TakeInterrupt(e, val)
    /\ UNCHANGED <<bitmap, enabled, panicked>>

\* Mutant: the interrupt stays enabled.
StaysEnabled(e) == enabled

\* `CTLR &= ~mask`
Disable(e) == enabled \ {e}

\* A modem status change: returns the flags and disables itself.
ModemInterrupt(val) ==
    /\ "UART1_MS" \in enabled
    /\ TakeInterrupt("UART1_MS", val)
    /\ enabled' = Disable("UART1_MS")
    /\ UNCHANGED <<bitmap, panicked>>

\* Transmitter ready: disables itself.
TransmitInterrupt(e) ==
    /\ e \in {"UART1_TX", "UART2_TX"} \cap enabled
    /\ TakeInterrupt(e, 0)
    /\ enabled' = Disable(e)
    /\ UNCHANGED <<bitmap, panicked>>

\* No branch matches: kernel_panic, then the handler goes on.  In the UART cases
\* single_event is still 0, which is SYS_CALL_EVENT_TIMER.
UnexpectedInterrupt(s) ==
    /\ s \in UnhandledSources \cap enabled
    /\ TakeInterrupt(IF s = "OTHER" THEN NoEvent ELSE "TIMER", 0)
    /\ ForgetReadyTasks
    /\ panicked' = TRUE
    /\ UNCHANGED enabled

\* One iteration of the loop of event_handler_handle_event.
EventWake ==
    /\ kpc = "event" /\ event # NoEvent
    /\ await_qs[event] # <<>>
    /\ LET t == Head(await_qs[event])
       IN  /\ scheduler_put(t)
           /\ ret' = [ret EXCEPT ![t] = retVal]
    /\ await_qs' = Dequeue(await_qs, event)
    /\ UNCHANGED <<tdVars, msgVars, enabled, event, retVal, active, kpc, idleVars, history, receiving>>

\* Mutant: the interrupted task is not put back.
EventDoneDropsActive ==
    /\ kpc = "event"
    /\ event # NoEvent => await_qs[event] = <<>>
    /\ ToDispatch
    /\ event' = NoEvent /\ retVal' = 0
    /\ UNCHANGED <<bitmap, priority_qs, state>>
    /\ UNCHANGED <<tdVars, ret, msgVars, await_qs, enabled, idleVars, history, receiving>>

\* The end of handle: scheduler_put(ctx->sch, active_td).
EventDone ==
    /\ kpc = "event"
    /\ event # NoEvent => await_qs[event] = <<>>
    /\ scheduler_put(active)
    /\ ToDispatch
    /\ event' = NoEvent /\ retVal' = 0
    /\ UNCHANGED <<tdVars, ret, msgVars, await_qs, enabled, idleVars, history, receiving>>

-----------------------------------------------------------------------------
Interrupt ==
    \/ TimerInterrupt
    \/ \E e \in UartEvents, val \in Bytes : ReceiveInterrupt(e, val)
    \/ \E val \in Bytes : ModemInterrupt(val)
    \/ \E e \in UartEvents : TransmitInterrupt(e)
    \/ \E s \in UnhandledSources : UnexpectedInterrupt(s)

Call ==
    \/ kernel_pass
    \/ kernel_mytid
    \/ kernel_parenttid
    \/ \E p \in CreatePriorities : kernel_create(p)
    \/ \E to \in Tids, len, rlen \in Lens : kernel_send(to, len, rlen)
    \/ \E len \in Lens : kernel_receive(len)
    \/ \E to \in Tids, rlen \in Lens : kernel_reply(to, rlen)
    \/ \E e \in AwaitedEvents : kernel_await_event(e)
    \/ kernel_exit
    \/ Quit
    \/ kernel_panic

Next == \/ Dispatch \/ NoneReady \/ Stopped
        \/ Call
        \/ IdleLeavesLoop \/ IdleExits
        \/ Interrupt \/ EventWake \/ EventDone

Spec == Init /\ [][Next]_vars

(***************************************************************************)
(* Fairness.  The kernel never stops between two of its own steps.  The    *)
(* systick timer fires every 10 ms and stays asserted until it is served,  *)
(* and it is the first in the vectored order, so a task cannot run forever *)
(* with it pending: strong fairness.  The idle task executes instructions  *)
(* whenever it runs, and its loop and its Exit are a few instructions      *)
(* between two ticks: strong fairness too.  Nothing is assumed of what     *)
(* other tasks call.                                                       *)
(***************************************************************************)
Fairness ==
    /\ WF_vars(Dispatch) /\ WF_vars(NoneReady)
    /\ WF_vars(EventWake) /\ WF_vars(EventDone)
    /\ SF_vars(TimerInterrupt)
    /\ SF_vars(IdleLeavesLoop) /\ SF_vars(IdleExits)

FairSpec == Spec /\ Fairness

-----------------------------------------------------------------------------
(***************************************************************************)
(* Properties.                                                             *)
(***************************************************************************)

\* Every field of the kernel's structures has its type.
TypeOK ==
    /\ bitmap \subseteq Priorities
    /\ priority_qs \in [Priorities -> Seq(Tids)]
    /\ next_free_td \in 2 .. MaxTasks
    /\ tid \in [Tids -> Tids]
    /\ priority \in [Tids -> Priorities]
    /\ parent \in [Tids -> Tids \cup {NoTask}]
    /\ state \in [Tids -> TaskStates]
    /\ send_q \in [Tids -> Seq(Tids)]
    /\ ret \in [Tids -> Int]
    /\ msg_len \in [Tids -> Nat] /\ rep_len \in [Tids -> Nat]
    /\ await_qs \in [Events -> Seq(Tids)]
    /\ enabled \subseteq UartEvents \cup UnhandledSources
    /\ active \in Tids \cup {NoTask}
    /\ kpc \in {"dispatch", "user", "event", "halted"}
    /\ event \in Events \cup {NoEvent} /\ retVal \in Nat
    /\ is_exit \in BOOLEAN /\ idle_done \in BOOLEAN
    /\ owed \in [Tids -> SUBSET Tids] /\ lost \subseteq Tids /\ panicked \in BOOLEAN
    /\ receiving \in [Tids -> BOOLEAN]

\* Task t is in the queue q.
In(q, t) == \E i \in DOMAIN q : q[i] = t

\* Task t is in one of the queues qs.
Linked(qs, t) == \E k \in DOMAIN qs : In(qs[k], t)

\* No task is twice in the queue q.
NoRepeat(q) == \A i, j \in DOMAIN q : q[i] = q[j] => i = j

\* No task is twice in the queues qs.
LinkedOnce(qs) ==
    /\ \A k \in DOMAIN qs : NoRepeat(qs[k])
    /\ \A k1, k2 \in DOMAIN qs : \A t \in Tids : In(qs[k1], t) /\ In(qs[k2], t) => k1 = k2

\* No intrusive list node is ever put while it is still linked: a second
\* queue_put of a linked ready_node, send_node or await_node would cut the list
\* it is in.
NodesLinkedOnce == LinkedOnce(priority_qs) /\ LinkedOnce(send_q) /\ LinkedOnce(await_qs)

\* Tasks in a ready queue are READY and not active, and it is that of their priority.
ReadyMatch ==
    \A p \in Priorities, t \in Tids : In(priority_qs[p], t) =>
        t \in Created /\ state[t] = "READY" /\ priority[t] = p /\ t # active

\* Queued senders are RECEIVE_BLOCKED.
SendersMatch == \A r, t \in Tids : In(send_q[r], t) => t \in Created /\ state[t] = "RECEIVE_BLOCKED"

\* Tasks in an await queue are EVENT_BLOCKED.
WaitersMatch == \A e \in Events, t \in Tids : In(await_qs[e], t) => t \in Created /\ state[t] = "EVENT_BLOCKED"

\* Tasks that are owed a reply are REPLY_BLOCKED.
OwedMatch == \A r \in Tids : \A t \in owed[r] : t \in Created /\ state[t] = "REPLY_BLOCKED"

\* The active task is READY.
ActiveMatch == active # NoTask => active \in Created /\ state[active] = "READY"

\* A task is in a queue only in the state that queue is for: ready tasks are READY
\* and in the queue of their priority, queued senders RECEIVE_BLOCKED, waiters
\* EVENT_BLOCKED, tasks that are owed a reply REPLY_BLOCKED; the active task is in
\* no ready queue.
QueuesMatchState == ReadyMatch /\ SendersMatch /\ WaitersMatch /\ OwedMatch /\ ActiveMatch

\* At most one task owes a sender its reply, so that the sender is woken once.
OwedOnce == \A r, q \in Tids : r # q => owed[r] \cap owed[q] = {}

\* No task is forgotten: short of a panic, every task that no failing Create or
\* Receive has dropped is where some later step of the kernel will find it.
NoneForgotten ==
    ~panicked => \A t \in Created \ lost :
        /\ state[t] = "READY" => t = active \/ Linked(priority_qs, t)
        /\ state[t] = "RECEIVE_BLOCKED" => Linked(send_q, t)
        /\ state[t] = "EVENT_BLOCKED" => Linked(await_qs, t)
        /\ state[t] = "REPLY_BLOCKED" => \E r \in Tids : t \in owed[r]

\* The bitmap scheduler_get searches never names an empty queue, and short of a
\* panic misses none that holds a task.
BitmapExact ==
    /\ \A p \in bitmap : priority_qs[p] # <<>>
    /\ ~panicked => \A p \in Priorities : priority_qs[p] # <<>> => p \in bitmap

\* A receiver never sleeps while a sender waits for it: kernel_receive blocks only
\* on an empty send_q and kernel_send never queues behind a waiting receiver.
NoSleepingReceiver == \A r \in Created : state[r] = "SEND_BLOCKED" => send_q[r] = <<>>

\* When Receive returns a task id, that task has sent, is blocked until the reply,
\* and the receiver is the one that owes it, whichever of the two came first.
ReceiveReturnsSender ==
    \A t \in Created : receiving[t] /\ state[t] = "READY" /\ ret[t] >= 0 => ret[t] \in owed[t]

\* No ready task has a better priority than the task that runs.
HighestPriorityRuns ==
    kpc = "user" /\ ~panicked =>
        \A p \in Priorities : priority_qs[p] # <<>> => priority[active] <= p

\* A task in Send is woken only by the reply of the task that received its message,
\* and then Send returns 0.
SendBlocksUntilReply ==
    [][\A t \in Created :
          /\ state[t] \in {"RECEIVE_BLOCKED", "REPLY_BLOCKED"}
          /\ state'[t] \notin {"RECEIVE_BLOCKED", "REPLY_BLOCKED"}
          => active # NoTask /\ t \in owed[active] /\ state'[t] = "READY" /\ ret'[t] = 0]_vars

\* An interrupt that a task waits for is enabled until it is being handled.
AwaitedIsEnabled ==
    \A e \in UartEvents : await_qs[e] # <<>> => e \in enabled \/ (kpc = "event" /\ event = e)

\* A level-triggered transmit or modem interrupt is enabled only while a task
\* waits for it: otherwise it would be taken again after every user instruction.
EnabledIsAwaited ==
    \A e \in {"UART1_TX", "UART1_MS", "UART2_TX"} \ BootEnabled :
        e \in enabled => await_qs[e] # <<>>

\* What kernel_await_event enables and the interrupt handler disables stays in step.
EnabledWhileAwaited == AwaitedIsEnabled /\ EnabledIsAwaited

\* The other tasks all have a better priority than the idle task, as idle_main
\* expects.
IdleIsLowest == \A t \in Created \ {IDLE_TASK_TID} : priority[t] < IdlePriority

\* The kernel stops by itself only when nothing can ever happen: no task is ready
\* and none waits for an interrupt (idle_main exits on is_exit, computed when it
\* was last activated).
StopsOnlyWhenQuiet ==
    kpc = "halted" /\ active = NoTask /\ ~panicked /\ IdleIsLowest =>
        /\ \A e \in Events : await_qs[e] = <<>>
        /\ \A p \in Priorities : priority_qs[p] = <<>>

\* The task that runs is the best of those that are ready to run, that is in state
\* READY: "returns the highest priority TD that is ready to run" (scheduler.h).
BestReadyTaskRuns ==
    kpc = "user" => \A t \in Created : state[t] = "READY" => priority[active] <= priority[t]

\* No task but the idle task can ever run again.
Quiet == \A t \in Created \ {IDLE_TASK_TID} :
            state[t] \in {"EXITED", "SEND_BLOCKED", "RECEIVE_BLOCKED", "REPLY_BLOCKED"}

\* When every task has exited or waits for another, the kernel stops.
QuietKernelStops == Quiet ~> kpc = "halted"

\* A task that waits for the timer is woken.
TimerWaiterWakes ==
    \A t \in Tids : In(await_qs["TIMER"], t) ~> (state[t] = "READY" \/ kpc = "halted")

\* A ready task of the best priority gets the processor, whatever the other tasks
\* do: preemption by the timer and the FIFO order of its queue.
BestPriorityRuns ==
    \A t \in Tids : (t \in Created /\ priority[t] = 0 /\ Linked(priority_qs, t))
        ~> (active = t \/ kpc = "halted")
=============================================================================
