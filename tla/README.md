# Verification of the armv4 microkernel

TLA+ models, TLC runs and TLAPS proofs for the kernel and the servers of this
repository: a preemptive, priority-scheduled, message-passing microkernel for the
TS-7200 (ARM v4) in about 2000 lines of C. Paths below are relative to the
repository root.

## 1. Inventory

| component | state | operations | correct when |
|---|---|---|---|
| scheduler, `src/scheduler/scheduler.c` | `bitmap` (64 bits), 64 ready queues | put, get, empty, bit search | the bitmap agrees with the queues; get returns the oldest task of the best priority |
| queue, `src/queue/queue.c` | `front`, `back`, `elements`, `next` of each node | put, put_front, get, peek, size, empty, mtf | count and links agree, nothing is lost; a node is in one list |
| kernel, `src/main.c` | descriptors, ready queues, await queues, interrupt enables | the loop, 11 system calls, the interrupt handler | no task is forgotten or linked twice; a rendezvous is never missed; the best task runs; it stops exactly when it should |
| event handler, `src/event_handler/event_handler.c` | one await queue per event | add_task, handle_event, empty | every waiter is woken, with the value of its event |
| task descriptor, `src/task_descriptor/` | tid, priority, parent, state, nodes, message parameters | init, set_return_value | with the kernel |
| idle task, `src/main.c` | `is_exit`, non-idle time | loop, Exit | ends only when nobody can run again |
| system call stubs, `src/sys_call/sys_call.c` | none | one trap each | with the kernel |
| ring buffer, `src/ringbuffer/ringbuffer.c` | two indexes, an array | get, put, putn, empty, full, size | a FIFO of size - 1 bytes |
| clock server, `src/clock_server/clock_server.c` | ticks, sorted list of sleeping callers, pool of entries | Delay, DelayUntil, Time, exit; notifier | no delay ends early, every call is answered once, shutdown completes |
| name server, `src/name_server/name_server.c` | list of (name, tid) | RegisterAs, WhoIs, exit | WhoIs returns the latest registration, and returns |
| I/O server, `src/io_server/io_server.c` | two ring buffers, `tx_ready`, one waiting client | Getc, Putc, Putstr, exit; RX, CTS and TX notifiers | bytes in order, none lost, writes paced by clear-to-send on COM1, nobody answered twice, shutdown completes |
| context switch `activate`, start-up and clean-up code, `bwio`, `cstdlib` | registers, devices | | not modelled, see section 7 |

**How they interact.** The kernel is single threaded and runs with interrupts off:
a system call is atomic. Everything is concurrent above it: an interrupt can come
between any two instructions of a task, and tasks interleave as priorities and
preemption allow. Kernel structures share nodes: each descriptor has one node for
the ready queues, one for the send queues and one for the await queues, and no
operation checks whether a node is already linked. Servers are tasks that loop on
Receive; clients are blocked in Send until the Reply; notifiers are tasks that loop
on AwaitEvent and Send. The clock server also writes the pointers of a `queue_t`
itself.

**What is hard.** Both orders of a rendezvous; error returns in the middle of a
call; interrupts that are enabled by one task and disabled by the handler; the idle
flag computed at one time and used at another; ticks that are lost or arrive late;
integer conversions in the clock; clients that poll instead of blocking; flags
that outlive the message that set them; shutdown while clients go on calling or while a
notifier waits. The list
with lines is `hazards` in `PROJECT.json`.

## 2. Modules

| module | models |
|---|---|
| `SchedulerOps` | the operators of the scheduler: a word is the set of its one bits, a queue a sequence |
| `Scheduler`, `MCScheduler` | the scheduler on its own, refined to `PriorityFIFO` |
| `PriorityFIFO` | abstract: one FIFO per priority, get takes from the best |
| `Queue` | the linked lists at pointer level, refined to `Deques` |
| `Deques` | abstract: sequences over one pool of elements |
| `Kernel` | `src/main.c` with the event handler, the descriptors and the idle task; uses `SchedulerOps` |
| `RingBuffer`, `BoundedFIFO` | the ring buffer and what it promises |
| `MCContainers` | `Queue` and `RingBuffer` for TLC, side by side: a behaviour uses one of them |
| `ClockServer`, `MCClockServer` | clock server, notifier, clients, timer |
| `NameServer`, `MCNameServer` | name server, `strncpy`, `strncmp`, clients with programs and priorities, refined to `NameRegistry` |
| `NameRegistry` | abstract: one register per name, a lookup blocks until it is written |
| `IoServer`, `MCIoServer` | I/O server, its three notifiers, clients, UART |
| `SchedulerLemmas`, `SchedulerProofs`, `QueueProofs`, `KernelProofs`, `RingBufferProofs`, `ClockProofs`, `NameProofs`, `IoProofs` | theorems |

The modules stand on each other as the code does: `Queue` shows that the linked
lists are sequences, provided that no node is put twice (`QueueImplements`); `Kernel` uses
sequences and shows that no node is put twice (`NodesStayLinkedOnce`); `Scheduler` shows
that bitmap and search are a priority queue (`SchedulerImplements`), and `Kernel` uses the
same operators; `ClockServer`, `NameServer` and
`IoServer` use the rendezvous that `Kernel` models, as a FIFO of messages whose senders
are blocked (`SendBlocksUntilReply`); `IoServer` uses the ring buffers as bounded
sequences, which is what `RingBuffer` shows (`RingBufferImplements`); `NameServer` takes its fairness from
`BestPriorityRuns`.

### Kernel

One action per system call (`kernel_send`, `kernel_receive`, ... named as in the
code), each a disjunction of the outcomes of its function (`SendRejected`,
`SendDelivers`, `SendQueues`); `Dispatch` and `NoneReady` are the head of main's
loop, with `update_idle_task`; an interrupt is taken (`TimerInterrupt`,
`ReceiveInterrupt`, `ModemInterrupt`, `TransmitInterrupt`, `UnexpectedInterrupt`),
wakes waiters one at a time (`EventWake`) and ends with the interrupted task put back
(`EventDone`). `kpc` says where the kernel is. Tasks are the environment: the active
task makes any call of `Calls` with any argument, or none.

Abstractions: message contents are left out, message and reply lengths are kept since
the code branches on them. The value a task finds in r0 is `ret`. Descriptors that
were never initialised are assumed to read zero (main's array is not initialised by the
program), so `tid[t] # t` for them except slot 0, which is always in use. A tid is
below `MaxTasks`. `UNUSED` stands for all event numbers below 16 that no interrupt
raises, `BAD` for those that are rejected. `scheduler_put`'s error return is left out:
`queue_put` fails only for a NULL node.

History variables: `owed[r]`, whose message r has received and not answered; `lost`,
the tasks that an error return left in no queue; `panicked`; `receiving`. No guard
reads `lost`, `panicked` or `receiving`. `owed` is read by one guard: with
`FreeReply = FALSE`, tasks reply to messages they have received (or to a tid that does
not exist), which is what every server of the repository does; with `FreeReply = TRUE`
they reply to anybody.

### Queue

`front`, `back`, `elements` and `next` as in the code. `Uses` gives each queue the
operations the program uses it with: that matters because the clock server's
insertion leaves `back` stale, which is harmless only because nothing is appended to
that list. `queue_mtf` is used in two ways: `mtf` with any parent, as its comment allows,
and `mtf_second` with the front, where it does what it should. Peek, size and empty read
and change nothing.

### RingBuffer

All operations, with `(i + n) % Size` for the code's index arithmetic. The loop of
`ringbuffer_putn` is written as its result; `ImplementsBoundedFIFO` checks it.

### ClockServer

The handling of one message is one step: only the server touches its state, and its
Replies never block. The notifier has a step between each two of its calls, where
ticks are lost. `ticks` is unsigned and the times are signed words of `Width` bits;
comparisons convert as C does. `elapsed` counts timer interrupts since a call to Delay.
The entry pool is a count. Start-up (RegisterAs, WhoIs, Create) is before Init. A
message of the wrong size, which no wrapper sends, is left out.

### NameServer

Each client runs a program (a sequence of calls) and ends. Priorities are part of the
model because WhoIs polls: a task moves only if no ready task has a better priority
(`MayRun`). A name is a sequence of characters, cut to `MaxNameLen` by `strncpy` in the
message and in the entry. The list of entries is a sequence, newest first
(`queue_put_front`). `HandleReg` inserts whether or not a node is free, as the code does. Once
the list has more entries than there are nodes (`~MapValid`), its nodes are in the memory
behind the array, `node_data`: a lookup has any answer (`Answers`), and a request that follows
such a pointer may never end (`HandleNever`, the server is `stuck`). `default: continue` is
`HandleExit`: `continue` jumps to the condition of the loop, which ends. The refinement maps the
list to `name_map_find` of each name, a client that is between two polls to one that is still
blocked, and `MapValid` to the registry's `valid`: the abstract registry says nothing any more
when that is false.

### IoServer

One port; nothing is shared between the two servers but the UART interrupts, which
`Kernel` models. Start-up is `ServerStarts`, `TellsTx`, `TellsRx` and `CtsMeets`. A notifier
has a step between each two of its calls and writes, the clear-to-send notifier's Time
(`timing`) and DelayUntil (`delaying`) included; only a Receive and the Reply that follows it
are one step. The handling of a message is one step of the server. `tx_data` is what the transmit notifier has still to write. A
message's `len` is the length of its data. `HandleWrite` and `HandleRx` panic when a buffer is
full, which stops everything (`panicked`). An interrupt for the receive notifier that
comes when it does not wait is `ByteLost`. The test of the clear-to-send bit reads another
register than it means to (`src/io_server/io_server.c:86`, the offset is scaled by four), so
its outcome is arbitrary. History: `unsent` and `unread`, the bytes accepted and not yet
sent or read; `forgotten`, the readers whose place another reader took; `credit`, modem
status changes not yet used for a byte.

## 3. Runs

All passing runs finish within two minutes.

| run | question | bounds |
|---|---|---|
| `scheduler` | bitmap and queues agree; refines `PriorityFIFO` | 7 tasks at priorities 0, 1, 6, 31, 32, 63, 63: both sides of the halvings; all 64 levels |
| `containers` | lists well formed, refine `Deques`; ring buffer refines `BoundedFIFO` | 4 nodes in 3 queues: insertion at front, middle and end; 4 slots, blocks up to 4 (one too many), all initial contents |
| `kernel_ipc` | rendezvous, lists, priorities, failing calls | 4 descriptors (3 user tasks: two senders and a receiver), two sizes of messages and replies, a full table |
| `kernel_irq` | interrupts, idle task, stopping, panics in calls and in the handler | 4 descriptors, priorities above and below idle and a bad one, timer, three UART events and a bad event, two unhandled sources on |
| `kernel_live` | liveness | 4 descriptors, 2 priorities, timer only |
| `clock` | all requests, early and double answers, liveness, shutdown, wrap-around | 2 clients, short, long, absolute and invalid delays, 3-bit words: the clock wraps at 8, ints overflow at 4 |
| `name` | refines `NameRegistry` until the nodes run out; lookups return | 3 clients at 2 priorities with the server in between, programs of 2 calls, 3 names of which 2 agree up to the cut, 3 nodes |
| `io` | order of output, replies, pacing, buffers | 2 clients, both read and one writes, both ports and a bad one, 3 bytes of buffer, messages of 2 bytes, a string that is cut |
| `io_live` | order of input, liveness, shutdown | 1 client with every call, 2 different input bytes, 2 bytes of buffer, both ports |

Two senders and a receiver are the smallest set in which senders queue behind each
other, and three tasks the smallest in which a wrong task can be woken; a third
priority separates "better", "equal" and "worse". Words of 3 bits have all the cases
of a 32-bit word: zero, positive, overflow of the sum, unsigned beyond INT_MAX, wrap.
Insertion in the middle of the clock's list is in the `containers` run. A buffer of 3 bytes and
messages of 2 make a write meet an empty, a partly filled and a full buffer and leave a
rest behind a chunk; `io` has one input byte to stay within three million states, `io_live`
has two, so that an exchange shows. Two clients of the best priority are the smallest set
in which one polls while the other has to register.

### What the code does that its comments do not say

Three runs are expected to find a violation. Each states what a comment of the
repository says:

- `kernel_create_error`: a failing Create never puts its caller back (`src/main.c:148-153`);
  the caller is READY, in no queue, and a worse task runs.
- `io_exit`: io_server_exit does not end a server whose transmit notifier is idle
  (`src/io_server/io_server.c:292`): the notifier waits for a reply, and the shutdown loop
  for its message. `BusyShutdownCompletes` is the part that holds.
- `name_overflow`: the name map takes its next node without looking whether there is one
  (`src/name_server/name_server.c:101`), and re-registration takes a new one each time; the
  comment above speaks of a failing insertion and a valid state. `MapValid` does not hold. The
  run has 3 nodes instead of 256.

The passing runs are stated around these and around the following limits of the code,
which are conditions of the properties or of the environment:

- Receive drops a sender whose message has another size (`src/main.c:231-235`, a TODO);
  its Send returns neither 0 nor an error. It is in `lost`.
- `NoneForgotten` speaks of the tasks not in `lost`.
- Reply does not check that its addressee waits for a reply (`src/main.c:254-276`):
  `FreeReply = FALSE` is the discipline that keeps the lists whole.
- A panic in the interrupt handler (`src/main.c:421`, `:437`, `:445`) clears the bitmap and
  then puts the interrupted task back, so that task runs on. It takes an interrupt that
  no branch handles; start-up does not clear the UARTs' enable bits, which is why
  `kernel_irq` starts with such sources on. Properties about who runs are for `~panicked`.
- A Delay that ends beyond INT_MAX returns at once (`src/clock_server/clock_server.c:128`):
  `DelayNotEarly` speaks of sums that fit an int.
- Delay and DelayUntil look for the server's error in the message they sent
  (`src/clock_server/clock_server.c:45`, `:72`) and return 0 where `clock_server.h:17` says -2.
  `Returned` models it; no property speaks of it.
- A task that polls in WhoIs for a name that a task of a worse priority is to register
  keeps that task from running for ever (`src/name_server/name_server.c:68-78`):
  `WhoIsReturns` is for the tasks of the best priority.
- A second Getc takes the place of the reader that waits, which is never answered
  (`src/io_server/io_server.c:230`): `forgotten`.
- io_server_exit never returns, and the clear-to-send notifier never exits
  (`src/io_server/io_server.c:94`, `:290-307`): `AllExited` is the server, the receive and the
  transmit notifier.
- `queue_mtf` with a parent other than the front drops the nodes before it from the list and
  goes on counting them (`src/queue/queue.c:86-90`). Its one call is commented out, marked as
  broken. `Queue` models it for any parent (a queue with `mtf` in its `Uses` violates `CountExact`
  in four steps); the lists are sequences for `MtfOfFrontOnly`, as in the run `containers`.

## 4. Fairness

*Kernel.* Weak fairness of the kernel's own steps: it never waits. Strong fairness of
the timer interrupt: timer 3 is periodic, stays asserted until it is acknowledged and
is first in the vectored order. Strong fairness of the idle task's two steps: they are
a few instructions, a tick is 10 ms. Nothing is assumed of other tasks: a task that
never traps is a behaviour, so `BestPriorityRuns` rests on preemption.

*Clock server.* Weak fairness of the timer while the notifier waits, of the notifier
and of the server. That they get the processor is the business of whoever chooses
priorities (the notifier has priority 2; the repository never creates the server):
tasks that compute without blocking must be worse. Nothing is assumed of clients.

*Name server.* Strong fairness of each client and of the server: a task that is ready
and of the best priority again and again gets its turn, as the ready queues are FIFO and
the timer preempts. A task that is never of the best priority among the ready ones may
wait for ever.

*I/O server.* Weak fairness of the server and of its notifiers, as for the clock server
(the notifiers have priority 1), and of the UART. Of the outside: somebody types, as the
comment in the receive notifier asks ("requires user to type char when exiting"); on COM1
the other side goes on changing its clear-to-send line, the check of it does not fail for
ever (strong fairness, since the notifier goes round after a failed check), and a clock server
is registered and answers (`CallsReturn`). Nothing is assumed of clients.

## 5. Proofs

Every safety invariant, action property and refinement that a passing run checks is also a
theorem, for every value of the constants that satisfies the assumption of its module:
`SchedulerAssumption`, `QueueAssumption`, `KernelAssumption`, `RingBufferAssumption`,
`ClockAssumption`, `NameAssumption` or `IoAssumption`. These say what the constants are, and:
the clock has as many entries as clients, as in the code (one per task descriptor), and a word
has twice as many values as there are nonnegative ints, which the provers cannot find from
powers; the nodes of the lists are finitely many, and a queue whose `back` goes stale is not
appended to, which is how the program uses them; the ring buffer has a slot and a value to hold;
a client is not called like a notifier or like the name server. `MtfOfFrontOnly` is a hypothesis
of the theorems about the lists. `~FreeReply` below is the
discipline of section 2: tasks reply to messages they have received.

- `SchedulerLemmas`: `LowestBit`, the search returns the least element of any nonempty
  subset of 0..63. `NarrowLemma` carries two facts through the five halvings: what is
  left is the word shifted by `count - 1` places (`Shifted`), and it has a bit among the
  lowest k (`Within`).
- `SchedulerProofs`: `BitmapAlwaysExact` (`BitmapExact` with `TypeOK` is inductive) and
  `SchedulerImplements`, the step simulation to `PriorityFIFO`, which needs `LowestBit`
  and `BitmapExact`.
- `QueueProofs`: `QueueWellFormed` and `QueueImplements`. The refinement reads a sequence off
  the pointers by a recursive walk, of which nothing can be proved by induction. `ListsInv`
  goes the other way: there are sequences that the pointers hold (`ListsIn`), every node in at
  most one place, with front, links and count, and with `back` where the queue is appended to.
  `ListsRead` shows that such sequences are the ones the walk reads (the first place
  where they differ would follow a place where they agree; no list is longer than there are
  nodes); `Relisted` that an operation on one queue leaves the others alone, as it writes the
  `next` only of its own nodes and of a free one.
- `KernelProofs`, whatever the tasks do: `TypeCorrect`, `BitmapStaysExact` and
  `InterruptsMatchWaiters`. `TypeOK` is not inductive: that scheduler_get finds a task
  needs every bit of the bitmap to name a nonempty queue (`BitmapSound`), and that a
  system call has a caller needs `kpc` and `active` to agree (`ActiveAtPc`); `TypeInv` adds
  these. `Covers` says that before a panic the bitmap misses no queue. That an interrupt is
  enabled exactly while somebody waits for it needs that it is disabled while its waiters are
  woken one by one (`Disarmed`).
- `KernelProofs`, for `~FreeReply`: `NodesStayLinkedOnce`, `QueuesAlwaysMatchState`,
  `RendezvousNeverMissed`, `SendAlwaysBlocksUntilReply`. No one of these is inductive:
  that a node is not linked twice needs that a task about to be put is in no queue, which
  follows from its state; that states and queues agree needs that a Reply wakes a
  REPLY_BLOCKED task, which needs that a task is owed at most one reply; that needs that
  a task in Send is in one queue. `SafeInv` is their conjunction, with `TidsOfCreated`
  (a descriptor's tid is its index once it is created).
- On top of `SafeInv`: `BestQueuedTaskRuns` (`RunsInv`: the task picked was the best);
  `NoTaskForgotten`, which needs that nobody has sent to a task that does not exist yet, since
  Create empties the send queue (`UnusedQueuesEmpty`); `ReceiveAlwaysReturnsSender`, which needs
  that a task whose last call was Receive is ready, waits for a sender or has exited, so that no
  other call's return value is taken for a sender; `KernelStopsOnlyWhenQuiet`, which needs
  that the idle task is always ready or running, and that from when it is told to leave
  nobody else is ready or waits for an event (`OnlyIdleLeft`): the flag is computed at
  one dispatch and used later, and no interrupt in between can make it stale.
- `RingBufferProofs`: `RingBufferImplements`. The invariant is only that the indexes stay in
  the array; the work is the arithmetic of the wrapped indexes (`Wraps`) and a block that goes
  round the end.
- `ClockProofs`: `ClockSorted`, `ClockEntries`, `ClockTypes` and `ClockOnePlace`. That a caller is
  in one place needs to be said of senders and sleepers apart, and of the notifier, whose
  message is in the queue only while it waits (`TicksFromNotifier`); that nobody is answered
  twice in the shutdown needs that the task that asked for it is in no place any more
  (`ExiterWaits`). `ClockInv` is the conjunction. The pool is never empty when an entry is
  taken since the sleepers are different clients: `ClockTypes` follows from `ClockOnePlace`'s
  invariant, not by itself. `InsertSortedFacts` is what the walk through the list computes.
- `ClockNotEarly`, also in `ClockProofs`, on top of `ClockInv`. `AskedInv` ties the server's list
  to what the callers asked: a DelayUntil entry has the time asked for; for a Delay entry, the
  server has counted since it took the call at most one tick more than there were timer
  interrupts, namely the one the notifier had already taken (`Uncounted`); a
  message is the call its sender is blocked in; who waits in the shutdown called exit. The one
  tick is made up for by the server's comparison, which releases an entry only when the count is
  beyond it. Lost ticks only make the count smaller, and so does its wrap.
- `NameProofs`: `NameMessages` and `NameImplements`. `NameInv` adds the types, and that a client
  that is not ready is in a call of its program (`InCall`). The refinement needs that a message
  carries the cut name of the call its sender is blocked in, that the newest entry of a name
  hides the older ones (`Found`), and that the list never shrinks, so that the registry's `valid`,
  once false, stays so (`MapGrows`).
- `IoProofs`: `IoTypes`, `IoOutput`, `IoInput`, `IoReplies`, `IoOnePlace` and `IoPaced`. `IoInv` has five
  parts. `Placed`: nobody waits in two places, a notifier's message is in the queue only while
  it is in its Send, and a transmit notifier that the server holds back (`tx_ready`) is not in
  the queue. `Output` and `Input`: where bytes can be in each state of the notifiers, and that a
  waiting notifier or reader means an empty buffer: without this a byte handed over
  directly could overtake one in the buffer. `Pacing`: the permits on their way or in use are
  no more than the changes of the modem status, with the order of start-up, in which the
  clear-to-send notifier meets the transmit notifier once.

Only model-checked, since fairness and ENABLED are out of the prover's reach: the liveness
properties `BestPriorityRuns`, `TimerWaiterWakes`, `QuietKernelStops`, `CallsReturn`,
`ShutdownCompletes`, `WhoIsReturns`, `OutputNeverStalls`, `ReadersServed` and
`BusyShutdownCompletes`.

## 6. Plan

1. `Rendezvous`: an abstract specification of Send, Receive and Reply, refined by
   `Kernel` (with `SafeInv` and `ReceiveInv` the step simulation is at hand), and used by the
   servers.
2. The idle metrics (modulo 2^32), and the context switch at the level of saved
   registers, if it can be said without transliterating the assembly.

## 7. Not modelled

- `activate`, `kernel_entry`, `irq_entry`: register moves. `Kernel` takes from them that
  a task resumes where it was interrupted, with r0 = `ret` after a call.
- Device set-up: baud rates, timers, exception vectors, the VIC; `cleanup`.
- `bwio` and the log lines: formatting and polling of a UART register. A log line can come
  between the transmit interrupt and the write of the transmit notifier on COM2; `OutputInOrder`
  is for a port the server has to itself.
- `cstdlib/string.c` but for `strncpy` and `strncmp`: sequential functions without state.
- Messages of a size that no wrapper sends, after which the name and the clock server
  go on with the previous message.
- What a Send to a tid of 64 or more reads, outside the descriptor array.
- Non-idle time: accumulated and printed only.
