----------------------------- MODULE ClockServer -----------------------------
(***************************************************************************)
(* The clock server of src/clock_server/clock_server.c, its notifier, the  *)
(* tasks that call Delay, DelayUntil, Time and clock_server_exit, and the  *)
(* timer.                                                                  *)
(*                                                                         *)
(* The tasks meet through Send, Receive and Reply as module Kernel models  *)
(* them: a message waits in the server's send queue in FIFO order, the     *)
(* sender is blocked until the reply.  The server's own state is touched   *)
(* by the server only, so the handling of one message is one step.  The    *)
(* notifier and the clients can be anywhere in their code between any two  *)
(* steps of the server.                                                    *)
(*                                                                         *)
(* `ticks` is a uint32_t, the times in messages and entries are ints: a    *)
(* machine word has Width bits here, and the conversions between the two   *)
(* are those of C.                                                         *)
(***************************************************************************)
EXTENDS Integers, SequencesExt

CONSTANTS Clients,       \* the tasks that use the clock server
          Requests,      \* the messages they send
          Width,         \* bits of int and uint32_t (32)
          MaxEntries     \* TASK_DESCRIPTOR_MAX_TASKS (64)

Word == 2 ^ Width
IntMax == 2 ^ (Width - 1) - 1
Ints == -(IntMax + 1) .. IntMax
RequestTypes == {"TIME", "DELAY", "DELAYUNTIL", "EXIT"}

ASSUME ClockAssumption ==
    /\ Width \in Nat \ {0}
    /\ Requests \subseteq [type : RequestTypes, time : Ints]
    /\ IsFiniteSet(Clients) /\ MaxEntries \in Nat /\ Cardinality(Clients) <= MaxEntries
    /\ "notifier" \notin Clients
    /\ IntMax \in Nat /\ Word = 2 * (IntMax + 1)     \* true of powers of two

Idle == [type |-> "NONE", time |-> 0]

VARIABLES
    inbox,          \* the server's send queue: [from, type, time]
    server,         \* "serving", "draining" (after EXIT) or "exited"
    ticks,
    blocked,        \* queue_t blocked: [tid, ticks]
    free,           \* number of entries in free_list
    exiter_tid,
    notifier,       \* what the notifier does
    call,           \* the request each client is blocked in, or Idle
    result,         \* what its last call returned, 0 during the next
    elapsed         \* history: timer interrupts since it called Delay, up to IntMax

serverVars == <<server, ticks, blocked, free, exiter_tid>>
clientVars == <<call, result, elapsed>>
vars == <<inbox, serverVars, notifier, clientVars>>

Init ==
    /\ inbox = <<>>
    /\ server = "serving"
    /\ ticks = 0
    /\ blocked = <<>>
    /\ free = MaxEntries
    /\ exiter_tid = "none"
    /\ notifier = "running"
    /\ call = [c \in Clients |-> Idle]
    /\ result = [c \in Clients |-> 0]
    /\ elapsed = [c \in Clients |-> 0]

-----------------------------------------------------------------------------
(* The timer and the notifier. *)

\* A timer interrupt wakes the notifier if it waits for it; otherwise the tick is
\* lost, since the kernel finds nobody in the await queue.
Tick ==
    /\ notifier' = IF notifier = "awaiting" THEN "woken" ELSE notifier
    /\ elapsed' = [c \in Clients |->
                     IF call[c].type = "DELAY" /\ elapsed[c] < IntMax THEN elapsed[c] + 1 ELSE elapsed[c]]
    /\ UNCHANGED <<inbox, serverVars, call, result>>

NotifierAwaits ==
    /\ notifier = "running"
    /\ notifier' = "awaiting"
    /\ UNCHANGED <<inbox, serverVars, clientVars>>

NotifierSends ==
    /\ notifier = "woken"
    /\ notifier' = "sending"
    /\ inbox' = Append(inbox, [from |-> "notifier", type |-> "TICK", time |-> 0])
    /\ UNCHANGED <<serverVars, clientVars>>

\* The reply was of type EXIT.
NotifierExits ==
    /\ notifier = "leaving"
    /\ notifier' = "exited"
    /\ UNCHANGED <<inbox, serverVars, clientVars>>

-----------------------------------------------------------------------------
(* The wrappers: Delay, DelayUntil, Time and clock_server_exit. *)

Calls(c, r) ==
    /\ call[c] = Idle
    /\ call' = [call EXCEPT ![c] = r]
    /\ inbox' = Append(inbox, [from |-> c, type |-> r.type, time |-> r.time])
    /\ result' = [result EXCEPT ![c] = 0]
    /\ UNCHANGED <<serverVars, notifier, elapsed>>

\* The caller passed a tid that is not a task's: Send fails at once.
CallsNobody(c, r) ==
    /\ call[c] = Idle
    /\ r.type # "EXIT"
    /\ result' = [result EXCEPT ![c] = -1]
    /\ UNCHANGED <<inbox, serverVars, notifier, call, elapsed>>

\* What the call of c returns when the server replies with rep.  Delay and
\* DelayUntil look for ERROR in the message they sent, not in the reply.
Returned(c, rep) == IF call[c].type = "TIME" THEN rep.time ELSE 0

Replies(c, rep) ==
    /\ call' = [call EXCEPT ![c] = Idle]
    /\ result' = [result EXCEPT ![c] = Returned(c, rep)]
    /\ elapsed' = [elapsed EXCEPT ![c] = 0]

-----------------------------------------------------------------------------
(* The server. *)

\* The conversions between uint32_t and int.
ToInt(u) == IF u > IntMax THEN u - Word ELSE u
ToUnsigned(i) == i % Word

\* Mutant: the counter does not wrap.
CountsOn(u) == u + 1

NextTick(u) == (u + 1) % Word

\* Mutant: `>=` for `>`.
DueOneEarly(now, entry) == now >= ToUnsigned(entry.ticks)

Due(now, entry) == now > ToUnsigned(entry.ticks)

Receives(type) ==
    /\ server = "serving"
    /\ inbox # <<>> /\ Head(inbox).type = type
    /\ inbox' = Tail(inbox)

\* Mutant: the notifier is not answered.
NotifierForgotten == notifier' = notifier

\* `Reply(sender_tid, &msg, sizeof(msg))`, unblock notifier
NotifierReplied == notifier' = "running"

\* Mutant: queue_peek without queue_get.
KeepsFront == blocked' = blocked /\ free' = free + 1

\* queue_get(&blocked) and queue_put(&free_list, &front->node)
ReleasesFront == blocked' = Tail(blocked) /\ free' = free + 1

HandleTick ==
    /\ Receives("TICK")
    /\ NotifierReplied
    /\ ticks' = NextTick(ticks)
    /\ IF blocked # <<>> /\ Due(ticks', Head(blocked))
       THEN /\ ReleasesFront
            /\ Replies(Head(blocked).tid, [type |-> "TICK", time |-> ToInt(ticks')])
       ELSE UNCHANGED <<blocked, free, clientVars>>
    /\ UNCHANGED <<server, exiter_tid>>

HandleTime ==
    /\ Receives("TIME")
    /\ Replies(Head(inbox).from, [type |-> "TIME", time |-> ToInt(ticks)])
    /\ UNCHANGED <<serverVars, notifier>>

\* Mutant: new entries go to the end.
InsertLast(s, e) == Append(s, e)

\* Before the first entry that is due later than e, behind all that are not.
InsertSorted(s, e) ==
    LET Later(x) == x.ticks > e.ticks
        i == SelectInSeq(s, Later)
    IN  IF i = 0 THEN Append(s, e) ELSE InsertAt(s, i, e)

\* The part of the switch that DELAY and DELAYUNTIL share.
BlockUntil(c, time) ==
    IF time <= 0
    THEN /\ Replies(c, [type |-> "ERROR", time |-> 0])
         /\ UNCHANGED <<blocked, free>>
    ELSE IF ToUnsigned(time) < ticks
    THEN /\ Replies(c, [type |-> "TICK", time |-> ToInt(ticks)])
         /\ UNCHANGED <<blocked, free>>
    ELSE /\ blocked' = InsertSorted(blocked, [tid |-> c, ticks |-> time])
         /\ free' = free - 1
         /\ UNCHANGED clientVars

HandleDelay ==
    /\ Receives("DELAY")
    /\ LET msg == Head(inbox)
       IN  IF msg.time <= 0
           THEN /\ Replies(msg.from, [type |-> "ERROR", time |-> 0])
                /\ UNCHANGED <<blocked, free>>
           ELSE BlockUntil(msg.from, ToInt(ToUnsigned(msg.time + ticks)))
    /\ UNCHANGED <<server, ticks, exiter_tid, notifier>>

HandleDelayUntil ==
    /\ Receives("DELAYUNTIL")
    /\ BlockUntil(Head(inbox).from, Head(inbox).time)
    /\ UNCHANGED <<server, ticks, exiter_tid, notifier>>

HandleExit ==
    /\ Receives("EXIT")
    /\ server' = "draining"
    /\ exiter_tid' = Head(inbox).from
    /\ UNCHANGED <<ticks, blocked, free, notifier, clientVars>>

\* Mutant: the reply is of type TICK.
NotifierGoesOn == notifier' = "running"

NotifierDismissed == notifier' = "leaving"

\* After EXIT: messages are taken and not answered until the notifier's comes; the
\* notifier and the task that asked for the exit are answered.
Drain ==
    /\ server = "draining"
    /\ inbox # <<>>
    /\ inbox' = Tail(inbox)
    /\ IF Head(inbox).type = "TICK"
       THEN /\ NotifierDismissed
            /\ Replies(exiter_tid, [type |-> "EXIT", time |-> -1])
            /\ server' = "exited"
       ELSE UNCHANGED <<notifier, clientVars, server>>
    /\ UNCHANGED <<ticks, blocked, free, exiter_tid>>

-----------------------------------------------------------------------------
Handle == HandleTick \/ HandleTime \/ HandleDelay \/ HandleDelayUntil \/ HandleExit \/ Drain

Next ==
    \/ Tick \/ NotifierAwaits \/ NotifierSends \/ NotifierExits
    \/ \E c \in Clients, r \in Requests : Calls(c, r) \/ CallsNobody(c, r)
    \/ Handle

Spec == Init /\ [][Next]_vars

(***************************************************************************)
(* Fairness.  The timer interrupts for ever.  The notifier and the server  *)
(* get the processor when they are ready, as tasks of a better priority    *)
(* than those that compute without blocking.  Nothing is assumed of the    *)
(* clients.                                                                *)
(***************************************************************************)
Fairness ==
    /\ WF_vars(Tick /\ notifier = "awaiting")
    /\ WF_vars(NotifierAwaits) /\ WF_vars(NotifierSends) /\ WF_vars(NotifierExits)
    /\ WF_vars(Handle)

FairSpec == Spec /\ Fairness

-----------------------------------------------------------------------------
Entries == [tid : Clients, ticks : Ints]
Messages == [from : Clients \cup {"notifier"}, type : RequestTypes \cup {"TICK"}, time : Ints]

\* Every variable has its type; in particular an entry is free whenever the server
\* takes one (queue_get of an empty free_list returns NULL), and ticks is a word.
TypeOK ==
    /\ inbox \in Seq(Messages)
    /\ server \in {"serving", "draining", "exited"}
    /\ ticks \in 0 .. Word - 1
    /\ blocked \in Seq(Entries)
    /\ free \in 0 .. MaxEntries
    /\ exiter_tid \in Clients \cup {"none"}
    /\ notifier \in {"running", "awaiting", "woken", "sending", "leaving", "exited"}
    /\ call \in [Clients -> Requests \cup {Idle}]
    /\ result \in [Clients -> Ints]
    /\ elapsed \in [Clients -> 0 .. IntMax]

\* The list the server walks and whose front it alone looks at on a tick is in the
\* order of its deadlines, all of them positive.
BlockedSorted ==
    /\ \A i \in DOMAIN blocked : blocked[i].ticks > 0
    /\ \A i, j \in DOMAIN blocked : i < j => blocked[i].ticks <= blocked[j].ticks

\* How many times the server will still meet client c.
Places(c) == Cardinality({i \in DOMAIN inbox : inbox[i].from = c})
             + Cardinality({i \in DOMAIN blocked : blocked[i].tid = c})

\* While the server serves, a client blocked in a call is in one place, the send
\* queue or the blocked list, and no other client is in any: each is answered once.
OnePlacePerCaller ==
    server = "serving" => \A c \in Clients : Places(c) = IF call[c] = Idle THEN 0 ELSE 1

\* The entries of the two lists are neither lost nor duplicated.
EntriesConserved == free + Len(blocked) = MaxEntries

\* The call of c returns in this step.
CallReturns(c) == call[c] # Idle /\ call'[c] = Idle

\* Delay blocks for at least the time asked for, counted in timer interrupts since
\* the call: late ticks can be queued ahead of the request, and ticks can be lost.
\* Requests whose end is beyond INT_MAX are left out.
DelayNotEarly ==
    [][\A c \in Clients :
          /\ CallReturns(c) /\ call[c].type = "DELAY" /\ call[c].time > 0
          /\ ~(inbox # <<>> /\ Head(inbox).from = c /\ ticks + call[c].time > IntMax)
          => elapsed[c] >= call[c].time]_vars

\* DelayUntil returns only once the server's clock is past the time asked for.
DelayUntilNotEarly ==
    [][\A c \in Clients :
          CallReturns(c) /\ call[c].type = "DELAYUNTIL" /\ call[c].time > 0 => ticks' > call[c].time]_vars

\* No call to Delay or DelayUntil returns early.
NotEarly == DelayNotEarly /\ DelayUntilNotEarly

\* Every call returns as long as nobody shuts the server down.
CallsReturn == \A c \in Clients : call[c] # Idle ~> (call[c] = Idle \/ server # "serving")

\* clock_server_exit "shuts down clock server, will also shut down respective
\* notifier" (clock_server.h), and returns.
ShutdownCompletes ==
    /\ server = "draining" ~> (server = "exited" /\ notifier = "exited")
    /\ \A c \in Clients : (server = "draining" /\ exiter_tid = c) ~> call[c] = Idle
=============================================================================
