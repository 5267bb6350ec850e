----------------------------- MODULE NameServer -----------------------------
(***************************************************************************)
(* The name server of src/name_server/name_server.c and the tasks that     *)
(* call RegisterAs, WhoIs and name_server_exit.                            *)
(*                                                                         *)
(* Each client runs a program, a sequence of calls, and ends.  Messages    *)
(* wait in the server's send queue in FIFO order and the sender is blocked *)
(* until the reply, as in module Kernel.  Priorities are part of the model *)
(* because WhoIs does not block: it asks again until the name is known.  A *)
(* task takes a step only if no ready task has a better priority.          *)
(***************************************************************************)
EXTENDS Integers, Sequences, FiniteSets

CONSTANTS Clients,       \* the tids of the tasks that use the server
          Programs,      \* what they may set out to do: functions Clients -> Seq(Calls)
          Priority,      \* of each client and of the server, 0 is the best
          Names,         \* the names they use: sequences of characters
          MaxNameLen,    \* NAME_SERVER_MAX_NAME_LEN (12)
          MaxNames,      \* NAME_SERVER_MAX_NAMES (256)
          MaxCalls       \* bound on the length of a program

NAME_SERVER_TID == 2
NotFound == 1           \* the reply that means no entry; also the idle task's tid
Tasks == Clients \cup {NAME_SERVER_TID}
Calls == [type : {"REG", "WHO", "EXIT"}, name : Names]

ASSUME NameAssumption ==
    /\ Clients \subseteq Nat \ {NotFound, NAME_SERVER_TID}
    /\ MaxNameLen \in Nat /\ MaxNames \in Nat
    /\ \A n \in Names : n \in Seq(Nat)
    /\ Programs \subseteq [Clients -> Seq(Calls)]
    /\ MaxCalls \in Nat /\ \A p \in Programs, c \in Clients : Len(p[c]) <= MaxCalls
    /\ Priority \in [Tasks -> Nat]

VARIABLES
    server,         \* "absent", "serving", "exited" or "stuck"
    inbox,          \* its send queue: [from, type, name]
    map,            \* name_map_t: the entries [name, tid] put into it, front first
    todo,           \* the calls each client has still to make, the current one first
    phase,          \* of the current call: "ready", "sent" or "replied"
    rep             \* the last reply each client got

vars == <<server, inbox, map, todo, phase, rep>>

Init ==
    /\ server = "absent"
    /\ inbox = <<>>
    /\ map = <<>>
    /\ todo \in Programs
    /\ phase = [c \in Clients |-> "ready"]
    /\ rep = [c \in Clients |-> 0]

-----------------------------------------------------------------------------
(* Names.  Two copies and a comparison of at most MaxNameLen characters. *)

strncpy(name) == SubSeq(name, 1, IF Len(name) <= MaxNameLen THEN Len(name) ELSE MaxNameLen)

strncmp(lhs, rhs) == strncpy(lhs) = strncpy(rhs)

-----------------------------------------------------------------------------
(* Scheduling. *)

Ready(t) ==
    IF t = NAME_SERVER_TID THEN server = "serving" /\ inbox # <<>>
    ELSE todo[t] # <<>> /\ phase[t] # "sent"

MayRun(t) == Ready(t) /\ \A u \in Tasks : Ready(u) => Priority[t] <= Priority[u]

-----------------------------------------------------------------------------
(* The wrappers. *)

\* Some task creates the server; it is the first to be created after the idle task.
Create ==
    /\ server = "absent"
    /\ server' = "serving"
    /\ UNCHANGED <<inbox, map, todo, phase, rep>>

Call(c) == Head(todo[c])

Sends(c) ==
    /\ inbox' = Append(inbox, [from |-> c, type |-> Call(c).type, name |-> strncpy(Call(c).name)])
    /\ phase' = [phase EXCEPT ![c] = "sent"]
    /\ UNCHANGED <<server, map, todo, rep>>

Returns(c) ==
    /\ todo' = [todo EXCEPT ![c] = Tail(@)]
    /\ phase' = [phase EXCEPT ![c] = "ready"]
    /\ UNCHANGED <<server, inbox, map, rep>>

\* The first Send of a call.
Asks(c) == MayRun(c) /\ phase[c] = "ready" /\ server # "absent" /\ Sends(c)

\* No task has the server's tid yet: Send fails, the call returns -1.
AsksNobody(c) == MayRun(c) /\ phase[c] = "ready" /\ server = "absent" /\ Returns(c)

\* `while (rep == 1)`
AskAgain(c) == Call(c).type = "WHO" /\ rep[c] = NotFound

Polls(c) == MayRun(c) /\ phase[c] = "replied" /\ AskAgain(c) /\ Sends(c)

Finishes(c) == MayRun(c) /\ phase[c] = "replied" /\ ~AskAgain(c) /\ Returns(c)

-----------------------------------------------------------------------------
(* The server. *)

Replies(c, r) ==
    /\ phase' = [phase EXCEPT ![c] = "replied"]
    /\ rep' = [rep EXCEPT ![c] = r]

\* Mutant: new entries go to the back.
InsertsBack(name, tid) == map' = Append(map, [name |-> name, tid |-> tid])

\* The node behind those in use, at the front; nothing checks that there is one.
name_map_insert(name, tid) == map' = <<[name |-> strncpy(name), tid |-> tid]>> \o map

\* i is the first entry with this name.
IsFirst(i, name) ==
    /\ i \in DOMAIN map
    /\ strncmp(map[i].name, name)
    /\ \A j \in DOMAIN map : j < i => ~strncmp(map[j].name, name)

\* The tid of the first entry with this name, or NotFound.
name_map_find(name) ==
    IF \E i \in DOMAIN map : strncmp(map[i].name, name)
    THEN map[CHOOSE i \in DOMAIN map : IsFirst(i, name)].tid
    ELSE NotFound

\* Mutant: the message stays in the queue.
ReceivesKeeping(type) ==
    /\ MayRun(NAME_SERVER_TID)
    /\ Head(inbox).type = type
    /\ UNCHANGED <<inbox, todo>>

Receives(type) ==
    /\ MayRun(NAME_SERVER_TID)
    /\ Head(inbox).type = type
    /\ inbox' = Tail(inbox)
    /\ UNCHANGED todo

\* The "name_map state is still valid" (name_server.c) whatever is registered: the nodes
\* of the list are nodes of the array.
MapValid == Len(map) <= MaxNames

HandleReg ==
    /\ Receives("REG")
    /\ name_map_insert(Head(inbox).name, Head(inbox).from)
    /\ Replies(Head(inbox).from, 0)
    /\ UNCHANGED server

\* What a search can come to.  Once nodes[MaxNames] is used, which is the memory of node_data,
\* the list runs through words that are entries and pointers at once: any answer.
Answers(name) == IF MapValid THEN {name_map_find(name)} ELSE Clients \cup {0, NotFound}

\* Mutant: WhoIs is answered only if the name is known.
HandleWhoKnown ==
    /\ Receives("WHO")
    /\ IF name_map_find(Head(inbox).name) # NotFound
       THEN Replies(Head(inbox).from, name_map_find(Head(inbox).name))
       ELSE UNCHANGED <<phase, rep>>
    /\ UNCHANGED <<server, map>>

HandleWho ==
    /\ Receives("WHO")
    /\ \E r \in Answers(Head(inbox).name) : Replies(Head(inbox).from, r)
    /\ UNCHANGED <<server, map>>

\* The request leads through a pointer of a node behind the array, to a fault or round in
\* a circle: the server never comes back from it.
HandleNever ==
    /\ Receives(Head(inbox).type)
    /\ \/ Head(inbox).type = "REG" /\ Len(map) >= MaxNames
       \/ Head(inbox).type = "WHO" /\ ~MapValid
    /\ server' = "stuck"
    /\ UNCHANGED <<map, phase, rep>>

\* The loop ends, the caller is answered, the server exits.
HandleExit ==
    /\ Receives("EXIT")
    /\ Replies(Head(inbox).from, 0)
    /\ server' = "exited"
    /\ UNCHANGED map

-----------------------------------------------------------------------------
Client(c) == Asks(c) \/ AsksNobody(c) \/ Polls(c) \/ Finishes(c)
Handle == HandleReg \/ HandleWho \/ HandleExit \/ HandleNever

\* Every client has ended, or waits for ever for a server that is gone.
Rest == (\A t \in Tasks : ~Ready(t)) /\ server # "absent" /\ UNCHANGED vars

Next == Create \/ (\E c \in Clients : Client(c)) \/ Handle \/ Rest

Spec == Init /\ [][Next]_vars

(***************************************************************************)
(* Fairness.  Among the ready tasks of the best priority each gets its     *)
(* turn: the ready queues are FIFO and the timer preempts                  *)
(* (BestPriorityRuns of module Kernel).  Whether a task is among them      *)
(* changes from step to step: strong fairness.                             *)
(***************************************************************************)
Fairness ==
    /\ WF_vars(Create)
    /\ SF_vars(Handle)
    /\ \A c \in Clients : SF_vars(Client(c))

FairSpec == Spec /\ Fairness

-----------------------------------------------------------------------------
(* Properties. *)

Keys == {strncpy(n) : n \in Names}
Messages == [from : Clients, type : {"REG", "WHO", "EXIT"}, name : Keys]

\* Every variable has its type.
TypeOK ==
    /\ server \in {"absent", "serving", "exited", "stuck"}
    /\ inbox \in Seq(Messages)
    /\ map \in Seq([name : Keys, tid : Clients])
    /\ todo \in [Clients -> Seq(Calls)]
    /\ phase \in [Clients -> {"ready", "sent", "replied"}]
    /\ rep \in [Clients -> Clients \cup {0, NotFound}]

\* A task blocked in Send has one message in the queue, that of its current call, as
\* long as the server takes messages; no other task has one.
OneMessagePerCaller ==
    /\ \A i, j \in DOMAIN inbox : inbox[i].from = inbox[j].from => i = j
    /\ \A i \in DOMAIN inbox :
          LET c == inbox[i].from
          IN  /\ phase[c] = "sent" /\ todo[c] # <<>>
              /\ inbox[i].type = Call(c).type /\ inbox[i].name = strncpy(Call(c).name)
    /\ server # "stuck" => \A c \in Clients :
          phase[c] = "sent" => \E i \in DOMAIN inbox : inbox[i].from = c

\* A WhoIs is still to be answered, or its answer was that nobody has the name.
Unanswered(c) == phase[c] = "sent" \/ (phase[c] = "replied" /\ AskAgain(c))

\* The state of module NameRegistry.
regMap == [k \in Keys |-> name_map_find(k)]
opMap == [c \in Clients |->
            IF phase[c] = "ready" \/ Call(c).type = "EXIT" THEN [type |-> "NONE"]
            ELSE IF Unanswered(c) THEN [type |-> Call(c).type, key |-> strncpy(Call(c).name)]
            ELSE [type |-> "DONE"]]
gotMap == [c \in Clients |->
             IF phase[c] = "replied" /\ Call(c).type = "WHO" THEN rep[c] ELSE NotFound]

Registry == INSTANCE NameRegistry WITH NoTid <- NotFound, valid <- MapValid,
                                      reg <- regMap, op <- opMap, got <- gotMap

\* The list, searched from the newest entry, with WhoIs asking again and again, is
\* what name_server.h describes: RegisterAs "overwrites previous, all following calls
\* to WhoIs ... return the caller's tid"; WhoIs "blocks ... until one is registered".
\* It is as long as the list stays in its array.
ImplementsRegistry == Registry!Spec

\* No client has a better priority than c.
Best(c) == \A t \in Clients : Priority[c] <= Priority[t]

\* c is in the WhoIs that is k calls from the end of its program, and r is about to
\* register that name.
Meets(c, k, r) ==
    /\ server = "serving"
    /\ Len(todo[c]) = k /\ Call(c).type = "WHO"
    /\ todo[r] # <<>> /\ Call(r).type = "REG" /\ strncmp(Call(r).name, Call(c).name)

\* Among the tasks of the best priority, WhoIs returns once one of them has set out to
\* register the name, although those that poll for other names are ready again and again,
\* unless the server is shut down or the list leaves its array.
WhoIsReturns ==
    \A c, r \in Clients : \A k \in 1 .. MaxCalls : Best(c) /\ Best(r) =>
        (Meets(c, k, r) ~> (Len(todo[c]) < k \/ server \in {"exited", "stuck"} \/ ~MapValid))
=============================================================================
