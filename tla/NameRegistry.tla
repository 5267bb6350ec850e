---------------------------- MODULE NameRegistry ----------------------------
(***************************************************************************)
(* What include/name_server.h promises: a register per name.  RegisterAs   *)
(* overwrites it, WhoIs reads it and blocks while it is empty, and each    *)
(* takes effect at one moment between its call and its return.  A registry *)
(* may cease to be valid, and promises nothing from then on.               *)
(***************************************************************************)
CONSTANTS Clients, Keys, NoTid

VARIABLES valid,     \* the promise stands
          reg,       \* the tid registered for each key
          op,        \* what each client is doing: [type, key]
          got        \* the tid that its WhoIs is about to return, or NoTid

vars == <<valid, reg, op, got>>

Quiet == [type |-> "NONE"]
Done == [type |-> "DONE"]
Ops == [type : {"REG", "WHO"}, key : Keys]

Init ==
    /\ valid = TRUE
    /\ reg = [k \in Keys |-> NoTid]
    /\ op = [c \in Clients |-> Quiet]
    /\ got = [c \in Clients |-> NoTid]

Call(c, o) ==
    /\ op[c] = Quiet
    /\ op' = [op EXCEPT ![c] = o]
    /\ UNCHANGED <<reg, got>>

Register(c) ==
    /\ op[c].type = "REG"
    /\ reg' = [reg EXCEPT ![op[c].key] = c]
    /\ op' = [op EXCEPT ![c] = Done]
    /\ UNCHANGED got

Find(c) ==
    /\ op[c].type = "WHO"
    /\ reg[op[c].key] # NoTid
    /\ got' = [got EXCEPT ![c] = reg[op[c].key]]
    /\ op' = [op EXCEPT ![c] = Done]
    /\ UNCHANGED reg

Return(c) ==
    /\ op[c] = Done
    /\ op' = [op EXCEPT ![c] = Quiet]
    /\ got' = [got EXCEPT ![c] = NoTid]
    /\ UNCHANGED reg

Step(c) == (\E o \in Ops : Call(c, o)) \/ Register(c) \/ Find(c) \/ Return(c)

Next == \/ valid /\ valid' /\ \E c \in Clients : Step(c)
        \/ ~valid'

Spec == Init /\ [][Next]_vars
=============================================================================
