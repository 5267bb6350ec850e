---------------------------- MODULE MCNameServer ----------------------------
(***************************************************************************)
(* Names, programs and priorities for the name server run.                 *)
(***************************************************************************)
EXTENDS NameServer, TLC

\* Two names that agree in their first two characters, and a short one.
Long1 == <<7, 8, 1>>
Long2 == <<7, 8, 2>>
Short == <<7>>
MCNames == {Long1, Long2, Short}

Reg(n) == [type |-> "REG", name |-> n]
Who(n) == [type |-> "WHO", name |-> n]
Exit == [type |-> "EXIT", name |-> Short]

MCClients == {3, 4, 5}

\* 3 and 4 share the best priority, 5 is worse, the server in between.
MCPriority == (2 :> 1) @@ (3 :> 0) @@ (4 :> 0) @@ (5 :> 2)

\* Two tasks of the best priority that register, ask, or do both in any order, and a
\* worse one that asks, registers or shuts the server down.
MCPrograms ==
    LET calls == {Reg(Long1), Who(Long2), Who(Short)}
        good == {<<a, b>> : a, b \in calls}
        worse == {<<Who(Long1), Reg(Long2)>>, <<Reg(Short), Who(Long2)>>, <<Exit, Who(Short)>>}
    IN  {(3 :> a) @@ (4 :> b) @@ (5 :> c) : a, b \in good, c \in worse}
=============================================================================
