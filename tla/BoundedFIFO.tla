---------------------------- MODULE BoundedFIFO ----------------------------
(***************************************************************************)
(* What the I/O server relies on its ring buffers for: a FIFO of bytes of  *)
(* bounded capacity whose puts are all or nothing.                         *)
(***************************************************************************)
EXTENDS Integers, Sequences

CONSTANTS Data,          \* the values stored
          Capacity,      \* how many fit
          MaxPut,        \* the most values one put appends
          Nothing        \* what a get from an empty buffer returns

VARIABLES contents,      \* the values stored, oldest first
          ok, got        \* what the last put and the last get returned

vars == <<contents, ok, got>>

Init == contents = <<>> /\ ok = TRUE /\ got = Nothing

Put(d) ==
    /\ ok' = (Len(contents) + Len(d) <= Capacity)
    /\ contents' = IF ok' THEN contents \o d ELSE contents
    /\ UNCHANGED got

Get ==
    /\ IF contents = <<>>
       THEN UNCHANGED contents /\ got' = Nothing
       ELSE contents' = Tail(contents) /\ got' = Head(contents)
    /\ UNCHANGED ok

Blocks == UNION {[1 .. n -> Data] : n \in 0 .. MaxPut}

Next == Get \/ \E d \in Blocks : Put(d)

Spec == Init /\ [][Next]_vars
=============================================================================
