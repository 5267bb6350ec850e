---------------------------- MODULE MCClockServer ----------------------------
(***************************************************************************)
(* The request set for the clock server run.                               *)
(***************************************************************************)
EXTENDS ClockServer

Req(t, n) == [type |-> t, time |-> n]

\* Calls of every kind: delays that end together and apart, an invalid one, shutdown.
AllRequests == {Req("DELAY", 1), Req("DELAY", 3), Req("DELAY", 0), Req("DELAYUNTIL", 2),
                Req("TIME", 0), Req("EXIT", 0)}
=============================================================================
