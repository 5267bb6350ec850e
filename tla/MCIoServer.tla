----------------------------- MODULE MCIoServer -----------------------------
(***************************************************************************)
(* Clients and strings for the I/O server runs.                            *)
(***************************************************************************)
EXTENDS IoServer, TLC

CONSTANTS c1, c2

\* Two readers, one of which writes.
TwoReaders == (c1 :> {"CLIENT_READ", "CLIENT_WRITE"}) @@ (c2 :> {"CLIENT_READ"})

\* One client that makes every call.
OneForAll == c1 :> {"CLIENT_READ", "CLIENT_WRITE", "EXIT"}

\* A character, and a string longer than a message.
MCStrings == {<<1>>, <<2, 1, 1>>}
LongString == {<<1, 2, 1>>}
=============================================================================
