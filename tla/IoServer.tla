------------------------------ MODULE IoServer ------------------------------
(***************************************************************************)
(* The I/O server of src/io_server/io_server.c for one serial port, its    *)
(* receive, transmit and clear-to-send notifiers, the tasks that call      *)
(* Getc, Putc, Putstr and io_server_exit, and the UART.                    *)
(*                                                                         *)
(* As in module ClockServer a message waits in the server's send queue, in *)
(* FIFO order, and its sender is blocked until the reply; the handling of  *)
(* one message is one step of the server, and everybody else can be        *)
(* anywhere in his code between two such steps.  The ring buffers are      *)
(* sequences, which module RingBuffer justifies: they hold BufferSize - 1  *)
(* bytes and a put is all or nothing.                                      *)
(***************************************************************************)
EXTENDS Integers, Sequences, FiniteSets

CONSTANTS Clients,       \* the tasks that use the server
          Uses,          \* the types of the messages each of them sends
          Ports,         \* the ports it is started on
          Strings,       \* what they pass to Putc and Putstr: sequences of bytes
          Bytes,         \* what arrives on the line
          BufferSize,    \* IO_SERVER_BUFFER_SIZE (128)
          MaxDataLen     \* IO_SERVER_MSG_MAX_DATA_LEN (31)

ASSUME IoAssumption ==
    /\ Uses \in [Clients -> SUBSET {"CLIENT_READ", "CLIENT_WRITE", "EXIT"}]
    /\ Ports \subseteq {"COM1", "COM2", "BAD"}
    /\ Bytes \subseteq 0 .. 255
    /\ \A s \in Strings : s \in Seq(0 .. 255)
    /\ BufferSize \in Nat \ {0} /\ MaxDataLen \in Nat \ {0}
    /\ {"rx", "tx"} \cap Clients = {}

VARIABLES
    com_num,                    \* the port
    server,                     \* "starting", "telling_tx", "telling_rx", "serving", "draining" or "exited"
    inbox,                      \* the server's send queue: [from, type, data]
    rb_in, rb_out,              \* the ring buffers
    tx_ready,                   \* the transmit notifier waits for bytes
    client_ready, client_tid,   \* a client waits for a byte
    notifier_exit_count,
    rx, rx_data,                \* receive notifier, and the byte it holds
    tx, tx_data,                \* transmit notifier, and the bytes it has still to write
    cts,                        \* clear-to-send notifier
    thr,                        \* the UART's transmit holding register
    call,                       \* the request each client is blocked in
    panicked,
    unsent, unread,             \* history: bytes accepted and not yet sent, received and not yet read
    forgotten, credit           \* history, see below

(***************************************************************************)
(* More history.  forgotten: the clients that waited for a byte when       *)
(* another one took their place.  credit: modem status changes that have   *)
(* not been used for a byte on COM1, counted up to MaxCredit.              *)
(***************************************************************************)

serverVars == <<server, rb_in, rb_out, tx_ready, client_ready, client_tid, notifier_exit_count>>
rxVars == <<rx, rx_data, unread>>
txVars == <<tx, tx_data, thr, unsent, credit>>
clientVars == <<call, forgotten>>
vars == <<com_num, inbox, serverVars, rxVars, txVars, cts, clientVars, panicked>>

Idle == [type |-> "NONE", data |-> <<>>]
MaxCredit == 2
Types == {"CLIENT_READ", "CLIENT_WRITE", "EXIT", "NOTIF_RX", "NOTIF_TX"}

\* The first n elements of s, or all, and the others.
First(s, n) == SubSeq(s, 1, IF Len(s) <= n THEN Len(s) ELSE n)
Rest(s, n) == SubSeq(s, 1 + (IF Len(s) <= n THEN Len(s) ELSE n), Len(s))

\* io_server_start has created the server and sends it the port.
Init ==
    /\ com_num \in Ports
    /\ server = "starting"
    /\ inbox = <<>>
    /\ rb_in = <<>> /\ rb_out = <<>>
    /\ tx_ready = FALSE
    /\ client_ready = FALSE /\ client_tid = 0
    /\ notifier_exit_count = 0
    /\ rx = "absent" /\ rx_data = <<>>
    /\ tx = "absent" /\ tx_data = <<>>
    /\ cts = "absent"
    /\ thr = <<>>
    /\ call = [c \in Clients |-> Idle]
    /\ panicked = FALSE
    /\ unsent = <<>> /\ unread = <<>>
    /\ forgotten = {}
    /\ credit = 1

\* The kernel runs: a panic would have stopped it.
Runs == ~panicked /\ UNCHANGED <<panicked, com_num>>

Message(from, type, data) == [from |-> from, type |-> type, data |-> data]

Panics ==
    /\ panicked' = TRUE
    /\ UNCHANGED <<serverVars, rxVars, txVars, cts, clientVars>>

-----------------------------------------------------------------------------
(* Start-up. *)

\* The server answers its parent, registers its name and creates two notifiers.  From
\* now on its clients can know its tid.
ServerStarts ==
    /\ ~panicked /\ UNCHANGED com_num
    /\ server = "starting"
    /\ IF com_num = "BAD" THEN Panics
       ELSE /\ server' = "telling_tx"
            /\ rx' = "created" /\ tx' = "created"
            /\ UNCHANGED <<rb_in, rb_out, tx_ready, client_ready, client_tid, notifier_exit_count,
                           rx_data, unread, tx_data, thr, unsent, credit, cts, clientVars, panicked>>
    /\ UNCHANGED inbox

\* The transmit notifier gets the port.  On COM1 it creates the clear-to-send notifier
\* and waits in Send until that one has found the clock server.
TellsTx ==
    /\ Runs
    /\ server = "telling_tx" /\ server' = "telling_rx"
    /\ tx' = IF com_num = "COM1" THEN "meeting" ELSE "running"
    /\ cts' = IF com_num = "COM1" THEN "asking" ELSE "absent"
    /\ UNCHANGED <<inbox, rb_in, rb_out, tx_ready, client_ready, client_tid, notifier_exit_count,
                   rxVars, tx_data, thr, unsent, credit, clientVars>>

\* The receive notifier gets the port, and the server enters its loop.
TellsRx ==
    /\ Runs
    /\ server = "telling_rx" /\ server' = "serving"
    /\ rx' = "running"
    /\ UNCHANGED <<inbox, rb_in, rb_out, tx_ready, client_ready, client_tid, notifier_exit_count,
                   rx_data, unread, txVars, cts, clientVars>>

\* The clear-to-send notifier answers the transmit notifier and sends its first permit.
CtsMeets ==
    /\ Runs
    /\ cts = "asking" /\ cts' = "granting"
    /\ tx = "meeting" /\ tx' = "running"
    /\ UNCHANGED <<inbox, serverVars, rxVars, tx_data, thr, unsent, credit, clientVars>>

Start == ServerStarts \/ TellsTx \/ TellsRx

-----------------------------------------------------------------------------
(* The receive notifier. *)

RxAwaits ==
    /\ Runs
    /\ rx = "running"
    /\ rx' = "awaiting"
    /\ UNCHANGED <<inbox, serverVars, rx_data, unread, txVars, cts, clientVars>>

\* The interrupt handler reads the byte and wakes the notifier.
ByteArrives(b) ==
    /\ Runs
    /\ rx = "awaiting"
    /\ rx' = "woken"
    /\ rx_data' = <<b>>
    /\ unread' = Append(unread, b)
    /\ UNCHANGED <<inbox, serverVars, txVars, cts, clientVars>>

\* The handler reads the byte, and nobody waits for it.
ByteLost(b) ==
    /\ Runs
    /\ rx # "awaiting"
    /\ UNCHANGED vars

RxSends ==
    /\ Runs
    /\ rx = "woken"
    /\ rx' = "sending"
    /\ inbox' = Append(inbox, Message("rx", "NOTIF_RX", rx_data))
    /\ UNCHANGED <<serverVars, rx_data, unread, txVars, cts, clientVars>>

\* The reply was of type EXIT.
RxExits ==
    /\ Runs
    /\ rx = "leaving"
    /\ rx' = "exited"
    /\ UNCHANGED <<inbox, serverVars, rx_data, unread, txVars, cts, clientVars>>

-----------------------------------------------------------------------------
(* The transmit notifier. *)

TxAwaits ==
    /\ Runs
    /\ tx = "running" /\ tx_data # <<>>
    /\ tx' = "awaiting"
    /\ UNCHANGED <<inbox, serverVars, rxVars, tx_data, thr, unsent, credit, cts, clientVars>>

\* The holding register is empty.  On COM1 the notifier then waits for a permit.
TxInterrupt ==
    /\ Runs
    /\ tx = "awaiting" /\ thr = <<>>
    /\ tx' = IF com_num = "COM1" THEN "receiving" ELSE "writing"
    /\ UNCHANGED <<inbox, serverVars, rxVars, tx_data, thr, unsent, credit, cts, clientVars>>

\* Mutant: the clear-to-send notifier is not waited for.
TxReceivesAnyway ==
    /\ tx = "receiving"
    /\ tx' = "writing"
    /\ UNCHANGED cts

\* Receive, then Reply to the clear-to-send notifier.
TxReceives ==
    /\ tx = "receiving" /\ cts = "granting"
    /\ tx' = "writing"
    /\ cts' = "timing"

TxPermitted ==
    /\ Runs
    /\ TxReceives
    /\ UNCHANGED <<inbox, serverVars, rxVars, tx_data, thr, unsent, credit, clientVars>>

TxWrites ==
    /\ Runs
    /\ tx = "writing"
    /\ thr' = <<Head(tx_data)>>
    /\ tx_data' = Tail(tx_data)
    /\ tx' = "running"
    /\ credit' = IF com_num = "COM1" THEN credit - 1 ELSE credit
    /\ UNCHANGED <<inbox, serverVars, rxVars, unsent, cts, clientVars>>

\* The UART sends the byte.
LineSends ==
    /\ Runs
    /\ thr # <<>>
    /\ thr' = <<>>
    /\ unsent' = Tail(unsent)
    /\ UNCHANGED <<inbox, serverVars, rxVars, tx, tx_data, credit, cts, clientVars>>

TxSends ==
    /\ Runs
    /\ tx = "running" /\ tx_data = <<>>
    /\ tx' = "sending"
    /\ inbox' = Append(inbox, Message("tx", "NOTIF_TX", <<>>))
    /\ UNCHANGED <<serverVars, rxVars, tx_data, thr, unsent, credit, cts, clientVars>>

TxExits ==
    /\ Runs
    /\ tx = "leaving"
    /\ tx' = "exited"
    /\ UNCHANGED <<inbox, serverVars, rxVars, tx_data, thr, unsent, credit, cts, clientVars>>

-----------------------------------------------------------------------------
(* The clear-to-send notifier.  When it is replied to it asks for the time, and then   *)
(* awaits the next change of the modem status.  It never exits.                        *)

CtsGoes(from, to) ==
    /\ Runs
    /\ cts = from
    /\ cts' = to
    /\ UNCHANGED <<inbox, serverVars, rxVars, tx, tx_data, thr, unsent, clientVars>>

\* Time returns, and the notifier awaits the modem status.
CtsAwaits == CtsGoes("timing", "awaiting") /\ UNCHANGED credit

\* The modem status changes and wakes the notifier, which tests the clear-to-send bit.
\* `uart_base + UART_FLAG_OFFSET` adds four times the offset: the register it reads is
\* not the flag register, and the bit can have any value.  A change while the notifier
\* does not wait is taken when it does: its interrupt is disabled and stays asserted.
ModemChanges(clear) ==
    /\ CtsGoes("awaiting", IF clear THEN "delaying" ELSE "timing")
    /\ credit' = IF credit < MaxCredit THEN credit + 1 ELSE credit

\* DelayUntil returns, and the notifier sends to the transmit notifier.
CtsGrants == CtsGoes("delaying", "granting") /\ UNCHANGED credit

-----------------------------------------------------------------------------
(* The wrappers: Getc, Putc, Putstr and io_server_exit. *)

Read == [type |-> "CLIENT_READ", data |-> <<>>]
Exit == [type |-> "EXIT", data |-> <<>>]

\* Putstr sends at most MaxDataLen bytes of the string, and Putc one.
Write(str) == [type |-> "CLIENT_WRITE", data |-> First(str, MaxDataLen)]

Requests == {Read, Exit} \cup {Write(str) : str \in Strings}

Calls(c, r) ==
    /\ Runs
    /\ server # "starting"
    /\ call[c] = Idle /\ r.type \in Uses[c]
    /\ call' = [call EXCEPT ![c] = r]
    /\ inbox' = Append(inbox, Message(c, r.type, r.data))
    /\ UNCHANGED <<serverVars, rxVars, txVars, cts, forgotten>>

\* The caller passed a tid that is not a task's: Send fails.  Getc, Putc and Putstr
\* return -2, io_server_exit panics.
CallsNobody(c, r) ==
    /\ ~panicked /\ UNCHANGED com_num
    /\ call[c] = Idle /\ r.type \in Uses[c]
    /\ panicked' = (r = Exit)
    /\ UNCHANGED <<inbox, serverVars, rxVars, txVars, cts, call, forgotten>>

-----------------------------------------------------------------------------
(* The server. *)

Receives(type) ==
    /\ ~panicked /\ UNCHANGED com_num
    /\ server = "serving"
    /\ inbox # <<>> /\ Head(inbox).type = type
    /\ inbox' = Tail(inbox)

Replies(c) == call' = [call EXCEPT ![c] = Idle]

\* Getc returns b to c.  It stays in `unread` unless it is the oldest byte there.
Delivers(c, b) ==
    /\ Replies(c)
    /\ unread' = IF b = Head(unread) THEN Tail(unread) ELSE unread

\* Mutant: the slot that tells a full buffer from an empty one is used.
RoomWhole(rb) == BufferSize - Len(rb)

Room(rb) == BufferSize - 1 - Len(rb)

\* Mutant: a waiting reader keeps its place, and the new one is forgotten.
KeepsFirst(c) == client_ready' = TRUE /\ client_tid' = (IF client_ready THEN client_tid ELSE c)

\* `client_ready = true; client_tid = sender_tid`
WaitsForByte(c) == client_ready' = TRUE /\ client_tid' = c

\* Mutant: the whole buffer is emptied for the one byte that Getc returns.
FlushesBuffer(c) == Delivers(c, Head(rb_in)) /\ rb_in' = <<>>

\* `flush buffer contents`: as many bytes as Getc asks for, one.
TakesByte(c) == Delivers(c, Head(rb_in)) /\ rb_in' = Tail(rb_in)

\* CLIENT_READ: wait for a byte, or take the first one.  There is one place to wait.
HandleRead ==
    /\ Runs
    /\ Receives("CLIENT_READ")
    /\ LET c == Head(inbox).from
       IN  IF rb_in = <<>>
           THEN /\ WaitsForByte(c)
                /\ forgotten' = IF client_ready THEN forgotten \cup {client_tid} ELSE forgotten
                /\ UNCHANGED <<rb_in, unread, call>>
           ELSE /\ TakesByte(c)
                /\ UNCHANGED <<client_ready, client_tid, forgotten>>
    /\ UNCHANGED <<server, rb_out, tx_ready, notifier_exit_count, rx, rx_data, txVars, cts>>

\* Mutant: what does not fit in the reply is dropped.
GivesChunkOnly(rb) ==
    /\ tx' = "running"
    /\ tx_data' = First(rb, MaxDataLen)
    /\ rb_out' = <<>>

\* Reply to the transmit notifier with the first bytes of rb.
GivesChunk(rb) ==
    /\ tx' = "running"
    /\ tx_data' = First(rb, MaxDataLen)
    /\ rb_out' = Rest(rb, MaxDataLen)

\* Mutant: the parked transmit notifier is not woken.
PutsOnly(rb) == rb_out' = rb /\ UNCHANGED <<tx, tx_data, tx_ready>>

\* The buffer becomes rb, and the transmit notifier is answered if it waits.
PutsAndWakes(rb) ==
    IF tx_ready
    THEN GivesChunk(rb) /\ tx_ready' = FALSE
    ELSE rb_out' = rb /\ UNCHANGED <<tx, tx_data, tx_ready>>

\* CLIENT_WRITE: all bytes go to the buffer, or the system panics.
HandleWrite ==
    /\ Receives("CLIENT_WRITE")
    /\ LET data == Head(inbox).data
       IN  IF Len(data) > Room(rb_out) THEN Panics
           ELSE /\ unsent' = unsent \o data
                /\ PutsAndWakes(rb_out \o data)
                /\ Replies(Head(inbox).from)
                /\ UNCHANGED <<server, rb_in, client_ready, client_tid, notifier_exit_count, rxVars,
                               thr, credit, cts, forgotten, panicked>>

\* Mutant: the reader that has been answered is still taken to wait.
AnswersForEver(rb) ==
    IF client_ready
    THEN Delivers(client_tid, Head(rb)) /\ rb_in' = Tail(rb) /\ UNCHANGED client_ready
    ELSE rb_in' = rb /\ UNCHANGED <<call, unread, client_ready>>

\* The buffer becomes rb, and a client that waits gets its first byte.
PutsAndAnswers(rb) ==
    IF client_ready
    THEN Delivers(client_tid, Head(rb)) /\ rb_in' = Tail(rb) /\ client_ready' = FALSE
    ELSE rb_in' = rb /\ UNCHANGED <<call, unread, client_ready>>

\* Mutant: the receive notifier is not answered.
RxForgotten == UNCHANGED rx /\ rx_data' = <<>>

\* `Reply(sender_tid, ...)`
RxReplied == rx' = "running" /\ rx_data' = <<>>

\* NOTIF_RX: the byte goes through the buffer to the client that waits, if any.
HandleRx ==
    /\ Receives("NOTIF_RX")
    /\ IF Room(rb_in) = 0 THEN Panics
       ELSE /\ PutsAndAnswers(rb_in \o Head(inbox).data)
            /\ RxReplied
            /\ UNCHANGED <<server, rb_out, tx_ready, client_tid, notifier_exit_count, txVars,
                           cts, forgotten, panicked>>

\* NOTIF_TX: the next bytes, or none yet.
HandleTx ==
    /\ Runs
    /\ Receives("NOTIF_TX")
    /\ IF rb_out # <<>>
       THEN GivesChunk(rb_out) /\ UNCHANGED tx_ready
       ELSE tx_ready' = TRUE /\ UNCHANGED <<tx, tx_data, rb_out>>
    /\ UNCHANGED <<server, rb_in, client_ready, client_tid, notifier_exit_count, rxVars,
                   thr, unsent, credit, cts, clientVars>>

\* EXIT: the loop ends; its caller is not answered.
HandleExit ==
    /\ Runs
    /\ Receives("EXIT")
    /\ server' = "draining"
    /\ UNCHANGED <<rb_in, rb_out, tx_ready, client_ready, client_tid, notifier_exit_count, rxVars,
                   txVars, cts, clientVars>>

\* Mutant: the reply is not marked as EXIT.
TellsNothing(type) ==
    /\ rx' = IF type = "NOTIF_RX" THEN "running" ELSE rx
    /\ tx' = IF type = "NOTIF_TX" THEN "running" ELSE tx

\* `msg.type = IO_SERVER_MSG_TYPE_EXIT`, and the reply to the notifier.
TellsToExit(type) ==
    /\ rx' = IF type = "NOTIF_RX" THEN "leaving" ELSE rx
    /\ tx' = IF type = "NOTIF_TX" THEN "leaving" ELSE tx

\* After EXIT: the notifiers are told to exit as they send, until both have been;
\* other messages are taken and not answered.
Drain ==
    /\ Runs
    /\ server = "draining"
    /\ inbox # <<>>
    /\ inbox' = Tail(inbox)
    /\ LET type == Head(inbox).type
           notifier == type \in {"NOTIF_RX", "NOTIF_TX"}
       IN  /\ TellsToExit(type)
           /\ notifier_exit_count' = IF notifier THEN notifier_exit_count + 1 ELSE notifier_exit_count
           /\ server' = IF notifier_exit_count' = 2 THEN "exited" ELSE "draining"
    /\ UNCHANGED <<rb_in, rb_out, tx_ready, client_ready, client_tid, rx_data, unread,
                   tx_data, thr, unsent, credit, cts, clientVars>>

-----------------------------------------------------------------------------
Handle == HandleRead \/ HandleWrite \/ HandleRx \/ HandleTx \/ HandleExit \/ Drain

\* A panic stops the kernel.
Stopped == panicked /\ UNCHANGED vars

Next ==
    \/ Start \/ CtsMeets
    \/ RxAwaits \/ RxSends \/ RxExits
    \/ \E b \in Bytes : ByteArrives(b) \/ ByteLost(b)
    \/ TxAwaits \/ TxInterrupt \/ TxPermitted \/ TxWrites \/ TxSends \/ TxExits \/ LineSends
    \/ CtsAwaits \/ CtsGrants \/ \E clear \in BOOLEAN : ModemChanges(clear)
    \/ \E c \in Clients, r \in Requests : Calls(c, r) \/ CallsNobody(c, r)
    \/ Handle
    \/ Stopped

Spec == Init /\ [][Next]_vars

(***************************************************************************)
(* Fairness.  The server and the notifiers get the processor when they are *)
(* ready, and the UART sends.  Somebody types ("requires user to type char *)
(* when exiting").  On COM1 the other side goes on changing its            *)
(* clear-to-send line, the check does not fail for ever (hence the strong  *)
(* fairness: the notifier goes round when it fails), and a clock server is *)
(* registered and answers.  Nothing is assumed of the clients.             *)
(***************************************************************************)
Fairness ==
    /\ WF_vars(Start) /\ WF_vars(CtsMeets) /\ WF_vars(Handle)
    /\ WF_vars(RxAwaits) /\ WF_vars(RxSends) /\ WF_vars(RxExits)
    /\ WF_vars(\E b \in Bytes : ByteArrives(b))
    /\ WF_vars(TxAwaits \/ TxInterrupt \/ TxPermitted \/ TxWrites \/ TxSends \/ TxExits)
    /\ WF_vars(LineSends)
    /\ WF_vars(CtsAwaits) /\ WF_vars(CtsGrants) /\ SF_vars(ModemChanges(TRUE))

FairSpec == Spec /\ Fairness

-----------------------------------------------------------------------------
(* Properties. *)

Messages == [from : Clients \cup {"rx", "tx"}, type : Types, data : Seq(0 .. 255)]

\* Every variable has its type; in particular the buffers never hold more than
\* BufferSize - 1 bytes and a message never more than MaxDataLen.
TypeOK ==
    /\ com_num \in Ports
    /\ server \in {"starting", "telling_tx", "telling_rx", "serving", "draining", "exited"}
    /\ inbox \in Seq(Messages)
    /\ \A i \in DOMAIN inbox : Len(inbox[i].data) <= MaxDataLen
    /\ rb_in \in Seq(0 .. 255) /\ Len(rb_in) <= BufferSize - 1
    /\ rb_out \in Seq(0 .. 255) /\ Len(rb_out) <= BufferSize - 1
    /\ tx_ready \in BOOLEAN /\ client_ready \in BOOLEAN /\ client_tid \in Clients \cup {0}
    /\ notifier_exit_count \in 0 .. 2
    /\ rx \in {"absent", "created", "running", "awaiting", "woken", "sending", "leaving", "exited"}
    /\ tx \in {"absent", "created", "meeting", "running", "awaiting", "receiving", "writing", "sending",
               "leaving", "exited"}
    /\ cts \in {"absent", "asking", "timing", "awaiting", "delaying", "granting"}
    /\ rx_data \in Seq(0 .. 255) /\ Len(rx_data) <= 1
    /\ tx_data \in Seq(0 .. 255) /\ Len(tx_data) <= MaxDataLen
    /\ thr \in Seq(0 .. 255) /\ Len(thr) <= 1
    /\ call \in [Clients -> Requests \cup {Idle}]
    /\ panicked \in BOOLEAN
    /\ unsent \in Seq(0 .. 255) /\ unread \in Seq(0 .. 255)
    /\ forgotten \subseteq Clients /\ credit \in 0 .. MaxCredit

\* From the client to the line no byte is lost, repeated or overtaken: what the
\* holding register, the transmit notifier and the buffer hold is, in this order, what
\* has been accepted and not yet sent.  In particular a byte is written only when the
\* holding register is empty, on COM1 after another wait in between.
OutputInOrder == (thr \o tx_data) \o rb_out = unsent

\* From the interrupt handler to the reader no byte is lost, repeated or overtaken.
InputInOrder == rb_in \o rx_data = unread

\* The transmit notifier is parked, without a message in the queue and without bytes,
\* exactly when the server thinks so; then no byte waits.  The client the server will
\* answer when a byte comes is in Getc and waits for nothing else.  (Reply does not
\* check its addressee: a second one would wake it in another call.)
RepliesAreOwed ==
    /\ tx_ready => tx = "sending" /\ tx_data = <<>>
                   /\ ~\E i \in DOMAIN inbox : inbox[i].from = "tx"
    /\ tx_ready /\ server = "serving" => rb_out = <<>>
    /\ client_ready => client_tid \in Clients /\ call[client_tid] = Read
                       /\ ~\E i \in DOMAIN inbox : inbox[i].from = client_tid
    /\ client_ready /\ server = "serving" => rb_in = <<>>

\* How many times the server will still meet c.
Places(c) == Cardinality({i \in DOMAIN inbox : inbox[i].from = c})
             + (IF client_ready /\ client_tid = c THEN 1 ELSE 0)

\* No EXIT has been taken.
Open == server \notin {"draining", "exited"}

\* Until the server shuts down, a caller is in one place, the queue or the place of the
\* reader, and only there, unless another reader has taken that place from it.
OnePlacePerCaller ==
    Open /\ ~panicked => \A c \in Clients :
        Places(c) = IF call[c] = Idle \/ c \in forgotten THEN 0 ELSE 1

\* On COM1 the n-th byte after the first is written only after n changes of the modem
\* status, however far the clear-to-send notifier runs ahead.
Paced == com_num = "COM1" /\ tx = "writing" => credit > 0

\* Bytes in the server or in its notifier reach the line.
OutputNeverStalls ==
    (tx_data # <<>> \/ rb_out # <<>>) ~> (thr # <<>> \/ ~Open \/ panicked)

\* A reader, even one that calls while the server starts, gets a byte, unless another
\* reader has taken its place.
ReadersServed ==
    \A c \in Clients :
        call[c] = Read ~> (call[c] # Read \/ c \in forgotten \/ ~Open \/ panicked)

AllExited == server = "exited" /\ rx = "exited" /\ tx = "exited"

\* io_server_exit ends the server and both notifiers if the transmit notifier is busy,
\* or about to ask for more, when it is called.
BusyShutdownCompletes == (server = "draining" /\ ~tx_ready) ~> AllExited

\* io_server_exit "shuts down io server, will also shut down respective notifiers"
\* (io_server.h).
ShutdownCompletes == server = "draining" ~> AllExited
=============================================================================
