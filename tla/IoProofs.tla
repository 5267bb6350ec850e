------------------------------ MODULE IoProofs ------------------------------
(***************************************************************************)
(* The invariants of the I/O server, for any clients, strings, bytes and   *)
(* sizes of the buffers and messages.                                      *)
(***************************************************************************)
EXTENDS IoServer, SequenceTheorems, FiniteSetTheorems, TLAPS

Byte == 0 .. 255

-----------------------------------------------------------------------------
(* Sequences. *)

\* First and Rest cut a sequence in two.
LEMMA FirstRest ==
    ASSUME NEW S, NEW s \in Seq(S), NEW n \in Nat
    PROVE  /\ First(s, n) \in Seq(S) /\ Rest(s, n) \in Seq(S)
           /\ First(s, n) \o Rest(s, n) = s
           /\ Len(First(s, n)) <= n /\ Len(Rest(s, n)) <= Len(s)
<1> DEFINE m == IF Len(s) <= n THEN Len(s) ELSE n
<1>1. Len(s) \in Nat /\ m \in 0 .. Len(s) /\ m <= n /\ DOMAIN s = 1 .. Len(s)
      /\ \A i \in 1 .. Len(s) : s[i] \in S
  BY LenProperties, ElementOfSeq
<1>2. First(s, n) = SubSeq(s, 1, m) /\ Rest(s, n) = SubSeq(s, 1 + m, Len(s))
  BY DEF First, Rest
<1>3. 1 + m = m + 1
  BY <1>1
<1> HIDE DEF m
<1>4. SubSeq(s, 1, m) \in Seq(S) /\ Len(SubSeq(s, 1, m)) = m
  <2>1. SubSeq(s, 1, m) \in Seq(S) /\ Len(SubSeq(s, 1, m)) = IF 1 <= m THEN m - 1 + 1 ELSE 0
    BY <1>1, SubSeqProperties
  <2> QED BY <1>1, <2>1
<1>5. SubSeq(s, m + 1, Len(s)) \in Seq(S) /\ Len(SubSeq(s, m + 1, Len(s))) <= Len(s)
  <2>1. SubSeq(s, m + 1, Len(s)) \in Seq(S)
        /\ Len(SubSeq(s, m + 1, Len(s))) = IF m + 1 <= Len(s) THEN Len(s) - (m + 1) + 1 ELSE 0
    BY <1>1, SubSeqProperties
  <2> QED BY <1>1, <2>1
<1>6. SubSeq(s, 1, m) \o SubSeq(s, m + 1, Len(s)) = SubSeq(s, 1, Len(s))
  <2>1. 1 \in 1 .. Len(s) + 1 /\ m \in 1 - 1 .. Len(s) /\ Len(s) \in m .. Len(s)
    BY <1>1
  <2> QED BY <2>1, ConcatAdjacentSubSeq
<1>7. SubSeq(s, 1, Len(s)) = s
  BY SubSeqFull
<1>8. First(s, n) = SubSeq(s, 1, m) /\ Rest(s, n) = SubSeq(s, m + 1, Len(s))
  BY <1>2, <1>3
<1> QED BY <1>1, <1>4, <1>5, <1>6, <1>7, <1>8

\* A sequence is its head and its tail.
LEMMA HeadFirst ==
    ASSUME NEW S, NEW s \in Seq(S), s # <<>>
    PROVE  /\ Head(s) \in S /\ Tail(s) \in Seq(S) /\ s = <<Head(s)>> \o Tail(s)
           /\ Len(s) \in Nat \ {0} /\ Len(Tail(s)) = Len(s) - 1
<1>1. Head(s) \in S /\ Tail(s) \in Seq(S) /\ Len(Tail(s)) = Len(s) - 1
      /\ (\A i \in 1 .. Len(Tail(s)) : Tail(s)[i] = s[i + 1])
  BY HeadTailProperties
<1>2. Len(s) \in Nat \ {0}
  BY EmptySeq
<1>3. <<Head(s)>> \in Seq(S) /\ Len(<<Head(s)>>) = 1 /\ <<Head(s)>>[1] = s[1]
  BY <1>1
<1>4. /\ <<Head(s)>> \o Tail(s) \in Seq(S)
      /\ Len(<<Head(s)>> \o Tail(s)) = Len(s)
      /\ \A i \in 1 .. Len(s) : (<<Head(s)>> \o Tail(s))[i] = IF i <= 1 THEN <<Head(s)>>[i] ELSE Tail(s)[i - 1]
  BY <1>1, <1>2, <1>3, ConcatProperties
<1>5. \A i \in 1 .. Len(s) : (<<Head(s)>> \o Tail(s))[i] = s[i]
  BY <1>1, <1>2, <1>3, <1>4
<1> QED BY <1>1, <1>2, <1>4, <1>5, SeqEqual

\* A sequence of length one, and what it is the head of.
LEMMA Single ==
    ASSUME NEW S, NEW s \in Seq(S), NEW t \in Seq(S), s # <<>>
    PROVE  /\ Head(s \o t) = Head(s)
           /\ Tail(s \o t) = Tail(s) \o t
           /\ s \o t # <<>>
           /\ Len(s) <= 1 => Tail(s) = <<>> /\ s = <<Head(s)>>
<1>1. /\ Head(s) \in S /\ Tail(s) \in Seq(S) /\ s = <<Head(s)>> \o Tail(s)
      /\ Len(s) \in Nat \ {0} /\ Len(Tail(s)) = Len(s) - 1
  BY HeadFirst
<1>2. s \o t \in Seq(S) /\ Len(s \o t) = Len(s) + Len(t) /\ Len(t) \in Nat
      /\ (\A i \in 1 .. Len(s) + Len(t) : (s \o t)[i] = IF i <= Len(s) THEN s[i] ELSE t[i - Len(s)])
  BY ConcatProperties, LenProperties
<1>3. s \o t # <<>> /\ Head(s \o t) = Head(s)
  BY <1>1, <1>2
<1>4. Tail(s \o t) = Tail(s) \o t
  <2>1. Tail(s \o t) \in Seq(S) /\ Len(Tail(s \o t)) = Len(s) + Len(t) - 1
        /\ (\A i \in 1 .. Len(s) + Len(t) - 1 : Tail(s \o t)[i] = (s \o t)[i + 1])
    BY <1>2, <1>3, HeadTailProperties
  <2>2. Tail(s) \o t \in Seq(S) /\ Len(Tail(s) \o t) = Len(s) - 1 + Len(t)
        /\ (\A i \in 1 .. Len(s) - 1 + Len(t) :
               (Tail(s) \o t)[i] = IF i <= Len(s) - 1 THEN Tail(s)[i] ELSE t[i - (Len(s) - 1)])
    BY <1>1, <1>2, ConcatProperties
  <2>3. \A i \in 1 .. Len(s) - 1 : Tail(s)[i] = s[i + 1]
    BY <1>1, HeadTailProperties
  <2>4. \A i \in 1 .. Len(s) + Len(t) - 1 : Tail(s \o t)[i] = (Tail(s) \o t)[i]
    BY <1>1, <1>2, <2>1, <2>2, <2>3
  <2> QED BY <1>1, <1>2, <2>1, <2>2, <2>4, SeqEqual
<1>5. Len(s) <= 1 => Tail(s) = <<>> /\ s = <<Head(s)>>
  <2> SUFFICES ASSUME Len(s) <= 1 PROVE Tail(s) = <<>> /\ s = <<Head(s)>>
    OBVIOUS
  <2>1. Tail(s) = <<>>
    BY <1>1, EmptySeq
  <2> QED BY <1>1, <2>1, ConcatEmptySeq
<1> QED BY <1>3, <1>4, <1>5

\* The senders of the messages in a queue.
Senders(q) == {q[i].from : i \in DOMAIN q}
SendersOnce(q) == \A i, j \in DOMAIN q : q[i].from = q[j].from => i = j

LEMMA SendersAppend ==
    ASSUME NEW q \in Seq(Messages), NEW m \in Messages, SendersOnce(q), m.from \notin Senders(q)
    PROVE  /\ Append(q, m) \in Seq(Messages)
           /\ SendersOnce(Append(q, m)) /\ Senders(Append(q, m)) = Senders(q) \cup {m.from}
           /\ \A i \in DOMAIN Append(q, m) : Append(q, m)[i] = m \/ \E j \in DOMAIN q : Append(q, m)[i] = q[j]
<1> DEFINE r == Append(q, m)
<1>1. /\ r \in Seq(Messages) /\ DOMAIN q = 1 .. Len(q) /\ Len(q) \in Nat
      /\ DOMAIN r = 1 .. Len(q) + 1
      /\ \A i \in 1 .. Len(q) : r[i] = q[i]
      /\ r[Len(q) + 1] = m
  BY AppendProperties, LenProperties
<1> HIDE DEF r
<1>2. Senders(r) = Senders(q) \cup {m.from}
  <2>1. \A i \in DOMAIN r : r[i].from \in Senders(q) \cup {m.from}
    BY <1>1 DEF Senders
  <2>2. \A i \in DOMAIN q : i \in DOMAIN r /\ r[i].from = q[i].from
    BY <1>1
  <2>3. Len(q) + 1 \in DOMAIN r /\ r[Len(q) + 1].from = m.from
    BY <1>1
  <2> QED BY <2>1, <2>2, <2>3 DEF Senders
<1>3. SendersOnce(r)
  BY <1>1 DEF SendersOnce, Senders
<1>4. \A i \in DOMAIN r : r[i] = m \/ \E j \in DOMAIN q : r[i] = q[j]
  BY <1>1
<1> QED BY <1>1, <1>2, <1>3, <1>4 DEF r

LEMMA SendersTail ==
    ASSUME NEW q \in Seq(Messages), q # <<>>, SendersOnce(q)
    PROVE  /\ Tail(q) \in Seq(Messages) /\ Head(q) \in Messages
           /\ SendersOnce(Tail(q)) /\ Senders(Tail(q)) = Senders(q) \ {Head(q).from}
           /\ Head(q).from \in Senders(q)
           /\ \A i \in DOMAIN Tail(q) : \E j \in DOMAIN q : Tail(q)[i] = q[j]
           /\ \E j \in DOMAIN q : Head(q) = q[j]
<1> DEFINE r == Tail(q)
<1>1. /\ DOMAIN q = 1 .. Len(q) /\ Len(q) \in Nat \ {0}
      /\ r \in Seq(Messages) /\ DOMAIN r = 1 .. Len(q) - 1
      /\ \A i \in 1 .. Len(q) - 1 : r[i] = q[i + 1]
      /\ Head(q) = q[1] /\ Head(q) \in Messages
  BY EmptySeq, LenProperties, HeadTailProperties
<1> HIDE DEF r
<1>2. Senders(r) = Senders(q) \ {Head(q).from}
  <2>1. \A i \in DOMAIN r : r[i].from \in Senders(q) \ {Head(q).from}
    BY <1>1 DEF Senders, SendersOnce
  <2>2. ASSUME NEW i \in DOMAIN q, q[i].from # Head(q).from
        PROVE  i - 1 \in DOMAIN r /\ r[i - 1].from = q[i].from
    BY <1>1, <2>2
  <2> QED BY <2>1, <2>2 DEF Senders
<1>3. \A i \in DOMAIN r : i \in Int /\ i + 1 \in DOMAIN q /\ r[i] = q[i + 1]
  BY <1>1
<1>4. SendersOnce(r)
  <2> SUFFICES ASSUME NEW i \in DOMAIN r, NEW j \in DOMAIN r, r[i].from = r[j].from PROVE i = j
    BY DEF SendersOnce
  <2>1. i + 1 = j + 1
    BY <1>3 DEF SendersOnce
  <2> QED BY <1>3, <2>1
<1>5. 1 \in DOMAIN q
  BY <1>1
<1>6. /\ Head(q).from \in Senders(q) /\ \E j \in DOMAIN q : Head(q) = q[j]
      /\ \A i \in DOMAIN r : \E j \in DOMAIN q : r[i] = q[j]
  BY <1>1, <1>3, <1>5 DEF Senders
<1> QED BY <1>1, <1>2, <1>4, <1>6 DEF r

-----------------------------------------------------------------------------
(* The inductive invariant, in five parts. *)

\* TypeOK without what depends on the other parts.
Typed ==
    /\ com_num \in Ports
    /\ server \in {"starting", "telling_tx", "telling_rx", "serving", "draining", "exited"}
    /\ inbox \in Seq(Messages)
    /\ tx_ready \in BOOLEAN /\ client_ready \in BOOLEAN /\ client_tid \in Clients \cup {0}
    /\ notifier_exit_count \in 0 .. 2 /\ (server # "exited" => notifier_exit_count < 2)
    /\ rx \in {"absent", "created", "running", "awaiting", "woken", "sending", "leaving", "exited"}
    /\ tx \in {"absent", "created", "meeting", "running", "awaiting", "receiving", "writing", "sending",
               "leaving", "exited"}
    /\ cts \in {"absent", "asking", "timing", "awaiting", "delaying", "granting"}
    /\ call \in [Clients -> Requests \cup {Idle}]
    /\ panicked \in BOOLEAN
    /\ forgotten \subseteq Clients

\* The reader the server will answer when a byte comes.
Reader == IF client_ready THEN {client_tid} ELSE {}

\* A message is that of the call its sender is blocked in.
Genuine(m) ==
    /\ m.from \in Clients => call[m.from] = [type |-> m.type, data |-> m.data]
    /\ m.from = "rx" => m.type = "NOTIF_RX" /\ rx = "sending" /\ m.data = rx_data
    /\ m.from = "tx" => m.type = "NOTIF_TX" /\ tx = "sending" /\ m.data = <<>>

\* Nobody waits in two places, and everybody waits for what he is answered with.
Placed ==
    /\ SendersOnce(inbox)
    /\ \A i \in DOMAIN inbox : Genuine(inbox[i])
    /\ tx_ready => tx = "sending" /\ "tx" \notin Senders(inbox)
    /\ Reader \subseteq Clients \ Senders(inbox)
    /\ \A c \in Reader : call[c] = Read
    /\ \A c \in forgotten : call[c] # Idle /\ c \notin Senders(inbox) \cup Reader
    /\ Open /\ ~panicked =>
          \A c \in Clients : call[c] # Idle => c \in Senders(inbox) \cup Reader \cup forgotten

\* The way of a byte out.
Output ==
    /\ rb_out \in Seq(Byte) /\ Len(rb_out) <= BufferSize - 1
    /\ tx_data \in Seq(Byte) /\ Len(tx_data) <= MaxDataLen
    /\ thr \in Seq(Byte) /\ Len(thr) <= 1 /\ unsent \in Seq(Byte)
    /\ OutputInOrder
    /\ tx \in {"awaiting", "receiving", "writing"} => tx_data # <<>>
    /\ tx \notin {"running", "awaiting", "receiving", "writing"} => tx_data = <<>>
    /\ tx \in {"receiving", "writing"} => thr = <<>>
    /\ tx_ready => rb_out = <<>>

\* The way of a byte in.
Input ==
    /\ rb_in \in Seq(Byte) /\ Len(rb_in) <= BufferSize - 1
    /\ rx_data \in Seq(Byte) /\ Len(rx_data) <= 1 /\ unread \in Seq(Byte)
    /\ InputInOrder
    /\ rx \in {"woken", "sending"} => rx_data # <<>>
    /\ rx \in {"absent", "created", "running", "awaiting"} => rx_data = <<>>
    /\ client_ready => rb_in = <<>>

\* Permits to write that are on their way or in use.
Permits == (IF cts \in {"timing", "awaiting"} THEN 0 ELSE 1) + (IF tx = "writing" THEN 1 ELSE 0)

\* Start-up, and the permits for COM1.
Pacing ==
    /\ server \in {"starting", "telling_tx", "telling_rx"} => rx \in {"absent", "created"}
    /\ server \in {"starting", "telling_tx"} => tx \in {"absent", "created"} /\ cts = "absent"
    /\ cts = "asking" <=> tx = "meeting"
    /\ credit \in 0 .. MaxCredit
    /\ com_num = "COM1" => Permits <= credit

IoInv == Typed /\ Placed /\ Output /\ Input /\ Pacing

-----------------------------------------------------------------------------
(* The parts that a step leaves alone. *)

\* Nobody moves to another place; a notifier that waits for an answer goes on waiting.
LEMMA PlacesKept ==
    ASSUME Placed, UNCHANGED <<inbox, call, tx_ready, client_ready, client_tid, forgotten>>,
           Open' /\ ~panicked' => Open /\ ~panicked,
           rx = "sending" => rx' = rx /\ rx_data' = rx_data,
           tx = "sending" => tx' = tx
    PROVE  Placed'
<1>1. Senders(inbox') = Senders(inbox) /\ SendersOnce(inbox') = SendersOnce(inbox) /\ Reader' = Reader
  BY DEF Senders, SendersOnce, Reader
<1>2. \A i \in DOMAIN inbox' : Genuine(inbox[i]) => Genuine(inbox[i])'
  BY DEF Genuine
<1> QED BY <1>1, <1>2 DEF Placed, SendersOnce

LEMMA OutputKept ==
    ASSUME Output, UNCHANGED <<rb_out, tx_data, thr, unsent, tx, tx_ready>>
    PROVE  Output'
  BY DEF Output, OutputInOrder

LEMMA InputKept ==
    ASSUME Input, UNCHANGED <<rb_in, rx_data, unread, rx, client_ready>>
    PROVE  Input'
  BY DEF Input, InputInOrder

\* Once the server is in its loop, permits matter only.
LEMMA PacingKept ==
    ASSUME Pacing, UNCHANGED <<com_num, credit, cts>>,
           tx' = tx \/ (tx \notin {"absent", "created", "meeting", "writing"} /\ tx' \notin {"meeting", "writing"}),
           rx' = rx \/ rx \notin {"absent", "created"},
           server' = server \/ (server' \in {"draining", "exited"})
    PROVE  Pacing'
  BY DEF Pacing, Permits, MaxCredit

-----------------------------------------------------------------------------
(* Start-up. *)

LEMMA IoInit == Init => IoInv
<1> SUFFICES ASSUME Init PROVE IoInv
  OBVIOUS
<1>1. inbox = <<>> /\ Senders(inbox) = {} /\ Reader = {}
  BY DEF Init, Senders, Reader
<1>2. Typed
  <2>1. inbox \in Seq(Messages)
    BY <1>1, EmptySeq
  <2>2. call \in [Clients -> Requests \cup {Idle}]
    BY DEF Init
  <2>3. tx_ready \in BOOLEAN /\ client_ready \in BOOLEAN /\ panicked \in BOOLEAN
    BY DEF Init
  <2>4. forgotten \subseteq Clients /\ client_tid \in Clients \cup {0}
    BY DEF Init
  <2> QED BY <2>1, <2>2, <2>3, <2>4 DEF Init, Typed
<1>3. Placed
  BY <1>1 DEF Init, Placed, SendersOnce
<1>4. <<>> \in Seq(Byte) /\ Len(<<>>) = 0 /\ BufferSize - 1 \in Nat /\ MaxDataLen \in Nat
  BY IoAssumption DEF Byte
<1>5. <<>> \o <<>> = <<>>
  BY <1>4, ConcatEmptySeq
<1>6. Output /\ Input
  BY <1>4, <1>5 DEF Init, Output, OutputInOrder, Input, InputInOrder
<1>7. Pacing
  BY DEF Init, Pacing, Permits, MaxCredit
<1> QED BY <1>2, <1>3, <1>6, <1>7 DEF IoInv

LEMMA ServerStartsStep == ASSUME IoInv, ServerStarts PROVE IoInv'
<1>1. /\ UNCHANGED <<com_num, inbox, rb_in, rb_out, tx_ready, client_ready, client_tid, notifier_exit_count,
                     rx_data, unread, tx_data, thr, unsent, credit, cts, call, forgotten>>
      /\ server = "starting"
      /\ \/ /\ server' = "telling_tx" /\ rx' = "created" /\ tx' = "created" /\ UNCHANGED panicked
         \/ panicked' = TRUE /\ UNCHANGED <<server, rx, tx>>
  BY DEF ServerStarts, Panics, serverVars, rxVars, txVars, clientVars
<1>2. Typed /\ Placed /\ Output /\ Input /\ Pacing
  BY DEF IoInv
<1>3. rx \in {"absent", "created"} /\ tx \in {"absent", "created"} /\ cts = "absent"
  BY <1>1, <1>2 DEF Pacing
<1>4. Typed'
  <2>1. CASE server' = "telling_tx" /\ rx' = "created" /\ tx' = "created" /\ UNCHANGED panicked
    BY <1>1, <1>2, <2>1 DEF Typed
  <2>2. CASE panicked' = TRUE /\ UNCHANGED <<server, rx, tx>>
    BY <1>1, <1>2, <2>2 DEF Typed
  <2> QED BY <1>1, <2>1, <2>2
<1>5. Placed'
  BY <1>1, <1>2, <1>3, PlacesKept DEF Open
<1>6. Output'
  BY <1>1, <1>2, <1>3 DEF Output, OutputInOrder
<1>7. Input'
  BY <1>1, <1>2, <1>3 DEF Input, InputInOrder
<1>8. Pacing'
  BY <1>1, <1>2, <1>3 DEF Pacing, Permits
<1> QED BY <1>4, <1>5, <1>6, <1>7, <1>8 DEF IoInv

LEMMA TellsTxStep == ASSUME IoInv, TellsTx PROVE IoInv'
<1>1. /\ UNCHANGED <<com_num, inbox, rb_in, rb_out, tx_ready, client_ready, client_tid, notifier_exit_count,
                     rx, rx_data, unread, tx_data, thr, unsent, credit, call, forgotten, panicked>>
      /\ server = "telling_tx" /\ server' = "telling_rx"
      /\ tx' = IF com_num = "COM1" THEN "meeting" ELSE "running"
      /\ cts' = IF com_num = "COM1" THEN "asking" ELSE "absent"
  BY DEF TellsTx, Runs, rxVars, clientVars
<1>2. Typed /\ Placed /\ Output /\ Input /\ Pacing
  BY DEF IoInv
<1>3. rx \in {"absent", "created"} /\ tx \in {"absent", "created"} /\ cts = "absent"
  BY <1>1, <1>2 DEF Pacing
<1>4. Typed'
  BY <1>1, <1>2 DEF Typed
<1>5. Placed'
  BY <1>1, <1>2, <1>3, PlacesKept DEF Open
<1>6. Output'
  BY <1>1, <1>2, <1>3 DEF Output, OutputInOrder
<1>7. Pacing'
  BY <1>1, <1>2, <1>3 DEF Pacing, Permits
<1> QED BY <1>1, <1>2, <1>4, <1>5, <1>6, <1>7, InputKept DEF IoInv

LEMMA TellsRxStep == ASSUME IoInv, TellsRx PROVE IoInv'
<1>1. /\ UNCHANGED <<com_num, inbox, rb_in, rb_out, tx_ready, client_ready, client_tid, notifier_exit_count,
                     rx_data, unread, tx, tx_data, thr, unsent, credit, cts, call, forgotten, panicked>>
      /\ server = "telling_rx" /\ server' = "serving" /\ rx' = "running"
  BY DEF TellsRx, Runs, txVars, clientVars
<1>2. Typed /\ Placed /\ Output /\ Input /\ Pacing
  BY DEF IoInv
<1>3. rx \in {"absent", "created"}
  BY <1>1, <1>2 DEF Pacing
<1>4. Typed'
  BY <1>1, <1>2 DEF Typed
<1>5. Placed'
  BY <1>1, <1>2, <1>3, PlacesKept DEF Open
<1>6. Input'
  BY <1>1, <1>2, <1>3 DEF Input, InputInOrder
<1>7. Pacing'
  BY <1>1, <1>2 DEF Pacing, Permits
<1> QED BY <1>1, <1>2, <1>4, <1>5, <1>6, <1>7, OutputKept DEF IoInv

LEMMA CtsMeetsStep == ASSUME IoInv, CtsMeets PROVE IoInv'
<1>1. /\ UNCHANGED <<com_num, inbox, server, rb_in, rb_out, tx_ready, client_ready, client_tid,
                     notifier_exit_count, rx, rx_data, unread, tx_data, thr, unsent, credit, call, forgotten,
                     panicked>>
      /\ cts = "asking" /\ cts' = "granting" /\ tx = "meeting" /\ tx' = "running"
  BY DEF CtsMeets, Runs, serverVars, rxVars, clientVars
<1>2. Typed /\ Placed /\ Output /\ Input /\ Pacing
  BY DEF IoInv
<1>3. Typed'
  BY <1>1, <1>2 DEF Typed
<1>4. Placed'
  BY <1>1, <1>2, PlacesKept DEF Open
<1>5. Output'
  BY <1>1, <1>2 DEF Output, OutputInOrder
<1>6. Pacing'
  BY <1>1, <1>2 DEF Pacing, Permits
<1> QED BY <1>1, <1>2, <1>3, <1>4, <1>5, <1>6, InputKept DEF IoInv

-----------------------------------------------------------------------------
(* The notifiers and the line. *)

\* The receive notifier moves without sending.
LEMMA RxStep == ASSUME IoInv, RxAwaits \/ RxExits \/ \E b \in Bytes : ByteArrives(b) PROVE IoInv'
<1>1. /\ UNCHANGED <<com_num, inbox, server, rb_in, rb_out, tx_ready, client_ready, client_tid,
                     notifier_exit_count, tx, tx_data, thr, unsent, credit, cts, call, forgotten, panicked>>
      /\ \/ rx = "running" /\ rx' = "awaiting" /\ UNCHANGED <<rx_data, unread>>
         \/ rx = "leaving" /\ rx' = "exited" /\ UNCHANGED <<rx_data, unread>>
         \/ /\ rx = "awaiting" /\ rx' = "woken"
            /\ \E b \in Bytes : rx_data' = <<b>> /\ unread' = Append(unread, b)
  BY DEF RxAwaits, RxExits, ByteArrives, Runs, serverVars, txVars, clientVars
<1>2. Typed /\ Placed /\ Output /\ Input /\ Pacing
  BY DEF IoInv
<1>3. Typed'
  BY <1>1, <1>2 DEF Typed
<1>4. Placed'
  BY <1>1, <1>2, PlacesKept DEF Open
<1>5. Input'
  <2>1. CASE UNCHANGED <<rx_data, unread>> /\ <<rx, rx'>> \in {<<"running", "awaiting">>, <<"leaving", "exited">>}
    BY <1>1, <1>2, <2>1 DEF Input, InputInOrder
  <2>2. ASSUME NEW b \in Bytes, rx = "awaiting", rx' = "woken", rx_data' = <<b>>, unread' = Append(unread, b)
        PROVE  Input'
    <3>1. b \in Byte /\ <<b>> \in Seq(Byte) /\ Len(<<b>>) = 1 /\ <<b>> # <<>>
      BY IoAssumption DEF Byte
    <3>2. rb_in \in Seq(Byte) /\ unread \in Seq(Byte) /\ rb_in \o <<>> = unread
      BY <1>2, <2>2 DEF Input, InputInOrder
    <3>3. rb_in = unread
      BY <3>2, ConcatEmptySeq
    <3>4. unread' = rb_in \o <<b>> /\ unread' \in Seq(Byte)
      BY <2>2, <3>1, <3>2, <3>3, AppendIsConcat, AppendProperties
    <3> QED BY <1>1, <1>2, <2>2, <3>1, <3>4 DEF Input, InputInOrder
  <2> QED BY <1>1, <2>1, <2>2
<1>6. Pacing'
  BY <1>1, <1>2, PacingKept
<1> QED BY <1>1, <1>2, <1>3, <1>4, <1>5, <1>6, OutputKept DEF IoInv

\* The transmit notifier moves without writing or sending.
LEMMA TxStep == ASSUME IoInv, TxAwaits \/ TxInterrupt \/ TxPermitted \/ TxExits PROVE IoInv'
<1>1. /\ UNCHANGED <<com_num, inbox, server, rb_in, rb_out, tx_ready, client_ready, client_tid,
                     notifier_exit_count, rx, rx_data, unread, tx_data, thr, unsent, credit, call, forgotten,
                     panicked>>
      /\ \/ tx = "running" /\ tx_data # <<>> /\ tx' = "awaiting" /\ UNCHANGED cts
         \/ /\ tx = "awaiting" /\ thr = <<>> /\ UNCHANGED cts
            /\ tx' = IF com_num = "COM1" THEN "receiving" ELSE "writing"
         \/ tx = "receiving" /\ cts = "granting" /\ tx' = "writing" /\ cts' = "timing"
         \/ tx = "leaving" /\ tx' = "exited" /\ UNCHANGED cts
  BY DEF TxAwaits, TxInterrupt, TxPermitted, TxReceives, TxExits, Runs, serverVars, rxVars, clientVars
<1>2. Typed /\ Placed /\ Output /\ Input /\ Pacing
  BY DEF IoInv
<1>3. Typed'
  BY <1>1, <1>2 DEF Typed
<1>4. Placed'
  BY <1>1, <1>2, PlacesKept DEF Open
<1>5. Output'
  BY <1>1, <1>2 DEF Output, OutputInOrder
<1>6. Pacing'
  BY <1>1, <1>2 DEF Pacing, Permits
<1> QED BY <1>1, <1>2, <1>3, <1>4, <1>5, <1>6, InputKept DEF IoInv

LEMMA TxWritesStep == ASSUME IoInv, TxWrites PROVE IoInv'
<1>1. /\ UNCHANGED <<com_num, inbox, server, rb_in, rb_out, tx_ready, client_ready, client_tid,
                     notifier_exit_count, rx, rx_data, unread, unsent, cts, call, forgotten, panicked>>
      /\ tx = "writing" /\ tx' = "running" /\ thr' = <<Head(tx_data)>> /\ tx_data' = Tail(tx_data)
      /\ credit' = IF com_num = "COM1" THEN credit - 1 ELSE credit
  BY DEF TxWrites, Runs, serverVars, rxVars, clientVars
<1>2. Typed /\ Placed /\ Output /\ Input /\ Pacing
  BY DEF IoInv
<1>3. Typed'
  BY <1>1, <1>2 DEF Typed
<1>4. Placed'
  BY <1>1, <1>2, PlacesKept DEF Open
<1>5. Output'
  <2>1. /\ tx_data # <<>> /\ thr = <<>> /\ tx_data \in Seq(Byte) /\ rb_out \in Seq(Byte)
        /\ (<<>> \o tx_data) \o rb_out = unsent
    BY <1>1, <1>2 DEF Output, OutputInOrder
  <2>2. /\ Head(tx_data) \in Byte /\ Tail(tx_data) \in Seq(Byte) /\ tx_data = <<Head(tx_data)>> \o Tail(tx_data)
        /\ Len(Tail(tx_data)) = Len(tx_data) - 1 /\ Len(tx_data) \in Nat
    BY <2>1, HeadFirst
  <2>3. <<Head(tx_data)>> \in Seq(Byte) /\ Len(<<Head(tx_data)>>) = 1
    BY <2>2
  <2>4. (<<Head(tx_data)>> \o Tail(tx_data)) \o rb_out = unsent
    BY <2>1, <2>2, ConcatEmptySeq
  <2>5. Len(Tail(tx_data)) <= MaxDataLen
    BY <1>2, <2>2, IoAssumption DEF Output
  <2> QED BY <1>1, <1>2, <2>2, <2>3, <2>4, <2>5 DEF Output, OutputInOrder
<1>6. Pacing'
  BY <1>1, <1>2 DEF Pacing, Permits, MaxCredit
<1> QED BY <1>1, <1>2, <1>3, <1>4, <1>5, <1>6, InputKept DEF IoInv

LEMMA LineSendsStep == ASSUME IoInv, LineSends PROVE IoInv'
<1>1. /\ UNCHANGED <<com_num, inbox, server, rb_in, rb_out, tx_ready, client_ready, client_tid,
                     notifier_exit_count, rx, rx_data, unread, tx, tx_data, credit, cts, call, forgotten, panicked>>
      /\ thr # <<>> /\ thr' = <<>> /\ unsent' = Tail(unsent)
  BY DEF LineSends, Runs, serverVars, rxVars, clientVars
<1>2. Typed /\ Placed /\ Output /\ Input /\ Pacing
  BY DEF IoInv
<1>3. Typed'
  BY <1>1, <1>2 DEF Typed
<1>4. Placed'
  BY <1>1, <1>2, PlacesKept DEF Open
<1>5. Output'
  <2>1. /\ thr \in Seq(Byte) /\ Len(thr) <= 1 /\ tx_data \in Seq(Byte) /\ rb_out \in Seq(Byte)
        /\ (thr \o tx_data) \o rb_out = unsent
    BY <1>2 DEF Output, OutputInOrder
  <2>2. thr \o tx_data \in Seq(Byte) /\ thr \o tx_data # <<>> /\ Tail(thr \o tx_data) = Tail(thr) \o tx_data
        /\ Tail(thr) = <<>>
    BY <1>1, <2>1, Single, ConcatProperties
  <2> DEFINE u == thr \o tx_data
  <2>3. Tail(unsent) = (<<>> \o tx_data) \o rb_out
    <3>1. u \in Seq(Byte) /\ u # <<>> /\ unsent = u \o rb_out /\ Tail(u) = <<>> \o tx_data
      BY <2>1, <2>2
    <3> HIDE DEF u
    <3>2. Tail(u \o rb_out) = Tail(u) \o rb_out
      BY <2>1, <3>1, Single
    <3> QED BY <3>1, <3>2
  <2>4. <<>> \in Seq(Byte) /\ Len(<<>>) = 0 /\ <<>> \o tx_data \in Seq(Byte)
    BY <2>1, EmptySeq, ConcatProperties
  <2>5. unsent' \in Seq(Byte)
    BY <1>1, <2>1, <2>3, <2>4, ConcatProperties
  <2>6. OutputInOrder'
    BY <1>1, <2>3 DEF OutputInOrder
  <2>7. thr' \in Seq(Byte) /\ Len(thr') <= 1
    BY <1>1, <2>4
  <2> QED BY <1>1, <1>2, <2>5, <2>6, <2>7 DEF Output
<1>6. Pacing'
  BY <1>1, <1>2, PacingKept
<1> QED BY <1>1, <1>2, <1>3, <1>4, <1>5, <1>6, InputKept DEF IoInv

LEMMA CtsStep == ASSUME IoInv, CtsAwaits \/ CtsGrants \/ \E clear \in BOOLEAN : ModemChanges(clear) PROVE IoInv'
<1>1. /\ UNCHANGED <<com_num, inbox, server, rb_in, rb_out, tx_ready, client_ready, client_tid,
                     notifier_exit_count, rx, rx_data, unread, tx, tx_data, thr, unsent, call, forgotten, panicked>>
      /\ \/ cts = "timing" /\ cts' = "awaiting" /\ UNCHANGED credit
         \/ cts = "delaying" /\ cts' = "granting" /\ UNCHANGED credit
         \/ /\ cts = "awaiting" /\ cts' \in {"delaying", "timing"}
            /\ credit' = IF credit < MaxCredit THEN credit + 1 ELSE credit
  BY DEF CtsAwaits, CtsGrants, ModemChanges, CtsGoes, Runs, serverVars, rxVars, clientVars
<1>2. Typed /\ Placed /\ Output /\ Input /\ Pacing
  BY DEF IoInv
<1>3. Typed'
  BY <1>1, <1>2 DEF Typed
<1>4. Placed'
  BY <1>1, <1>2, PlacesKept DEF Open
<1>5. Pacing'
  BY <1>1, <1>2 DEF Pacing, Permits, MaxCredit
<1> QED BY <1>1, <1>2, <1>3, <1>4, <1>5, InputKept, OutputKept DEF IoInv

\* A request as it is sent.
LEMMA RequestFacts ==
    ASSUME NEW r \in Requests
    PROVE  /\ r = [type |-> r.type, data |-> r.data]
           /\ r.type \in {"CLIENT_READ", "CLIENT_WRITE", "EXIT"} /\ r # Idle
           /\ r.data \in Seq(Byte) /\ Len(r.data) <= MaxDataLen
           /\ r.type = "CLIENT_READ" => r = Read
<1>1. <<>> \in Seq(Byte) /\ Len(<<>>) = 0 /\ MaxDataLen \in Nat
  BY IoAssumption DEF Byte
<1>2. CASE r = Read
  BY <1>1, <1>2 DEF Read, Idle
<1>3. CASE r = Exit
  BY <1>1, <1>3 DEF Exit, Idle
<1>4. ASSUME NEW str \in Strings, r = Write(str)
      PROVE  /\ r = [type |-> r.type, data |-> r.data]
             /\ r.type = "CLIENT_WRITE" /\ r # Idle
             /\ r.data \in Seq(Byte) /\ Len(r.data) <= MaxDataLen
  <2>1. str \in Seq(Byte)
    BY IoAssumption DEF Byte
  <2>2. First(str, MaxDataLen) \in Seq(Byte) /\ Len(First(str, MaxDataLen)) <= MaxDataLen
    BY <1>1, <2>1, FirstRest
  <2> QED BY <1>4, <2>2 DEF Write, Idle
<1> QED BY <1>2, <1>3, <1>4 DEF Requests

\* A message arrives from somebody who had none in the queue.
LEMMA MessageSent ==
    ASSUME IoInv, NEW m \in Messages, m.from \notin Senders(inbox), inbox' = Append(inbox, m)
    PROVE  /\ inbox' \in Seq(Messages) /\ SendersOnce(inbox')
           /\ Senders(inbox') = Senders(inbox) \cup {m.from}
           /\ \A i \in DOMAIN inbox' : inbox'[i] = m \/ \E j \in DOMAIN inbox : inbox'[i] = inbox[j]
<1>1. inbox \in Seq(Messages) /\ SendersOnce(inbox)
  BY DEF IoInv, Typed, Placed
<1> QED BY <1>1, SendersAppend

\* The server takes a message.
LEMMA MessageTaken ==
    ASSUME IoInv, inbox # <<>>, inbox' = Tail(inbox)
    PROVE  /\ Head(inbox) \in Messages /\ Head(inbox).from \in Senders(inbox) /\ Genuine(Head(inbox))
           /\ inbox' \in Seq(Messages) /\ SendersOnce(inbox')
           /\ Senders(inbox') = Senders(inbox) \ {Head(inbox).from}
           /\ \A i \in DOMAIN inbox' : Genuine(inbox'[i]) /\ inbox'[i].from \in Senders(inbox')
<1>1. inbox \in Seq(Messages) /\ SendersOnce(inbox) /\ (\A i \in DOMAIN inbox : Genuine(inbox[i]))
  BY DEF IoInv, Typed, Placed
<1>2. /\ Tail(inbox) \in Seq(Messages) /\ Head(inbox) \in Messages
      /\ SendersOnce(Tail(inbox)) /\ Senders(Tail(inbox)) = Senders(inbox) \ {Head(inbox).from}
      /\ Head(inbox).from \in Senders(inbox)
      /\ \A i \in DOMAIN Tail(inbox) : \E j \in DOMAIN inbox : Tail(inbox)[i] = inbox[j]
      /\ \E j \in DOMAIN inbox : Head(inbox) = inbox[j]
  BY <1>1, SendersTail
<1>3. \A i \in DOMAIN inbox' : Genuine(inbox'[i])
  BY <1>1, <1>2
<1>4. Genuine(Head(inbox))
  BY <1>1, <1>2
<1>5. \A i \in DOMAIN inbox' : inbox'[i].from \in Senders(inbox')
  BY DEF Senders
<1> QED BY <1>2, <1>3, <1>4, <1>5

LEMMA RxSendsStep == ASSUME IoInv, RxSends PROVE IoInv'
<1> DEFINE m == Message("rx", "NOTIF_RX", rx_data)
<1>1. /\ UNCHANGED <<com_num, server, rb_in, rb_out, tx_ready, client_ready, client_tid, notifier_exit_count,
                     rx_data, unread, tx, tx_data, thr, unsent, credit, cts, call, forgotten, panicked>>
      /\ rx = "woken" /\ rx' = "sending" /\ inbox' = Append(inbox, m)
  BY DEF RxSends, Runs, serverVars, txVars, clientVars
<1>2. Typed /\ Placed /\ Output /\ Input /\ Pacing
  BY DEF IoInv
<1>3. m = [from |-> "rx", type |-> "NOTIF_RX", data |-> rx_data] /\ m \in Messages
  BY <1>2 DEF Message, Messages, Types, Input, Byte
<1>4. m.from = "rx" /\ m.type = "NOTIF_RX" /\ m.data = rx_data
  BY <1>3
<1>5. "rx" \notin Senders(inbox)
  BY <1>1, <1>2 DEF Senders, Placed, Genuine
<1> HIDE DEF m
<1>6. /\ inbox' \in Seq(Messages) /\ SendersOnce(inbox')
      /\ Senders(inbox') = Senders(inbox) \cup {"rx"}
      /\ \A i \in DOMAIN inbox' : inbox'[i] = m \/ \E j \in DOMAIN inbox : inbox'[i] = inbox[j]
  BY <1>1, <1>3, <1>4, <1>5, MessageSent
<1>7. Typed'
  BY <1>1, <1>2, <1>6 DEF Typed
<1>8. Placed'
  <2>1. "rx" \notin Clients /\ Reader' = Reader
    BY <1>1, IoAssumption DEF Reader
  <2>2. ASSUME NEW i \in DOMAIN inbox' PROVE Genuine(inbox[i])'
    <3>1. CASE inbox'[i] = m
      BY <1>1, <1>4, <2>1, <3>1 DEF Genuine
    <3>2. ASSUME NEW j \in DOMAIN inbox, inbox'[i] = inbox[j] PROVE Genuine(inbox[i])'
      <4>1. Genuine(inbox[j])
        BY <1>2 DEF Placed
      <4> QED BY <1>1, <3>2, <4>1 DEF Genuine
    <3> QED BY <1>6, <3>1, <3>2
  <2> QED BY <1>1, <1>2, <1>6, <2>1, <2>2 DEF Placed, Open, Typed
<1>9. Input'
  BY <1>1, <1>2 DEF Input, InputInOrder
<1>10. Pacing'
  BY <1>1, <1>2, PacingKept
<1> QED BY <1>1, <1>2, <1>7, <1>8, <1>9, <1>10, OutputKept DEF IoInv

LEMMA TxSendsStep == ASSUME IoInv, TxSends PROVE IoInv'
<1> DEFINE m == Message("tx", "NOTIF_TX", <<>>)
<1>1. /\ UNCHANGED <<com_num, server, rb_in, rb_out, tx_ready, client_ready, client_tid, notifier_exit_count,
                     rx, rx_data, unread, tx_data, thr, unsent, credit, cts, call, forgotten, panicked>>
      /\ tx = "running" /\ tx_data = <<>> /\ tx' = "sending" /\ inbox' = Append(inbox, m)
  BY DEF TxSends, Runs, serverVars, rxVars, clientVars
<1>2. Typed /\ Placed /\ Output /\ Input /\ Pacing
  BY DEF IoInv
<1>3. m = [from |-> "tx", type |-> "NOTIF_TX", data |-> <<>>] /\ m \in Messages
  BY EmptySeq DEF Message, Messages, Types
<1>4. m.from = "tx" /\ m.type = "NOTIF_TX" /\ m.data = <<>>
  BY <1>3
<1>5. "tx" \notin Senders(inbox)
  BY <1>1, <1>2 DEF Senders, Placed, Genuine
<1> HIDE DEF m
<1>6. /\ inbox' \in Seq(Messages) /\ SendersOnce(inbox')
      /\ Senders(inbox') = Senders(inbox) \cup {"tx"}
      /\ \A i \in DOMAIN inbox' : inbox'[i] = m \/ \E j \in DOMAIN inbox : inbox'[i] = inbox[j]
  BY <1>1, <1>3, <1>4, <1>5, MessageSent
<1>7. Typed'
  BY <1>1, <1>2, <1>6 DEF Typed
<1>8. Placed'
  <2>1. "tx" \notin Clients /\ Reader' = Reader
    BY <1>1, IoAssumption DEF Reader
  <2>2. ASSUME NEW i \in DOMAIN inbox' PROVE Genuine(inbox[i])'
    <3>1. CASE inbox'[i] = m
      BY <1>1, <1>4, <2>1, <3>1 DEF Genuine
    <3>2. ASSUME NEW j \in DOMAIN inbox, inbox'[i] = inbox[j] PROVE Genuine(inbox[i])'
      <4>1. Genuine(inbox[j])
        BY <1>2 DEF Placed
      <4> QED BY <1>1, <3>2, <4>1 DEF Genuine
    <3> QED BY <1>6, <3>1, <3>2
  <2>3. ~tx_ready
    BY <1>1, <1>2 DEF Placed
  <2> QED BY <1>1, <1>2, <1>6, <2>1, <2>2, <2>3 DEF Placed, Open, Typed
<1>9. Output'
  BY <1>1, <1>2 DEF Output, OutputInOrder
<1>10. Pacing'
  BY <1>1, <1>2, PacingKept
<1> QED BY <1>1, <1>2, <1>7, <1>8, <1>9, <1>10, InputKept DEF IoInv

-----------------------------------------------------------------------------
(* The clients. *)

LEMMA CallsStep ==
    ASSUME IoInv, NEW c \in Clients, NEW r \in Requests, Calls(c, r)
    PROVE  IoInv'
<1> DEFINE m == Message(c, r.type, r.data)
<1>1. /\ UNCHANGED <<com_num, server, rb_in, rb_out, tx_ready, client_ready, client_tid, notifier_exit_count,
                     rx, rx_data, unread, tx, tx_data, thr, unsent, credit, cts, forgotten, panicked>>
      /\ call[c] = Idle /\ call' = [call EXCEPT ![c] = r] /\ inbox' = Append(inbox, m)
  BY DEF Calls, Runs, serverVars, rxVars, txVars
<1>2. Typed /\ Placed /\ Output /\ Input /\ Pacing
  BY DEF IoInv
<1>3. /\ r = [type |-> r.type, data |-> r.data] /\ r # Idle
      /\ r.type \in {"CLIENT_READ", "CLIENT_WRITE", "EXIT"} /\ r.data \in Seq(Byte)
      /\ Read # Idle /\ c \notin {"rx", "tx"}
  BY RequestFacts, IoAssumption DEF Read, Idle
<1>4. /\ m = [from |-> c, type |-> r.type, data |-> r.data] /\ m \in Messages
      /\ m.from = c /\ m.type = r.type /\ m.data = r.data
  BY <1>3 DEF Message, Messages, Types, Byte
<1>5. \A d \in Clients : call'[d] = IF d = c THEN r ELSE call[d]
  BY <1>1, <1>2 DEF Typed
<1>6. c \notin Senders(inbox) \cup Reader \cup forgotten
  <2>1. ASSUME NEW i \in DOMAIN inbox PROVE inbox[i].from # c
    <3>1. /\ inbox[i].from \in Clients => call[inbox[i].from] = [type |-> inbox[i].type, data |-> inbox[i].data]
          /\ inbox[i] \in Messages
      BY <1>2 DEF Placed, Genuine, Typed
    <3>2. inbox[i].type # "NONE"
      BY <3>1 DEF Messages, Types
    <3> QED BY <1>1, <3>1, <3>2 DEF Idle
  <2>2. c \notin Reader \cup forgotten
    BY <1>1, <1>2, <1>3 DEF Placed
  <2> QED BY <2>1, <2>2 DEF Senders
<1> HIDE DEF m
<1>7. /\ inbox' \in Seq(Messages) /\ SendersOnce(inbox')
      /\ Senders(inbox') = Senders(inbox) \cup {c}
      /\ \A i \in DOMAIN inbox' : inbox'[i] = m \/ \E j \in DOMAIN inbox : inbox'[i] = inbox[j]
  BY <1>1, <1>4, <1>6, MessageSent
<1>8. Typed'
  BY <1>1, <1>2, <1>7 DEF Typed
<1>9. Placed'
  <2>1. Reader' = Reader
    BY <1>1 DEF Reader
  <2>2. ASSUME NEW i \in DOMAIN inbox' PROVE Genuine(inbox[i])'
    <3>1. CASE inbox'[i] = m
      BY <1>3, <1>4, <1>5, <3>1 DEF Genuine
    <3>2. ASSUME NEW j \in DOMAIN inbox, inbox'[i] = inbox[j] PROVE Genuine(inbox[i])'
      <4>1. Genuine(inbox[j]) /\ inbox[j].from # c
        BY <1>2, <1>6 DEF Placed, Senders
      <4> QED BY <1>1, <1>5, <3>2, <4>1 DEF Genuine
    <3> QED BY <1>7, <3>1, <3>2
  <2> QED BY <1>1, <1>2, <1>3, <1>5, <1>6, <1>7, <2>1, <2>2 DEF Placed, Open, Typed
<1>10. Pacing'
  BY <1>1, <1>2, PacingKept
<1> QED BY <1>1, <1>2, <1>8, <1>9, <1>10, InputKept, OutputKept DEF IoInv

LEMMA CallsNobodyStep ==
    ASSUME IoInv, NEW c \in Clients, NEW r \in Requests, CallsNobody(c, r)
    PROVE  IoInv'
<1>1. /\ UNCHANGED <<com_num, inbox, server, rb_in, rb_out, tx_ready, client_ready, client_tid,
                     notifier_exit_count, rx, rx_data, unread, tx, tx_data, thr, unsent, credit, cts, call, forgotten>>
      /\ ~panicked /\ panicked' \in BOOLEAN
  BY DEF CallsNobody, serverVars, rxVars, txVars
<1>2. Typed /\ Placed /\ Output /\ Input /\ Pacing
  BY DEF IoInv
<1>3. Typed'
  BY <1>1, <1>2 DEF Typed
<1>4. Placed'
  BY <1>1, <1>2, PlacesKept DEF Open
<1>5. Pacing'
  BY <1>1, <1>2, PacingKept
<1> QED BY <1>1, <1>2, <1>3, <1>4, <1>5, InputKept, OutputKept DEF IoInv

-----------------------------------------------------------------------------
(* The server. *)

\* Whose message the server handles.
LEMMA WhoseMessage ==
    ASSUME IoInv, inbox # <<>>, inbox' = Tail(inbox)
    PROVE  LET m == Head(inbox)
           IN  /\ m.type \in {"CLIENT_READ", "CLIENT_WRITE", "EXIT"} =>
                     /\ m.from \in Clients \ (Reader \cup forgotten)
                     /\ call[m.from] # Idle /\ m.data \in Seq(Byte)
               /\ m.type = "CLIENT_READ" => call[m.from] = Read
               /\ m.type = "NOTIF_RX" => m.from = "rx" /\ rx = "sending" /\ m.data = rx_data
               /\ m.type = "NOTIF_TX" => m.from = "tx" /\ tx = "sending" /\ ~tx_ready
               /\ m.type \in Types
<1> DEFINE m == Head(inbox)
<1>1. m \in Messages /\ m.from \in Senders(inbox) /\ Genuine(m)
  BY MessageTaken
<1>2. Typed /\ Placed
  BY DEF IoInv
<1> HIDE DEF m
<1>3. /\ m.from \in Clients \cup {"rx", "tx"} /\ m.type \in Types /\ m.data \in Seq(Byte)
      /\ m.from = "rx" => m.type = "NOTIF_RX" /\ rx = "sending" /\ m.data = rx_data
      /\ m.from = "tx" => m.type = "NOTIF_TX" /\ tx = "sending" /\ ~tx_ready
  BY <1>1, <1>2 DEF Messages, Byte, Genuine, Placed
<1>4. ASSUME m.from \in Clients
      PROVE  /\ m.type \in {"CLIENT_READ", "CLIENT_WRITE", "EXIT"} /\ m.from \notin Reader \cup forgotten
             /\ call[m.from] # Idle /\ (m.type = "CLIENT_READ" => call[m.from] = Read)
  <2>1. call[m.from] = [type |-> m.type, data |-> m.data] /\ call[m.from] \in Requests \cup {Idle}
    BY <1>1, <1>2, <1>4 DEF Genuine, Typed
  <2>2. call[m.from].type = m.type /\ m.type # "NONE"
    BY <1>3, <2>1 DEF Types
  <2>3. call[m.from] \in Requests
    BY <2>1, <2>2 DEF Idle
  <2>4. /\ m.type \in {"CLIENT_READ", "CLIENT_WRITE", "EXIT"} /\ call[m.from] # Idle
        /\ m.type = "CLIENT_READ" => call[m.from] = Read
    BY <2>2, <2>3, RequestFacts
  <2>5. m.from \notin Reader \cup forgotten
    BY <1>1, <1>2 DEF Placed
  <2> QED BY <2>4, <2>5
<1> QED BY <1>3, <1>4 DEF m

\* A message is taken and no client is answered: it is a notifier's, or the server no
\* longer serves.
LEMMA TakenPlaces ==
    ASSUME IoInv, inbox # <<>>, inbox' = Tail(inbox),
           UNCHANGED <<call, client_ready, client_tid, forgotten>>,
           Open' /\ ~panicked' => Open /\ ~panicked /\ Head(inbox).from \notin Clients,
           rx = "sending" => Head(inbox).from = "rx" \/ (rx' = rx /\ rx_data' = rx_data),
           tx = "sending" => Head(inbox).from = "tx" \/ tx' = tx,
           tx_ready' => tx' = "sending" /\ (tx_ready \/ Head(inbox).from = "tx")
    PROVE  Placed'
<1> DEFINE a == Head(inbox).from
<1>1. Typed /\ Placed
  BY DEF IoInv
<1>2. /\ inbox' \in Seq(Messages) /\ SendersOnce(inbox') /\ a \in Senders(inbox)
      /\ Senders(inbox') = Senders(inbox) \ {a}
      /\ \A i \in DOMAIN inbox' : Genuine(inbox'[i]) /\ inbox'[i].from \in Senders(inbox')
  BY MessageTaken
<1> HIDE DEF a
<1>3. Reader' = Reader
  BY DEF Reader
<1>4. ASSUME NEW i \in DOMAIN inbox' PROVE Genuine(inbox[i])'
  <2>1. Genuine(inbox'[i]) /\ inbox'[i].from # a
    BY <1>2
  <2> QED BY <2>1 DEF Genuine, a
<1>5. tx_ready' => tx' = "sending" /\ "tx" \notin Senders(inbox')
  BY <1>1, <1>2 DEF Placed, a
<1>6. Open' /\ ~panicked' =>
          \A c \in Clients : call'[c] # Idle => c \in Senders(inbox') \cup Reader' \cup forgotten'
  BY <1>1, <1>2, <1>3 DEF Placed, a
<1> QED BY <1>1, <1>2, <1>3, <1>4, <1>5, <1>6 DEF Placed, Typed

\* A client is answered: the one whose message is taken, or the reader, whose place is
\* then free.
LEMMA AnsweredPlaces ==
    ASSUME IoInv, inbox # <<>>, inbox' = Tail(inbox), NEW c \in Clients \ forgotten,
           call' = [call EXCEPT ![c] = Idle], UNCHANGED <<forgotten, client_tid, server, panicked>>,
           \/ c = Head(inbox).from /\ c \notin Reader /\ UNCHANGED client_ready
           \/ Head(inbox).from \notin Clients /\ Reader = {c} /\ client_ready' = FALSE,
           rx = "sending" => Head(inbox).from = "rx" \/ (rx' = rx /\ rx_data' = rx_data),
           tx = "sending" => tx_ready \/ tx' = tx,
           tx_ready' => tx_ready /\ tx' = tx
    PROVE  Placed'
<1> DEFINE a == Head(inbox).from
<1>1. Typed /\ Placed
  BY DEF IoInv
<1>2. /\ inbox' \in Seq(Messages) /\ SendersOnce(inbox') /\ a \in Senders(inbox)
      /\ Senders(inbox') = Senders(inbox) \ {a}
      /\ \A i \in DOMAIN inbox' : Genuine(inbox'[i]) /\ inbox'[i].from \in Senders(inbox')
  BY MessageTaken
<1> HIDE DEF a
<1>3. Reader' \subseteq Reader /\ (a \notin Clients => Reader = {c} /\ Reader' = {})
      /\ (a \in Clients => a = c /\ Reader' = Reader /\ c \notin Reader)
  BY DEF Reader, a
<1>4. c \notin Senders(inbox')
  BY <1>1, <1>2, <1>3 DEF Placed
<1>5. \A d \in Clients : call'[d] = IF d = c THEN Idle ELSE call[d]
  BY <1>1 DEF Typed
<1>6. ASSUME NEW i \in DOMAIN inbox' PROVE Genuine(inbox[i])'
  <2>1. Genuine(inbox'[i]) /\ inbox'[i].from # a /\ inbox'[i].from # c /\ inbox'[i].from \in Senders(inbox)
    BY <1>2, <1>4
  <2>2. inbox'[i].from = "tx" => ~tx_ready
    BY <1>1, <2>1 DEF Placed
  <2> QED BY <1>5, <2>1, <2>2 DEF Genuine, a
<1>7. tx_ready' => tx' = "sending" /\ "tx" \notin Senders(inbox')
  BY <1>1, <1>2 DEF Placed
<1>8. Reader' \subseteq Clients \ Senders(inbox') /\ \A d \in Reader' : call'[d] = Read
  BY <1>1, <1>2, <1>3, <1>5 DEF Placed
<1>9. \A d \in forgotten' : call'[d] # Idle /\ d \notin Senders(inbox') \cup Reader'
  BY <1>1, <1>2, <1>3, <1>5 DEF Placed, Typed
<1>10. Open' /\ ~panicked' =>
          \A d \in Clients : call'[d] # Idle => d \in Senders(inbox') \cup Reader' \cup forgotten'
  BY <1>1, <1>2, <1>3, <1>5 DEF Placed, Open
<1> QED BY <1>2, <1>6, <1>7, <1>8, <1>9, <1>10 DEF Placed

\* The oldest byte goes to a client.
LEMMA ByteDelivered ==
    ASSUME NEW rb \in Seq(Byte), NEW rest \in Seq(Byte), rb # <<>>, unread = rb \o rest,
           NEW c, Delivers(c, Head(rb))
    PROVE  unread' = Tail(rb) \o rest /\ unread' \in Seq(Byte) /\ call' = [call EXCEPT ![c] = Idle]
<1>1. Head(unread) = Head(rb) /\ Tail(unread) = Tail(rb) \o rest
  BY Single
<1>2. unread' = Tail(rb) \o rest /\ call' = [call EXCEPT ![c] = Idle]
  BY <1>1 DEF Delivers, Replies
<1>3. Tail(rb) \in Seq(Byte)
  BY HeadFirst
<1> QED BY <1>2, <1>3, ConcatProperties

LEMMA HandleReadStep == ASSUME IoInv, HandleRead PROVE IoInv'
<1> DEFINE c == Head(inbox).from
<1>1. /\ ~panicked /\ server = "serving" /\ inbox # <<>> /\ inbox' = Tail(inbox)
      /\ Head(inbox).type = "CLIENT_READ"
      /\ UNCHANGED <<com_num, panicked, server, rb_out, tx_ready, notifier_exit_count, rx, rx_data,
                     tx, tx_data, thr, unsent, credit, cts>>
  BY DEF HandleRead, Receives, Runs, txVars
<1>2. Typed /\ Placed /\ Output /\ Input /\ Pacing
  BY DEF IoInv
<1>3. c \in Clients \ (Reader \cup forgotten) /\ call[c] = Read /\ call[c] # Idle
  BY <1>1, WhoseMessage
<1>4. /\ inbox' \in Seq(Messages) /\ SendersOnce(inbox') /\ c \in Senders(inbox)
      /\ Senders(inbox') = Senders(inbox) \ {c}
      /\ \A i \in DOMAIN inbox' : Genuine(inbox'[i]) /\ inbox'[i].from \in Senders(inbox')
  BY <1>1, MessageTaken
<1>5. Pacing' /\ Output'
  BY <1>1, <1>2, PacingKept, OutputKept
<1>6. CASE rb_in = <<>>
  <2>1. /\ client_ready' = TRUE /\ client_tid' = c /\ UNCHANGED <<rb_in, unread, call>>
        /\ forgotten' = IF client_ready THEN forgotten \cup {client_tid} ELSE forgotten
    BY <1>6 DEF HandleRead, WaitsForByte
  <2> HIDE DEF c
  <2>2. Reader' = {c} /\ forgotten' = forgotten \cup Reader
    BY <2>1 DEF Reader
  <2>3. forgotten' \subseteq Clients
    BY <1>2, <2>2 DEF Typed, Placed
  <2>4. Typed'
    BY <1>1, <1>2, <1>3, <1>4, <2>1, <2>3 DEF Typed
  <2>5. ASSUME NEW i \in DOMAIN inbox' PROVE Genuine(inbox[i])'
    BY <1>1, <1>4, <2>1 DEF Genuine
  <2>6. Read # Idle
    BY DEF Read, Idle
  <2>7. Placed'
    BY <1>1, <1>2, <1>3, <1>4, <2>1, <2>2, <2>5, <2>6 DEF Placed, Open, Typed
  <2>8. Input'
    BY <1>1, <1>2, <1>6, <2>1 DEF Input, InputInOrder
  <2> QED BY <1>5, <2>4, <2>7, <2>8 DEF IoInv
<1>7. CASE rb_in # <<>>
  <2>1. Delivers(c, Head(rb_in)) /\ rb_in' = Tail(rb_in) /\ UNCHANGED <<client_ready, client_tid, forgotten>>
    BY <1>7 DEF HandleRead, TakesByte
  <2>2. rb_in \in Seq(Byte) /\ rx_data \in Seq(Byte) /\ unread = rb_in \o rx_data /\ ~client_ready
    BY <1>2, <1>7 DEF Input, InputInOrder
  <2> HIDE DEF c
  <2>3. unread' = Tail(rb_in) \o rx_data /\ unread' \in Seq(Byte) /\ call' = [call EXCEPT ![c] = Idle]
    BY <1>7, <2>1, <2>2, ByteDelivered
  <2>4. Placed'
    BY <1>1, <1>3, <2>1, <2>3, AnsweredPlaces DEF c
  <2>5. Typed'
    <3>1. call' \in [Clients -> Requests \cup {Idle}]
      BY <1>2, <2>3 DEF Typed
    <3> QED BY <1>1, <1>2, <1>4, <2>1, <3>1 DEF Typed
  <2>6. Tail(rb_in) \in Seq(Byte) /\ Len(Tail(rb_in)) <= BufferSize - 1
    BY <1>2, <1>7, <2>2, HeadFirst, IoAssumption DEF Input
  <2>7. Input'
    BY <1>1, <1>2, <2>1, <2>2, <2>3, <2>6 DEF Input, InputInOrder
  <2> QED BY <1>5, <2>4, <2>5, <2>7 DEF IoInv
<1> QED BY <1>6, <1>7

\* Bytes can be regrouped.
LEMMA Regrouped == \A s, t, u \in Seq(Byte) : (s \o t) \o u = s \o (t \o u)
<1> TAKE s, t, u \in Seq(Byte)
<1> QED BY ConcatAssociative

\* A message is taken, and what it asks for cannot be done.
LEMMA TakePanics ==
    ASSUME IoInv, inbox # <<>>, inbox' = Tail(inbox), Panics, UNCHANGED com_num
    PROVE  IoInv'
<1>1. /\ panicked' = TRUE
      /\ UNCHANGED <<com_num, server, rb_in, rb_out, tx_ready, client_ready, client_tid, notifier_exit_count,
                     rx, rx_data, unread, tx, tx_data, thr, unsent, credit, cts, call, forgotten>>
  BY DEF Panics, serverVars, rxVars, txVars, clientVars
<1>2. Typed /\ Placed /\ Output /\ Input /\ Pacing
  BY DEF IoInv
<1>3. inbox' \in Seq(Messages)
  BY MessageTaken
<1>4. Typed'
  BY <1>1, <1>2, <1>3 DEF Typed
<1>5. tx_ready' => tx' = "sending" /\ tx_ready
  BY <1>1, <1>2 DEF Placed
<1>6. Placed'
  BY <1>1, <1>5, TakenPlaces
<1> QED BY <1>1, <1>2, <1>4, <1>6, OutputKept, InputKept, PacingKept DEF IoInv

\* The transmit notifier has no byte left, and gets the first of those in rb.
LEMMA ChunkGiven ==
    ASSUME Output, tx = "sending", NEW rb \in Seq(Byte), Len(rb) <= BufferSize - 1,
           GivesChunk(rb), unsent' = thr \o rb, UNCHANGED thr, tx_ready' = FALSE
    PROVE  Output'
<1>1. tx' = "running" /\ tx_data' = First(rb, MaxDataLen) /\ rb_out' = Rest(rb, MaxDataLen)
  BY DEF GivesChunk
<1>2. BufferSize - 1 \in Nat /\ MaxDataLen \in Nat /\ Len(rb) \in Nat
  BY IoAssumption, LenProperties
<1>3. /\ tx_data' \in Seq(Byte) /\ rb_out' \in Seq(Byte) /\ tx_data' \o rb_out' = rb
      /\ Len(tx_data') <= MaxDataLen /\ Len(rb_out') <= Len(rb)
  BY <1>1, <1>2, FirstRest
<1>4. thr \in Seq(Byte) /\ Len(thr) <= 1
  BY DEF Output
<1>5. thr \o rb \in Seq(Byte)
  BY <1>4, ConcatProperties
<1>6. (thr \o tx_data') \o rb_out' = thr \o rb
  <2>1. (thr \o tx_data') \o rb_out' = thr \o (tx_data' \o rb_out')
    BY <1>3, <1>4, Regrouped
  <2> QED BY <1>3, <2>1
<1>7. Len(rb_out') <= BufferSize - 1
  BY <1>2, <1>3, LenProperties
<1> QED BY <1>1, <1>3, <1>4, <1>5, <1>6, <1>7 DEF Output, OutputInOrder

LEMMA HandleWriteStep == ASSUME IoInv, HandleWrite PROVE IoInv'
<1> DEFINE c == Head(inbox).from
           data == Head(inbox).data
           rb == rb_out \o data
<1>1. /\ ~panicked /\ server = "serving" /\ inbox # <<>> /\ inbox' = Tail(inbox)
      /\ Head(inbox).type = "CLIENT_WRITE" /\ UNCHANGED com_num
  BY DEF HandleWrite, Receives
<1>2. CASE Len(data) > Room(rb_out)
  <2>1. Panics
    BY <1>2 DEF HandleWrite
  <2> QED BY <1>1, <2>1, TakePanics
<1>3. CASE ~(Len(data) > Room(rb_out))
  <2>1. /\ unsent' = unsent \o data /\ PutsAndWakes(rb) /\ call' = [call EXCEPT ![c] = Idle]
        /\ UNCHANGED <<server, rb_in, client_ready, client_tid, notifier_exit_count, rx, rx_data, unread,
                       thr, credit, cts, forgotten, panicked>>
    BY <1>3 DEF HandleWrite, Replies, rxVars
  <2>2. c \in Clients \ (Reader \cup forgotten) /\ data \in Seq(Byte)
    BY <1>1, WhoseMessage
  <2>3. inbox' \in Seq(Messages)
    BY <1>1, MessageTaken
  <2>4. Typed /\ Placed /\ Output /\ Input /\ Pacing
    BY DEF IoInv
  <2>a. /\ call' \in [Clients -> Requests \cup {Idle}]
        /\ UNCHANGED <<server, client_ready, client_tid, notifier_exit_count, rx, cts, forgotten, panicked>>
    BY <2>1, <2>4 DEF Typed
  <2>5. /\ rb_out \in Seq(Byte) /\ tx_data \in Seq(Byte) /\ thr \in Seq(Byte) /\ unsent \in Seq(Byte)
        /\ unsent = (thr \o tx_data) \o rb_out /\ Len(rb_out) \in Nat /\ Len(data) \in Nat
        /\ tx_ready => rb_out = <<>>
    BY <2>2, <2>4, LenProperties DEF Output, OutputInOrder
  <2>6. rb \in Seq(Byte) /\ Len(rb) = Len(rb_out) + Len(data)
    BY <2>2, <2>5, ConcatProperties
  <2>7. Len(rb) <= BufferSize - 1
    BY <1>3, <2>5, <2>6, IoAssumption DEF Room
  <2>8. unsent' = (thr \o tx_data) \o rb /\ unsent' \in Seq(Byte) /\ thr \o tx_data \in Seq(Byte)
    <3>1. thr \o tx_data \in Seq(Byte)
      BY <2>5, ConcatProperties
    <3> DEFINE x == thr \o tx_data
    <3> HIDE DEF x, data
    <3>2. (x \o rb_out) \o data = x \o (rb_out \o data) /\ x \o (rb_out \o data) \in Seq(Byte)
      <4>1. x \in Seq(Byte)
        BY <3>1 DEF x
      <4>2. (x \o rb_out) \o data = x \o (rb_out \o data)
        BY <2>2, <2>5, <4>1, Regrouped
      <4> QED BY <2>6, <4>1, <4>2, ConcatProperties
    <3> QED BY <2>1, <2>5, <3>1, <3>2 DEF x
  <2> HIDE DEF c, data, rb
  <2>9. CASE tx_ready
    <3>1. GivesChunk(rb) /\ tx_ready' = FALSE /\ tx' = "running"
      BY <2>1, <2>9 DEF PutsAndWakes, GivesChunk
    <3>2. tx = "sending" /\ tx_data = <<>>
      BY <2>4, <2>9 DEF Placed, Output
    <3>3. unsent' = thr \o rb
      BY <2>5, <2>8, <3>2, ConcatEmptySeq
    <3>4. Output'
      BY <2>1, <2>4, <2>6, <2>7, <3>1, <3>2, <3>3, ChunkGiven
    <3>5. Typed'
      BY <1>1, <2>3, <2>4, <2>a, <3>1 DEF Typed
    <3>6. Placed'
      BY <1>1, <2>1, <2>2, <2>9, <3>1, AnsweredPlaces DEF c
    <3>7. Input' /\ Pacing'
      BY <1>1, <2>1, <2>4, <3>1, <3>2, InputKept, PacingKept
    <3> QED BY <3>4, <3>5, <3>6, <3>7 DEF IoInv
  <2>10. CASE ~tx_ready
    <3>1. rb_out' = rb /\ UNCHANGED <<tx, tx_data, tx_ready>>
      BY <2>1, <2>10 DEF PutsAndWakes
    <3>2. Output'
      BY <2>1, <2>4, <2>6, <2>7, <2>8, <2>10, <3>1 DEF Output, OutputInOrder
    <3>3. Typed'
      BY <1>1, <2>3, <2>4, <2>a, <3>1 DEF Typed
    <3>4. Placed'
      BY <1>1, <2>1, <2>2, <2>10, <3>1, AnsweredPlaces DEF c
    <3>5. Input' /\ Pacing'
      BY <1>1, <2>1, <2>4, <3>1, InputKept, PacingKept
    <3> QED BY <3>2, <3>3, <3>4, <3>5 DEF IoInv
  <2> QED BY <2>9, <2>10
<1> QED BY <1>2, <1>3

LEMMA HandleRxStep == ASSUME IoInv, HandleRx PROVE IoInv'
<1> DEFINE data == Head(inbox).data
           rb == rb_in \o data
<1>1. /\ ~panicked /\ server = "serving" /\ inbox # <<>> /\ inbox' = Tail(inbox)
      /\ Head(inbox).type = "NOTIF_RX" /\ UNCHANGED com_num
  BY DEF HandleRx, Receives
<1>2. CASE Room(rb_in) = 0
  <2>1. Panics
    BY <1>2 DEF HandleRx
  <2> QED BY <1>1, <2>1, TakePanics
<1>3. CASE Room(rb_in) # 0
  <2>1. /\ PutsAndAnswers(rb) /\ rx' = "running" /\ rx_data' = <<>>
        /\ UNCHANGED <<server, rb_out, tx_ready, client_tid, notifier_exit_count, tx, tx_data, thr, unsent,
                       credit, cts, forgotten, panicked>>
    BY <1>3 DEF HandleRx, RxReplied, txVars
  <2>2. Head(inbox).from = "rx" /\ rx = "sending" /\ data = rx_data
    BY <1>1, WhoseMessage
  <2>3. inbox' \in Seq(Messages) /\ "rx" \notin Clients
    BY <1>1, MessageTaken, IoAssumption
  <2>4. Typed /\ Placed /\ Output /\ Input /\ Pacing
    BY DEF IoInv
  <2>5. /\ rb_in \in Seq(Byte) /\ rx_data \in Seq(Byte) /\ rx_data # <<>> /\ unread = rb_in \o rx_data
        /\ Len(rb_in) \in Nat /\ Len(rx_data) \in Nat /\ Len(rx_data) <= 1 /\ unread \in Seq(Byte)
        /\ Len(rb_in) <= BufferSize - 1 /\ BufferSize \in Nat
    BY <2>2, <2>4, LenProperties, IoAssumption DEF Input, InputInOrder
  <2>6. rb = unread /\ Len(unread) = Len(rb_in) + Len(rx_data)
    BY <2>2, <2>5, ConcatProperties
  <2>7. Len(rb) <= BufferSize - 1
    BY <1>3, <2>5, <2>6 DEF Room
  <2>8. <<>> \in Seq(Byte) /\ Len(<<>>) = 0
    BY EmptySeq
  <2> HIDE DEF data, rb
  <2>9. Output' /\ Pacing'
    BY <1>1, <2>1, <2>2, <2>4, OutputKept, PacingKept
  <2>10. CASE client_ready
    <3>1. Delivers(client_tid, Head(rb)) /\ rb_in' = Tail(rb) /\ client_ready' = FALSE
      BY <2>1, <2>10 DEF PutsAndAnswers
    <3>2. rb_in = <<>> /\ Reader = {client_tid} /\ client_tid \in Clients \ forgotten
      BY <2>4, <2>10 DEF Input, Reader, Placed
    <3>3. rb = rx_data /\ rb \in Seq(Byte) /\ rb # <<>> /\ unread = rb \o <<>>
      BY <2>5, <2>6, <3>2, ConcatEmptySeq
    <3>4. unread' = Tail(rb) \o <<>> /\ call' = [call EXCEPT ![client_tid] = Idle]
      BY <2>8, <3>1, <3>3, ByteDelivered
    <3>5. Tail(rb) = <<>>
      BY <2>5, <2>8, <3>3, Single
    <3>6. unread' = <<>> /\ rb_in' = <<>>
      BY <2>8, <3>1, <3>4, <3>5, ConcatEmptySeq
    <3>7. Input'
      <4>1. <<>> \o <<>> = <<>>
        BY <2>8, ConcatEmptySeq
      <4>2. rb_in' \in Seq(Byte) /\ Len(rb_in') <= BufferSize - 1
        BY <2>5, <2>8, <3>6
      <4>3. rx_data' \in Seq(Byte) /\ Len(rx_data') <= 1 /\ unread' \in Seq(Byte)
        BY <2>1, <2>8, <3>6
      <4>4. (rb_in \o rx_data)' = unread'
        BY <2>1, <3>6, <4>1
      <4> QED BY <2>1, <3>1, <4>2, <4>3, <4>4 DEF Input, InputInOrder
    <3>8. Typed'
      <4>1. call' \in [Clients -> Requests \cup {Idle}]
        BY <2>4, <3>4 DEF Typed
      <4> QED BY <1>1, <2>1, <2>3, <2>4, <3>1, <4>1 DEF Typed
    <3>9. tx_ready' => tx_ready /\ tx' = tx
      BY <2>1
    <3>10. Placed'
      BY <1>1, <2>1, <2>2, <2>3, <3>1, <3>2, <3>4, <3>9, AnsweredPlaces
    <3> QED BY <2>9, <3>7, <3>8, <3>10 DEF IoInv
  <2>11. CASE ~client_ready
    <3>1. rb_in' = rb /\ UNCHANGED <<call, unread, client_ready>>
      BY <2>1, <2>11 DEF PutsAndAnswers
    <3>2. rb \o <<>> = unread
      BY <2>5, <2>6, ConcatEmptySeq
    <3>3. Input'
      BY <2>1, <2>5, <2>6, <2>7, <2>8, <2>11, <3>1, <3>2 DEF Input, InputInOrder
    <3>4. Typed'
      BY <1>1, <2>1, <2>3, <2>4, <3>1 DEF Typed
    <3>5. tx_ready' => tx' = "sending" /\ tx_ready
      BY <2>1, <2>4 DEF Placed
    <3>6. Placed'
      BY <1>1, <2>1, <2>2, <2>3, <3>1, <3>5, TakenPlaces DEF Open
    <3> QED BY <2>9, <3>3, <3>4, <3>6 DEF IoInv
  <2> QED BY <2>10, <2>11
<1> QED BY <1>2, <1>3

LEMMA HandleTxStep == ASSUME IoInv, HandleTx PROVE IoInv'
<1>1. /\ ~panicked /\ server = "serving" /\ inbox # <<>> /\ inbox' = Tail(inbox)
      /\ Head(inbox).type = "NOTIF_TX"
      /\ UNCHANGED <<com_num, panicked, server, rb_in, client_ready, client_tid, notifier_exit_count,
                     rx, rx_data, unread, thr, unsent, credit, cts, call, forgotten>>
  BY DEF HandleTx, Receives, Runs, rxVars, clientVars
<1>2. Head(inbox).from = "tx" /\ tx = "sending" /\ ~tx_ready
  BY <1>1, WhoseMessage
<1>3. inbox' \in Seq(Messages) /\ "tx" \notin Clients
  BY <1>1, MessageTaken, IoAssumption
<1>4. Typed /\ Placed /\ Output /\ Input /\ Pacing
  BY DEF IoInv
<1>5. tx_data = <<>> /\ thr \in Seq(Byte) /\ rb_out \in Seq(Byte) /\ Len(rb_out) <= BufferSize - 1
      /\ unsent = (thr \o tx_data) \o rb_out
  BY <1>2, <1>4 DEF Output, OutputInOrder
<1>6. unsent' = thr \o rb_out
  BY <1>1, <1>5, ConcatEmptySeq
<1>7. CASE rb_out # <<>>
  <2>1. GivesChunk(rb_out) /\ tx_ready' = FALSE /\ tx' = "running"
    BY <1>2, <1>4, <1>7 DEF HandleTx, GivesChunk, Typed
  <2>2. Output'
    BY <1>1, <1>2, <1>4, <1>5, <1>6, <2>1, ChunkGiven
  <2>3. Typed'
    BY <1>1, <1>3, <1>4, <2>1 DEF Typed
  <2>4. Placed'
    BY <1>1, <1>2, <1>3, <2>1, TakenPlaces DEF Open
  <2>5. Input' /\ Pacing'
    BY <1>1, <1>2, <1>4, <2>1, InputKept, PacingKept
  <2> QED BY <2>2, <2>3, <2>4, <2>5 DEF IoInv
<1>8. CASE rb_out = <<>>
  <2>1. tx_ready' = TRUE /\ UNCHANGED <<tx, tx_data, rb_out>>
    BY <1>8 DEF HandleTx
  <2>2. Output'
    BY <1>1, <1>4, <1>8, <2>1 DEF Output, OutputInOrder
  <2>3. Typed'
    BY <1>1, <1>3, <1>4, <2>1 DEF Typed
  <2>4. Placed'
    BY <1>1, <1>2, <1>3, <2>1, TakenPlaces DEF Open
  <2>5. Input' /\ Pacing'
    BY <1>1, <1>2, <1>4, <2>1, InputKept, PacingKept
  <2> QED BY <2>2, <2>3, <2>4, <2>5 DEF IoInv
<1> QED BY <1>7, <1>8

LEMMA HandleExitStep == ASSUME IoInv, HandleExit PROVE IoInv'
<1>1. /\ inbox # <<>> /\ inbox' = Tail(inbox) /\ server = "serving" /\ server' = "draining"
      /\ UNCHANGED <<com_num, panicked, rb_in, rb_out, tx_ready, client_ready, client_tid, notifier_exit_count,
                     rx, rx_data, unread, tx, tx_data, thr, unsent, credit, cts, call, forgotten>>
  BY DEF HandleExit, Receives, Runs, rxVars, txVars, clientVars
<1>2. inbox' \in Seq(Messages)
  BY <1>1, MessageTaken
<1>3. Typed /\ Placed /\ Output /\ Input /\ Pacing
  BY DEF IoInv
<1>4. Typed'
  BY <1>1, <1>2, <1>3 DEF Typed
<1>5. tx_ready' => tx' = "sending" /\ tx_ready
  BY <1>1, <1>3 DEF Placed
<1>6. ~Open'
  BY <1>1 DEF Open
<1>7. Placed'
  BY <1>1, <1>5, <1>6, TakenPlaces
<1> QED BY <1>1, <1>3, <1>4, <1>7, OutputKept, InputKept, PacingKept DEF IoInv

LEMMA DrainStep == ASSUME IoInv, Drain PROVE IoInv'
<1> DEFINE type == Head(inbox).type
<1>1. /\ inbox # <<>> /\ inbox' = Tail(inbox) /\ server = "draining"
      /\ TellsToExit(type)
      /\ notifier_exit_count' = IF type \in {"NOTIF_RX", "NOTIF_TX"} THEN notifier_exit_count + 1 ELSE notifier_exit_count
      /\ server' = IF notifier_exit_count' = 2 THEN "exited" ELSE "draining"
      /\ UNCHANGED <<com_num, panicked, rb_in, rb_out, tx_ready, client_ready, client_tid,
                     rx_data, unread, tx_data, thr, unsent, credit, cts, call, forgotten>>
  BY DEF Drain, Runs, clientVars
<1>2. /\ type = "NOTIF_RX" => Head(inbox).from = "rx" /\ rx = "sending"
      /\ type = "NOTIF_TX" => Head(inbox).from = "tx" /\ tx = "sending" /\ ~tx_ready
  BY <1>1, WhoseMessage
<1>3. inbox' \in Seq(Messages)
  BY <1>1, MessageTaken
<1>4. Typed /\ Placed /\ Output /\ Input /\ Pacing
  BY DEF IoInv
<1> HIDE DEF type
<1>5. /\ rx' = IF type = "NOTIF_RX" THEN "leaving" ELSE rx
      /\ tx' = IF type = "NOTIF_TX" THEN "leaving" ELSE tx
  BY <1>1 DEF TellsToExit
<1>6. Typed'
  <2>1. notifier_exit_count' \in 0 .. 2 /\ (server' # "exited" => notifier_exit_count' < 2)
    BY <1>1, <1>4 DEF Typed
  <2>2. server' \in {"draining", "exited"}
    BY <1>1
  <2> QED BY <1>1, <1>3, <1>4, <1>5, <2>1, <2>2 DEF Typed
<1>7. ~Open'
  BY <1>1 DEF Open
<1>8. tx_ready' => tx' = "sending" /\ tx_ready
  BY <1>1, <1>2, <1>4, <1>5 DEF Placed
<1>9. Placed'
  BY <1>1, <1>2, <1>5, <1>7, <1>8, TakenPlaces
<1>10. Output'
  BY <1>1, <1>2, <1>4, <1>5 DEF Output, OutputInOrder
<1>11. Input'
  BY <1>1, <1>2, <1>4, <1>5 DEF Input, InputInOrder
<1>12. Pacing'
  BY <1>1, <1>2, <1>4, <1>5, PacingKept
<1> QED BY <1>6, <1>9, <1>10, <1>11, <1>12 DEF IoInv

-----------------------------------------------------------------------------
(* The theorems. *)

LEMMA IoStep == IoInv /\ [Next]_vars => IoInv'
<1> SUFFICES ASSUME IoInv, [Next]_vars PROVE IoInv'
  OBVIOUS
<1>1. CASE UNCHANGED vars
  <2>1. /\ UNCHANGED <<com_num, inbox, server, rb_in, rb_out, tx_ready, client_ready, client_tid,
                       notifier_exit_count, rx, rx_data, unread, tx, tx_data, thr, unsent, credit, cts, call,
                       forgotten, panicked>>
    BY <1>1 DEF vars, serverVars, rxVars, txVars, clientVars
  <2>2. Typed /\ Placed /\ Output /\ Input /\ Pacing
    BY DEF IoInv
  <2>3. Typed' /\ Placed'
    BY <2>1, <2>2, PlacesKept DEF Typed, Open
  <2> QED BY <2>1, <2>2, <2>3, OutputKept, InputKept, PacingKept DEF IoInv
<1>2. CASE Start \/ CtsMeets
  BY <1>2, ServerStartsStep, TellsTxStep, TellsRxStep, CtsMeetsStep DEF Start
<1>3. CASE RxAwaits \/ RxSends \/ RxExits
  BY <1>3, RxStep, RxSendsStep
<1>4. ASSUME NEW b \in Bytes, ByteArrives(b) \/ ByteLost(b) PROVE IoInv'
  BY <1>1, <1>4, RxStep DEF ByteLost
<1>5. CASE TxAwaits \/ TxInterrupt \/ TxPermitted \/ TxWrites \/ TxSends \/ TxExits \/ LineSends
  BY <1>5, TxStep, TxWritesStep, TxSendsStep, LineSendsStep
<1>6. CASE CtsAwaits \/ CtsGrants \/ \E clear \in BOOLEAN : ModemChanges(clear)
  BY <1>6, CtsStep
<1>7. ASSUME NEW c \in Clients, NEW r \in Requests, Calls(c, r) \/ CallsNobody(c, r) PROVE IoInv'
  BY <1>7, CallsStep, CallsNobodyStep
<1>8. CASE Handle
  BY <1>8, HandleReadStep, HandleWriteStep, HandleRxStep, HandleTxStep, HandleExitStep, DrainStep DEF Handle
<1>9. CASE Stopped
  BY <1>1, <1>9 DEF Stopped
<1> QED BY <1>1, <1>2, <1>3, <1>4, <1>5, <1>6, <1>7, <1>8, <1>9 DEF Next

LEMMA IoInvariant == Spec => []IoInv
  BY IoInit, IoStep, PTL DEF Spec

\* Every variable keeps its type: the two buffers never hold more than their BufferSize - 1 bytes,
\* whatever the clients write and the line brings, and no message is longer than the
\* data field of io_server_msg.
THEOREM IoTypes == Spec => []TypeOK
<1>1. ASSUME IoInv, NEW i \in DOMAIN inbox PROVE Len(inbox[i].data) <= MaxDataLen
  <2> DEFINE m == inbox[i]
  <2>1. Genuine(m) /\ m \in Messages
    BY <1>1 DEF IoInv, Placed, Typed
  <2> HIDE DEF m
  <2>2. m.from \in Clients \cup {"rx", "tx"} /\ m.type \in Types
    BY <2>1 DEF Messages
  <2>3. CASE m.from \in Clients
    <3>1. call[m.from] = [type |-> m.type, data |-> m.data] /\ call[m.from] \in Requests \cup {Idle}
      BY <1>1, <2>1, <2>3 DEF Genuine, IoInv, Typed
    <3>2. call[m.from].data = m.data /\ call[m.from].type = m.type
      BY <3>1
    <3>3. call[m.from] \in Requests
      BY <2>2, <3>1, <3>2 DEF Idle, Types
    <3> QED BY <3>2, <3>3, RequestFacts DEF m
  <2>4. CASE m.from = "rx"
    <3>1. m.data = rx_data /\ Len(rx_data) <= 1 /\ rx_data \in Seq(Byte)
      BY <1>1, <2>1, <2>4 DEF Genuine, IoInv, Input
    <3> QED BY <3>1, IoAssumption, LenProperties DEF m
  <2>5. CASE m.from = "tx"
    <3>1. m.data = <<>> /\ Len(<<>>) = 0
      BY <2>1, <2>5 DEF Genuine
    <3> QED BY <3>1, IoAssumption DEF m
  <2> QED BY <2>2, <2>3, <2>4, <2>5
<1>2. ASSUME IoInv PROVE TypeOK
  <2>1. Typed /\ Output /\ Input /\ credit \in 0 .. MaxCredit
    BY <1>2 DEF IoInv, Pacing
  <2> QED BY <1>1, <1>2, <2>1 DEF TypeOK, Typed, Output, Input, Byte
<1> QED BY <1>2, IoInvariant, PTL

\* From Putstr to the line no byte is lost, repeated or overtaken, however the server and the
\* transmit notifier cut the buffer into messages, and the notifier never writes to a
\* holding register that is not empty.
THEOREM IoOutput == Spec => []OutputInOrder
<1>1. IoInv => OutputInOrder
  BY DEF IoInv, Output
<1> QED BY <1>1, IoInvariant, PTL

\* From the interrupt handler to Getc no byte that the notifier got is lost, repeated or
\* overtaken, whether a reader waits for it or it waits for a reader.
THEOREM IoInput == Spec => []InputInOrder
<1>1. IoInv => InputInOrder
  BY DEF IoInv, Input
<1> QED BY <1>1, IoInvariant, PTL

\* tx_ready and client_ready tell the truth: the task the server will Reply to is blocked
\* in Send to it, for that answer, and has no message in the queue.
THEOREM IoReplies == Spec => []RepliesAreOwed
<1>1. ASSUME IoInv PROVE RepliesAreOwed
  <2>1. Placed /\ Output /\ Input
    BY <1>1 DEF IoInv
  <2>2. tx_ready => tx = "sending" /\ tx_data = <<>> /\ ~\E i \in DOMAIN inbox : inbox[i].from = "tx"
    BY <2>1 DEF Placed, Output, Senders
  <2>3. client_ready => client_tid \in Clients /\ call[client_tid] = Read
                        /\ ~\E i \in DOMAIN inbox : inbox[i].from = client_tid
    BY <2>1 DEF Placed, Reader, Senders
  <2>4. (tx_ready => rb_out = <<>>) /\ (client_ready => rb_in = <<>>)
    BY <2>1 DEF Output, Input
  <2> QED BY <2>2, <2>3, <2>4 DEF RepliesAreOwed
<1> QED BY <1>1, IoInvariant, PTL

\* Until the server shuts down every caller is in the queue or in the reader's place, and in one
\* of them only; the one exception is a reader whose place another took.
THEOREM IoOnePlace == Spec => []OnePlacePerCaller
<1>1. ASSUME IoInv, Open, ~panicked, NEW c \in Clients
      PROVE  Places(c) = IF call[c] = Idle \/ c \in forgotten THEN 0 ELSE 1
  <2> DEFINE A == {i \in DOMAIN inbox : inbox[i].from = c}
  <2>1. Typed /\ Placed
    BY <1>1 DEF IoInv
  <2>2. Cardinality(A) = IF c \in Senders(inbox) THEN 1 ELSE 0
    <3>1. \A i, j \in DOMAIN inbox : inbox[i].from = c /\ inbox[j].from = c => i = j
      BY <2>1 DEF Placed, SendersOnce
    <3>2. c \in Senders(inbox) <=> \E i \in DOMAIN inbox : inbox[i].from = c
      BY DEF Senders
    <3>3. CASE c \in Senders(inbox)
      <4>1. PICK k \in DOMAIN inbox : inbox[k].from = c
        BY <3>2, <3>3
      <4>2. A = {k}
        BY <3>1, <4>1
      <4> QED BY <3>3, <4>2, FS_Singleton
    <3>4. CASE c \notin Senders(inbox)
      <4>1. A = {}
        BY <3>2, <3>4
      <4> QED BY <3>4, <4>1, FS_EmptySet
    <3> QED BY <3>3, <3>4
  <2>3. c \in Senders(inbox) \cup Reader => call[c] # Idle /\ c \notin forgotten
    <3>1. ASSUME NEW i \in DOMAIN inbox, inbox[i].from = c PROVE call[c] # Idle
      <4>1. Genuine(inbox[i]) /\ inbox[i] \in Messages
        BY <2>1 DEF Placed, Typed
      <4>2. call[c] = [type |-> inbox[i].type, data |-> inbox[i].data]
        BY <1>1, <3>1, <4>1 DEF Genuine
      <4>3. call[c].type = inbox[i].type /\ inbox[i].type # "NONE"
        BY <4>1, <4>2 DEF Messages, Types
      <4> QED BY <4>3 DEF Idle
    <3>2. c \in Reader => call[c] # Idle
      BY <2>1 DEF Placed, Read, Idle
    <3>3. c \in forgotten => c \notin Senders(inbox) \cup Reader
      BY <2>1 DEF Placed
    <3> QED BY <3>1, <3>2, <3>3 DEF Senders
  <2>4. /\ ~(c \in Senders(inbox) /\ c \in Reader)
        /\ call[c] # Idle /\ c \notin forgotten => c \in Senders(inbox) \cup Reader
    BY <1>1, <2>1 DEF Placed
  <2>5. client_ready /\ client_tid = c <=> c \in Reader
    BY DEF Reader
  <2>6. Places(c) = Cardinality(A) + IF c \in Reader THEN 1 ELSE 0
    BY <2>5 DEF Places
  <2> HIDE DEF A
  <2> QED BY <2>2, <2>3, <2>4, <2>6
<1>2. IoInv => OnePlacePerCaller
  BY <1>1 DEF OnePlacePerCaller
<1> QED BY <1>2, IoInvariant, PTL

\* On COM1 every byte the notifier writes is covered by a change of the modem status that no
\* other byte was written for, however far the clear-to-send notifier runs ahead.
THEOREM IoPaced == Spec => []Paced
<1>1. IoInv => Paced
  BY DEF IoInv, Typed, Pacing, Permits, Paced, MaxCredit
<1> QED BY <1>1, IoInvariant, PTL
=============================================================================
