----------------------------- MODULE NameProofs -----------------------------
(***************************************************************************)
(* The invariants of the name server, and that it implements module        *)
(* NameRegistry, for any clients, programs, priorities and names and for   *)
(* any length of names and size of the map.                                *)
(***************************************************************************)
EXTENDS NameServer, SequenceTheorems, WellFoundedInduction, TLAPS

Entries == [name : Keys, tid : Clients]

-----------------------------------------------------------------------------
(* Names and the map. *)

\* A name that has been cut is not cut again.
LEMMA CutOnce ==
    ASSUME NEW k \in Keys
    PROVE  strncpy(k) = k
<1>1. PICK n \in Names : k = strncpy(n)
  BY DEF Keys
<1> DEFINE m == IF Len(n) <= MaxNameLen THEN Len(n) ELSE MaxNameLen
<1>2. n \in Seq(Nat) /\ Len(n) \in Nat /\ MaxNameLen \in Nat
  BY NameAssumption, LenProperties
<1>3. m \in 0 .. Len(n) /\ m <= MaxNameLen /\ k = SubSeq(n, 1, m) /\ \A i \in 1 .. m : n[i] \in Nat
  BY <1>1, <1>2, ElementOfSeq DEF strncpy
<1> HIDE DEF m
<1>4. k \in Seq(Nat) /\ Len(k) = IF 1 <= m THEN m - 1 + 1 ELSE 0
  BY <1>2, <1>3, SubSeqProperties
<1>5. Len(k) = m /\ Len(k) <= MaxNameLen
  BY <1>2, <1>3, <1>4
<1>6. SubSeq(k, 1, Len(k)) = k
  BY <1>4, SubSeqFull
<1> QED BY <1>5, <1>6 DEF strncpy

\* Keys are compared as they are.
LEMMA KeysCompared ==
    ASSUME NEW j \in Keys, NEW k \in Keys
    PROVE  strncmp(j, k) <=> j = k
  BY CutOnce DEF strncmp

\* name_map_find in the map m.
Found(m, k) ==
    IF \E i \in DOMAIN m : strncmp(m[i].name, k)
    THEN m[CHOOSE i \in DOMAIN m :
             /\ i \in DOMAIN m
             /\ strncmp(m[i].name, k)
             /\ \A j \in DOMAIN m : j < i => ~strncmp(m[j].name, k)].tid
    ELSE NotFound

LEMMA FoundInMap == \A k : name_map_find(k) = Found(map, k)
  BY DEF name_map_find, IsFirst, Found

LEMMA FoundInNextMap == \A k : name_map_find(k)' = Found(map', k)
  BY DEF name_map_find, IsFirst, Found

\* A set of numbers has a smallest element.
LEMMA Least ==
    ASSUME NEW T \in SUBSET Nat, T # {}
    PROVE  \E m \in T : \A n \in T : m <= n
<1> DEFINE R == OpToRel(<, Nat)
<1>1. IsWellFoundedOn(R, Nat)
  BY NatLessThanWellFounded
<1>2. \A x, y \in Nat : <<x, y>> \in R <=> x < y
  BY DEF OpToRel
<1> HIDE DEF R
<1>3. PICK x \in T : \A y \in T : ~(<<y, x>> \in R)
  BY <1>1, WFMin
<1>4. \A y \in T : ~(y < x) /\ y \in Nat /\ x \in Nat
  BY <1>2, <1>3
<1> QED BY <1>3, <1>4

\* A name that is in the map is found, and what is found is the entry in front of all
\* others with this name.
LEMMA FoundFirst ==
    ASSUME NEW m \in Seq(Entries), NEW k \in Keys
    PROVE  /\ (\A i \in DOMAIN m : m[i].name # k) => Found(m, k) = NotFound
           /\ \A i \in DOMAIN m : m[i].name = k /\ (\A j \in DOMAIN m : j < i => m[j].name # k) =>
                 Found(m, k) = m[i].tid
           /\ (\E i \in DOMAIN m : m[i].name = k) =>
                 \E i \in DOMAIN m : m[i].name = k /\ \A j \in DOMAIN m : j < i => m[j].name # k
<1>1. DOMAIN m = 1 .. Len(m) /\ Len(m) \in Nat
  BY LenProperties
<1>2. \A i \in DOMAIN m : m[i] \in Entries
  BY <1>1, ElementOfSeq
<1>3. \A i \in DOMAIN m : strncmp(m[i].name, k) <=> m[i].name = k
  BY <1>2, KeysCompared DEF Entries
<1>4. ASSUME \A i \in DOMAIN m : m[i].name # k PROVE Found(m, k) = NotFound
  BY <1>3, <1>4 DEF Found
<1>5. ASSUME NEW i \in DOMAIN m, m[i].name = k, \A j \in DOMAIN m : j < i => m[j].name # k
      PROVE  Found(m, k) = m[i].tid
  <2> DEFINE IsFirstIn(h) == /\ h \in DOMAIN m
                             /\ strncmp(m[h].name, k)
                             /\ \A j \in DOMAIN m : j < h => ~strncmp(m[j].name, k)
  <2>1. IsFirstIn(i)
    BY <1>3, <1>5
  <2>2. \A h \in DOMAIN m : IsFirstIn(h) => h = i
    BY <1>1, <1>3, <2>1
  <2>3. (CHOOSE h \in DOMAIN m : IsFirstIn(h)) = i
    <3> HIDE DEF IsFirstIn
    <3> QED BY <2>1, <2>2
  <2> QED BY <2>1, <2>3 DEF Found
<1>6. ASSUME NEW h \in DOMAIN m, m[h].name = k
      PROVE  \E i \in DOMAIN m : m[i].name = k /\ \A j \in DOMAIN m : j < i => m[j].name # k
  <2> DEFINE T == {i \in DOMAIN m : m[i].name = k}
  <2>1. T \in SUBSET Nat /\ h \in T
    BY <1>1, <1>6
  <2>2. PICK i \in T : \A j \in T : i <= j
    <3> HIDE DEF T
    <3> QED BY <2>1, Least
  <2>3. \A j \in DOMAIN m : j < i => m[j].name # k
    BY <1>1, <2>2
  <2> QED BY <2>2, <2>3
<1> QED BY <1>4, <1>5, <1>6

\* A new entry hides the older ones with its name, and no others.
LEMMA FoundAfterInsert ==
    ASSUME NEW m \in Seq(Entries), NEW e \in Entries, NEW k \in Keys
    PROVE  Found(<<e>> \o m, k) = IF e.name = k THEN e.tid ELSE Found(m, k)
<1> DEFINE r == <<e>> \o m
<1>1. /\ r \in Seq(Entries) /\ Len(m) \in Nat /\ DOMAIN m = 1 .. Len(m) /\ DOMAIN r = 1 .. Len(m) + 1
      /\ r[1] = e /\ \A i \in 1 .. Len(m) : r[i + 1] = m[i]
  <2>1. <<e>> \in Seq(Entries) /\ Len(<<e>>) = 1 /\ <<e>>[1] = e
    OBVIOUS
  <2>2. /\ r \in Seq(Entries) /\ Len(r) = 1 + Len(m) /\ Len(m) \in Nat
        /\ \A i \in 1 .. 1 + Len(m) : r[i] = IF i <= 1 THEN <<e>>[i] ELSE m[i - 1]
    BY <2>1, ConcatProperties, LenProperties
  <2>3. DOMAIN m = 1 .. Len(m) /\ DOMAIN r = 1 .. Len(m) + 1
    <3> HIDE DEF r
    <3> QED BY <2>2, LenProperties
  <2> HIDE DEF r
  <2> QED BY <2>1, <2>2, <2>3
<1> HIDE DEF r
<1>2. CASE e.name = k
  <2>1. 1 \in DOMAIN r /\ r[1].name = k /\ \A j \in DOMAIN r : j < 1 => r[j].name # k
    BY <1>1, <1>2
  <2>2. Found(r, k) = r[1].tid
    BY <1>1, <2>1, FoundFirst
  <2> QED BY <1>1, <1>2, <2>2 DEF r
<1>3. CASE e.name # k /\ \A i \in DOMAIN m : m[i].name # k
  <2>1. \A i \in DOMAIN r : r[i].name # k
    <3> TAKE i \in DOMAIN r
    <3>1. CASE i = 1
      BY <1>1, <1>3, <3>1
    <3>2. CASE i # 1
      <4>1. i - 1 \in 1 .. Len(m) /\ (i - 1) + 1 = i
        BY <1>1, <3>2
      <4>2. r[i] = m[i - 1]
        BY <1>1, <4>1
      <4> QED BY <1>1, <1>3, <4>1, <4>2
    <3> QED BY <3>1, <3>2
  <2>2. Found(r, k) = NotFound /\ Found(m, k) = NotFound
    BY <1>1, <1>3, <2>1, FoundFirst
  <2> QED BY <1>3, <2>2 DEF r
<1>4. CASE e.name # k /\ \E i \in DOMAIN m : m[i].name = k
  <2>1. PICK i \in DOMAIN m : m[i].name = k /\ \A j \in DOMAIN m : j < i => m[j].name # k
    BY <1>4, FoundFirst
  <2>2. Found(m, k) = m[i].tid
    BY <2>1, FoundFirst
  <2>3. i + 1 \in DOMAIN r /\ r[i + 1] = m[i] /\ r[i + 1].name = k
    BY <1>1, <2>1
  <2>4. ASSUME NEW j \in DOMAIN r, j < i + 1 PROVE r[j].name # k
    <3>1. CASE j = 1
      BY <1>1, <1>4, <3>1
    <3>2. CASE j # 1
      <4>1. j - 1 \in DOMAIN m /\ j - 1 < i /\ (j - 1) + 1 = j
        BY <1>1, <2>4, <3>2
      <4>2. r[j] = m[j - 1]
        BY <1>1, <4>1
      <4> QED BY <2>1, <4>1, <4>2
    <3> QED BY <3>1, <3>2
  <2>5. Found(r, k) = r[i + 1].tid
    BY <1>1, <2>3, <2>4, FoundFirst
  <2> QED BY <1>4, <2>2, <2>3, <2>5 DEF r
<1> QED BY <1>2, <1>3, <1>4
-----------------------------------------------------------------------------
(* The inductive invariant. *)

\* A client in a call has this call first in its program.
InCall == \A c \in Clients : phase[c] # "ready" => todo[c] # <<>>

NameInv == TypeOK /\ OneMessagePerCaller /\ InCall

\* The message m is that of the call its sender is blocked in.
Genuine(m, ph, td) ==
    /\ ph[m.from] = "sent" /\ td[m.from] # <<>>
    /\ m.type = Head(td[m.from]).type /\ m.name = strncpy(Head(td[m.from]).name)

\* OneMessagePerCaller, of the queue q, the phases ph, the programs td and the server's state s.
OneMessage(q, ph, td, s) ==
    /\ \A i, j \in DOMAIN q : q[i].from = q[j].from => i = j
    /\ \A i \in DOMAIN q : Genuine(q[i], ph, td)
    /\ s # "stuck" => \A c \in Clients : ph[c] = "sent" => \E i \in DOMAIN q : q[i].from = c

LEMMA OneMessageHolds ==
    /\ OneMessagePerCaller <=> OneMessage(inbox, phase, todo, server)
    /\ OneMessagePerCaller' <=> OneMessage(inbox', phase', todo', server')
<1>1. OneMessagePerCaller <=> OneMessage(inbox, phase, todo, server)
  BY DEF OneMessagePerCaller, OneMessage, Genuine, Call
<1>2. OneMessagePerCaller' <=> OneMessage(inbox', phase', todo', server')
  BY DEF OneMessagePerCaller, OneMessage, Genuine, Call
<1> QED BY <1>1, <1>2

\* Every message is a client's.
LEMMA FromClients ==
    ASSUME NEW q \in Seq(Messages), NEW i \in DOMAIN q
    PROVE  q[i] \in Messages /\ q[i].from \in Clients /\ q[i].name \in Keys
<1>1. q[i] \in Messages
  BY LenProperties, ElementOfSeq
<1> QED BY <1>1 DEF Messages

\* The call a client is in.
LEMMA CurrentCall ==
    ASSUME NameInv, NEW c \in Clients, todo[c] # <<>>
    PROVE  /\ Call(c) \in Calls /\ Call(c).type \in {"REG", "WHO", "EXIT"}
           /\ strncpy(Call(c).name) \in Keys /\ Tail(todo[c]) \in Seq(Calls)
<1>1. todo[c] \in Seq(Calls)
  BY DEF NameInv, TypeOK
<1>2. Head(todo[c]) \in Calls /\ Tail(todo[c]) \in Seq(Calls)
  BY <1>1, HeadTailProperties
<1> QED BY <1>2 DEF Call, Calls, Keys

LEMMA NameInit == Init => NameInv
<1> SUFFICES ASSUME Init PROVE NameInv
  OBVIOUS
<1>1. inbox = <<>> /\ map = <<>> /\ DOMAIN <<>> = {} /\ Len(<<>>) = 0
  BY DEF Init
<1>2. <<>> \in Seq(Messages) /\ <<>> \in Seq([name : Keys, tid : Clients])
  BY EmptySeq
<1>3. todo \in [Clients -> Seq(Calls)] /\ MaxNames \in Nat
  BY NameAssumption DEF Init
<1>4. TypeOK
  BY <1>1, <1>2, <1>3 DEF Init, TypeOK
<1> QED BY <1>1, <1>4 DEF Init, NameInv, OneMessagePerCaller, InCall

\* Send: the client's message is the last in the queue.
LEMMA SendsStep ==
    ASSUME NameInv, NEW c \in Clients, todo[c] # <<>>, phase[c] # "sent", Sends(c)
    PROVE  NameInv'
<1> DEFINE m == [from |-> c, type |-> Call(c).type, name |-> strncpy(Call(c).name)]
<1>1. TypeOK /\ OneMessage(inbox, phase, todo, server) /\ InCall
  BY OneMessageHolds DEF NameInv
<1>2. inbox' = Append(inbox, m) /\ phase' = [phase EXCEPT ![c] = "sent"] /\ UNCHANGED <<server, map, todo, rep>>
  BY DEF Sends
<1>3. m \in Messages /\ m.from = c /\ m.type = Call(c).type /\ m.name = strncpy(Call(c).name)
  BY CurrentCall DEF Messages
<1> HIDE DEF m
<1>4. /\ inbox' \in Seq(Messages) /\ Len(inbox) \in Nat /\ DOMAIN inbox = 1 .. Len(inbox)
      /\ DOMAIN inbox' = 1 .. Len(inbox) + 1 /\ inbox'[Len(inbox) + 1] = m
      /\ \A i \in 1 .. Len(inbox) : inbox'[i] = inbox[i]
  <2>1. inbox \in Seq(Messages)
    BY <1>1 DEF TypeOK
  <2> QED BY <1>2, <1>3, <2>1, AppendProperties, LenProperties
<1>5. \A d \in Clients : phase'[d] = (IF d = c THEN "sent" ELSE phase[d])
  BY <1>1, <1>2 DEF TypeOK
<1>6. \A i \in DOMAIN inbox : inbox[i].from \in Clients /\ inbox[i].from # c
  BY <1>1, FromClients DEF OneMessage, Genuine, TypeOK
<1>7. TypeOK'
  BY <1>1, <1>2, <1>4 DEF TypeOK
<1>8. \A i, j \in DOMAIN inbox' : inbox'[i].from = inbox'[j].from => i = j
  BY <1>1, <1>3, <1>4, <1>6 DEF OneMessage, Genuine
<1>9. ASSUME NEW i \in DOMAIN inbox'
      PROVE  Genuine(inbox'[i], phase', todo')
  <2>1. CASE i = Len(inbox) + 1
    BY <1>2, <1>3, <1>4, <1>5, <2>1 DEF Genuine, Call
  <2>2. CASE i # Len(inbox) + 1
    <3>1. i \in DOMAIN inbox /\ inbox'[i] = inbox[i]
      BY <1>4, <2>2
    <3> QED BY <1>1, <1>2, <1>5, <1>6, <3>1 DEF OneMessage, Genuine
  <2> QED BY <2>1, <2>2
<1>10. ASSUME server' # "stuck", NEW d \in Clients, phase'[d] = "sent"
       PROVE  \E i \in DOMAIN inbox' : inbox'[i].from = d
  <2>1. CASE d = c
    BY <1>3, <1>4, <2>1
  <2>2. CASE d # c
    <3>1. PICK i \in DOMAIN inbox : inbox[i].from = d
      BY <1>1, <1>2, <1>5, <1>10, <2>2 DEF OneMessage
    <3> QED BY <1>4, <3>1
  <2> QED BY <2>1, <2>2
<1>11. OneMessagePerCaller'
  BY <1>8, <1>9, <1>10, OneMessageHolds DEF OneMessage
<1>12. InCall'
  BY <1>1, <1>2, <1>5 DEF InCall
<1> QED BY <1>7, <1>11, <1>12 DEF NameInv

\* A call returns.
LEMMA ReturnsStep ==
    ASSUME NameInv, NEW c \in Clients, todo[c] # <<>>, phase[c] # "sent", Returns(c)
    PROVE  NameInv'
<1>1. TypeOK /\ OneMessage(inbox, phase, todo, server) /\ InCall
  BY OneMessageHolds DEF NameInv
<1>2. /\ todo' = [todo EXCEPT ![c] = Tail(todo[c])] /\ phase' = [phase EXCEPT ![c] = "ready"]
      /\ UNCHANGED <<server, inbox, map, rep>>
  BY DEF Returns
<1>3. Tail(todo[c]) \in Seq(Calls)
  BY CurrentCall
<1>4. \A d \in Clients : d # c => phase'[d] = phase[d] /\ todo'[d] = todo[d]
  BY <1>1, <1>2 DEF TypeOK
<1>5. phase'[c] = "ready"
  BY <1>1, <1>2 DEF TypeOK
<1>6. \A i \in DOMAIN inbox : inbox[i].from \in Clients /\ inbox[i].from # c
  BY <1>1, FromClients DEF OneMessage, Genuine, TypeOK
<1>7. TypeOK'
  BY <1>1, <1>2, <1>3 DEF TypeOK
<1>8. OneMessagePerCaller'
  <2>1. OneMessage(inbox', phase', todo', server')
    BY <1>1, <1>2, <1>4, <1>5, <1>6 DEF OneMessage, Genuine
  <2> QED BY <2>1, OneMessageHolds
<1>9. InCall'
  BY <1>1, <1>4, <1>5 DEF InCall
<1> QED BY <1>7, <1>8, <1>9 DEF NameInv

\* The server takes a message: it is the one of its sender's call, and the others are
\* those of other clients.
LEMMA MessageTaken ==
    ASSUME NameInv, inbox # <<>>, inbox' = Tail(inbox)
    PROVE  LET m == Head(inbox)
           IN  /\ m \in Messages /\ m.from \in Clients /\ phase[m.from] = "sent" /\ todo[m.from] # <<>>
               /\ m.type = Call(m.from).type /\ m.name = strncpy(Call(m.from).name) /\ m.name \in Keys
               /\ inbox' \in Seq(Messages) /\ Len(inbox) \in Nat /\ DOMAIN inbox = 1 .. Len(inbox)
               /\ DOMAIN inbox' = 1 .. Len(inbox) - 1
               /\ \A i \in DOMAIN inbox' : inbox'[i] = inbox[i + 1] /\ inbox[i + 1].from # m.from
               /\ m = inbox[1]
<1>1. inbox \in Seq(Messages) /\ OneMessage(inbox, phase, todo, server)
  BY OneMessageHolds DEF NameInv, TypeOK
<1>2. /\ DOMAIN inbox = 1 .. Len(inbox) /\ Len(inbox) \in Nat \ {0} /\ Head(inbox) = inbox[1]
      /\ inbox' \in Seq(Messages) /\ DOMAIN inbox' = 1 .. Len(inbox) - 1
      /\ \A i \in 1 .. Len(inbox) - 1 : inbox'[i] = inbox[i + 1]
  BY <1>1, EmptySeq, LenProperties, HeadTailProperties
<1>3. 1 \in DOMAIN inbox /\ \A i \in DOMAIN inbox' : i + 1 \in DOMAIN inbox /\ i + 1 # 1
  BY <1>2
<1>4. Head(inbox) \in Messages /\ Head(inbox).from \in Clients /\ Head(inbox).name \in Keys
  BY <1>1, <1>2, <1>3, FromClients
<1> QED BY <1>1, <1>2, <1>3, <1>4 DEF OneMessage, Genuine, Call

\* The server takes a message and answers it.
LEMMA AnswersStep ==
    ASSUME NameInv, inbox # <<>>, inbox' = Tail(inbox), NEW r \in Clients \cup {0, NotFound},
           Replies(Head(inbox).from, r), UNCHANGED todo,
           map' \in Seq([name : Keys, tid : Clients]),
           server # "stuck", server' \in {"serving", "exited"}
    PROVE  NameInv'
<1> DEFINE c == Head(inbox).from
<1>1. TypeOK /\ OneMessage(inbox, phase, todo, server) /\ InCall
  BY OneMessageHolds DEF NameInv
<1>2. phase' = [phase EXCEPT ![c] = "replied"] /\ rep' = [rep EXCEPT ![c] = r]
  BY DEF Replies
<1>3. /\ c \in Clients /\ todo[c] # <<>> /\ inbox' \in Seq(Messages)
      /\ Len(inbox) \in Nat /\ DOMAIN inbox = 1 .. Len(inbox) /\ DOMAIN inbox' = 1 .. Len(inbox) - 1
      /\ \A i \in DOMAIN inbox' : inbox'[i] = inbox[i + 1] /\ inbox[i + 1].from # c
      /\ inbox[1].from = c
  BY MessageTaken
<1> HIDE DEF c
<1>4. \A d \in Clients : phase'[d] = (IF d = c THEN "replied" ELSE phase[d])
  BY <1>1, <1>2 DEF TypeOK
<1>5. TypeOK'
  BY <1>1, <1>2, <1>3 DEF TypeOK
<1>6. \A i \in DOMAIN inbox' : i \in Int /\ i + 1 \in DOMAIN inbox /\ inbox[i + 1].from \in Clients
  <2>1. \A i \in DOMAIN inbox' : i \in Int /\ i + 1 \in DOMAIN inbox
    BY <1>3
  <2> QED BY <1>1, <2>1, FromClients DEF TypeOK
<1>7. ASSUME NEW i \in DOMAIN inbox', NEW j \in DOMAIN inbox', inbox'[i].from = inbox'[j].from
      PROVE  i = j
  <2>1. i + 1 = j + 1
    BY <1>1, <1>3, <1>6, <1>7 DEF OneMessage
  <2> QED BY <1>6, <2>1
<1>8. ASSUME NEW i \in DOMAIN inbox'
      PROVE  Genuine(inbox'[i], phase', todo')
  BY <1>1, <1>3, <1>4, <1>6 DEF OneMessage, Genuine
<1>9. ASSUME NEW d \in Clients, phase'[d] = "sent"
      PROVE  \E i \in DOMAIN inbox' : inbox'[i].from = d
  <2>1. d # c /\ phase[d] = "sent"
    BY <1>4, <1>9
  <2>2. PICK i \in DOMAIN inbox : inbox[i].from = d
    BY <1>1, <2>1 DEF OneMessage
  <2>3. i - 1 \in DOMAIN inbox' /\ (i - 1) + 1 = i
    BY <1>3, <2>1, <2>2
  <2> QED BY <1>3, <2>2, <2>3
<1>10. OneMessagePerCaller'
  BY <1>7, <1>8, <1>9, OneMessageHolds DEF OneMessage
<1>11. InCall'
  BY <1>1, <1>3, <1>4 DEF InCall
<1> QED BY <1>5, <1>10, <1>11 DEF NameInv
\* A client takes a step of a call only when it is in one and not blocked.
LEMMA ClientRuns ==
    ASSUME NEW c \in Clients, MayRun(c)
    PROVE  todo[c] # <<>> /\ phase[c] # "sent"
<1>1. c # NAME_SERVER_TID
  BY NameAssumption
<1> QED BY <1>1 DEF MayRun, Ready

LEMMA ServerRuns ==
    ASSUME MayRun(NAME_SERVER_TID)
    PROVE  server = "serving" /\ inbox # <<>>
  BY DEF MayRun, Ready

\* What name_map_find returns.
LEMMA FoundIsTid ==
    ASSUME NameInv, NEW k \in Keys
    PROVE  name_map_find(k) \in Clients \cup {NotFound}
<1>1. map \in Seq(Entries)
  BY DEF NameInv, TypeOK, Entries
<1>2. CASE \A i \in DOMAIN map : map[i].name # k
  BY <1>1, <1>2, FoundFirst, FoundInMap
<1>3. CASE \E i \in DOMAIN map : map[i].name = k
  <2>1. PICK i \in DOMAIN map : map[i].name = k /\ \A j \in DOMAIN map : j < i => map[j].name # k
    BY <1>1, <1>3, FoundFirst
  <2>2. name_map_find(k) = map[i].tid
    BY <1>1, <2>1, FoundFirst, FoundInMap
  <2>3. map[i] \in Entries
    BY <1>1, <2>1, LenProperties, ElementOfSeq
  <2> QED BY <2>2, <2>3 DEF Entries
<1> QED BY <1>2, <1>3

\* RegisterAs makes the list one longer.
LEMMA Inserted ==
    ASSUME NameInv, HandleReg
    PROVE  map' \in Seq(Entries) /\ Len(map) \in Nat /\ Len(map') = Len(map) + 1
<1>1. /\ MayRun(NAME_SERVER_TID) /\ inbox' = Tail(inbox)
      /\ map' = <<[name |-> strncpy(Head(inbox).name), tid |-> Head(inbox).from]>> \o map
  BY DEF HandleReg, Receives, name_map_insert
<1>2. inbox # <<>>
  BY <1>1, ServerRuns
<1> DEFINE e == [name |-> strncpy(Head(inbox).name), tid |-> Head(inbox).from]
<1>3. e \in Entries
  BY <1>1, <1>2, MessageTaken, CutOnce DEF Entries
<1>4. map \in Seq(Entries)
  BY DEF NameInv, TypeOK, Entries
<1> HIDE DEF e
<1>5. <<e>> \in Seq(Entries) /\ Len(<<e>>) = 1
  BY <1>3
<1>6. <<e>> \o map \in Seq(Entries) /\ Len(<<e>> \o map) = 1 + Len(map) /\ Len(map) \in Nat
  BY <1>4, <1>5, ConcatProperties, LenProperties
<1>7. map' = <<e>> \o map
  BY <1>1 DEF e
<1> QED BY <1>6, <1>7

LEMMA HandleRegStep == ASSUME NameInv, HandleReg PROVE NameInv'
<1>1. /\ MayRun(NAME_SERVER_TID) /\ inbox' = Tail(inbox)
      /\ Replies(Head(inbox).from, 0) /\ UNCHANGED <<todo, server>>
  BY DEF HandleReg, Receives
<1>2. server = "serving" /\ inbox # <<>>
  BY <1>1, ServerRuns
<1>3. map' \in Seq([name : Keys, tid : Clients])
  BY Inserted DEF Entries
<1> QED BY <1>1, <1>2, <1>3, AnswersStep

LEMMA HandleNeverStep == ASSUME NameInv, HandleNever PROVE NameInv'
<1>1. /\ MayRun(NAME_SERVER_TID) /\ inbox' = Tail(inbox) /\ server' = "stuck"
      /\ UNCHANGED <<map, phase, rep, todo>>
  BY DEF HandleNever, Receives
<1>2. inbox # <<>>
  BY <1>1, ServerRuns
<1>3. /\ inbox' \in Seq(Messages) /\ Len(inbox) \in Nat /\ DOMAIN inbox = 1 .. Len(inbox)
      /\ DOMAIN inbox' = 1 .. Len(inbox) - 1 /\ \A i \in DOMAIN inbox' : inbox'[i] = inbox[i + 1]
  BY <1>1, <1>2, MessageTaken
<1>4. TypeOK /\ OneMessage(inbox, phase, todo, server) /\ InCall
  BY OneMessageHolds DEF NameInv
<1>5. \A i \in DOMAIN inbox' : i \in Int /\ i + 1 \in DOMAIN inbox
  BY <1>3
<1>6. ASSUME NEW i \in DOMAIN inbox', NEW j \in DOMAIN inbox', inbox'[i].from = inbox'[j].from
      PROVE  i = j
  <2>1. i + 1 = j + 1
    BY <1>3, <1>4, <1>5, <1>6 DEF OneMessage
  <2> QED BY <1>5, <2>1
<1>7. \A i \in DOMAIN inbox' : Genuine(inbox'[i], phase', todo')
  BY <1>1, <1>3, <1>4, <1>5 DEF OneMessage, Genuine
<1>8. OneMessagePerCaller'
  BY <1>1, <1>6, <1>7, OneMessageHolds DEF OneMessage
<1>9. TypeOK'
  BY <1>1, <1>3, <1>4 DEF TypeOK
<1>10. InCall'
  BY <1>1, <1>4 DEF InCall
<1> QED BY <1>8, <1>9, <1>10 DEF NameInv

LEMMA HandleWhoStep == ASSUME NameInv, HandleWho PROVE NameInv'
<1>1. PICK r \in Answers(Head(inbox).name) :
         /\ MayRun(NAME_SERVER_TID) /\ inbox' = Tail(inbox)
         /\ Replies(Head(inbox).from, r) /\ UNCHANGED <<todo, server, map>>
  BY DEF HandleWho, Receives
<1>2. server = "serving" /\ inbox # <<>>
  BY <1>1, ServerRuns
<1>3. r \in Clients \cup {0, NotFound}
  <2>1. Head(inbox).name \in Keys
    BY <1>1, <1>2, MessageTaken
  <2> QED BY <1>1, <2>1, FoundIsTid DEF Answers
<1>4. map' \in Seq([name : Keys, tid : Clients])
  BY <1>1 DEF NameInv, TypeOK
<1> QED BY <1>1, <1>2, <1>3, <1>4, AnswersStep

LEMMA HandleExitStep == ASSUME NameInv, HandleExit PROVE NameInv'
<1>1. /\ MayRun(NAME_SERVER_TID) /\ inbox' = Tail(inbox)
      /\ Replies(Head(inbox).from, 0) /\ UNCHANGED <<todo, map>> /\ server' = "exited"
  BY DEF HandleExit, Receives
<1>2. server = "serving" /\ inbox # <<>>
  BY <1>1, ServerRuns
<1>3. map' \in Seq([name : Keys, tid : Clients])
  BY <1>1 DEF NameInv, TypeOK
<1> QED BY <1>1, <1>2, <1>3, AnswersStep

LEMMA NameStep == NameInv /\ [Next]_vars => NameInv'
<1> SUFFICES ASSUME NameInv, [Next]_vars PROVE NameInv'
  OBVIOUS
<1>1. CASE UNCHANGED vars
  <2>1. OneMessagePerCaller'
    BY <1>1, OneMessageHolds DEF vars, NameInv
  <2> QED BY <1>1, <2>1 DEF vars, NameInv, TypeOK, InCall
<1>2. CASE Create
  <2>1. OneMessagePerCaller'
    BY <1>2, OneMessageHolds DEF Create, NameInv, OneMessage
  <2> QED BY <1>2, <2>1 DEF Create, NameInv, TypeOK, InCall
<1>3. ASSUME NEW c \in Clients, Client(c) PROVE NameInv'
  <2>1. MayRun(c) /\ (Sends(c) \/ Returns(c))
    BY <1>3 DEF Client, Asks, AsksNobody, Polls, Finishes
  <2> QED BY <2>1, ClientRuns, SendsStep, ReturnsStep
<1>4. CASE Handle
  BY <1>4, HandleRegStep, HandleWhoStep, HandleExitStep, HandleNeverStep DEF Handle
<1>5. CASE Rest
  BY <1>1, <1>5 DEF Rest
<1> QED BY <1>1, <1>2, <1>3, <1>4, <1>5 DEF Next

LEMMA NameInvariant == Spec => []NameInv
  BY NameInit, NameStep, PTL DEF Spec

\* A task blocked in RegisterAs, WhoIs or name_server_exit has one message in the queue, that
\* of its call: it is answered once, however often WhoIs has asked before.
THEOREM NameMessages == Spec => []OneMessagePerCaller
<1>1. NameInv => OneMessagePerCaller
  BY DEF NameInv
<1> QED BY <1>1, NameInvariant, PTL
-----------------------------------------------------------------------------
(* The registry. *)

\* What the refinement mapping makes of a client's phase p, program t and last reply r.
OpOf(p, t, r) ==
    IF p = "ready" \/ Head(t).type = "EXIT" THEN [type |-> "NONE"]
    ELSE IF p = "sent" \/ (p = "replied" /\ Head(t).type = "WHO" /\ r = NotFound)
         THEN [type |-> Head(t).type, key |-> strncpy(Head(t).name)]
    ELSE [type |-> "DONE"]

GotOf(p, t, r) == IF p = "replied" /\ Head(t).type = "WHO" THEN r ELSE NotFound

LEMMA Mapped ==
    /\ opMap = [c \in Clients |-> OpOf(phase[c], todo[c], rep[c])]
    /\ opMap' = [c \in Clients |-> OpOf(phase'[c], todo'[c], rep'[c])]
    /\ gotMap = [c \in Clients |-> GotOf(phase[c], todo[c], rep[c])]
    /\ gotMap' = [c \in Clients |-> GotOf(phase'[c], todo'[c], rep'[c])]
    /\ regMap = [k \in Keys |-> Found(map, k)]
    /\ regMap' = [k \in Keys |-> Found(map', k)]
<1>1. opMap = [c \in Clients |-> OpOf(phase[c], todo[c], rep[c])]
  BY DEF opMap, OpOf, Unanswered, AskAgain, Call
<1>2. opMap' = [c \in Clients |-> OpOf(phase'[c], todo'[c], rep'[c])]
  BY DEF opMap, OpOf, Unanswered, AskAgain, Call
<1>3. gotMap = [c \in Clients |-> GotOf(phase[c], todo[c], rep[c])]
  BY DEF gotMap, GotOf, Call
<1>4. gotMap' = [c \in Clients |-> GotOf(phase'[c], todo'[c], rep'[c])]
  BY DEF gotMap, GotOf, Call
<1>5. regMap = [k \in Keys |-> Found(map, k)]
  BY FoundInMap DEF regMap
<1>6. regMap' = [k \in Keys |-> Found(map', k)]
  BY FoundInNextMap DEF regMap
<1> QED BY <1>1, <1>2, <1>3, <1>4, <1>5, <1>6

\* One client moves.
LEMMA OneMoves ==
    ASSUME NEW c \in Clients,
           \A d \in Clients \ {c} : phase'[d] = phase[d] /\ todo'[d] = todo[d] /\ rep'[d] = rep[d]
    PROVE  /\ opMap' = [opMap EXCEPT ![c] = OpOf(phase'[c], todo'[c], rep'[c])]
           /\ gotMap' = [gotMap EXCEPT ![c] = GotOf(phase'[c], todo'[c], rep'[c])]
           /\ opMap[c] = OpOf(phase[c], todo[c], rep[c])
           /\ gotMap[c] = GotOf(phase[c], todo[c], rep[c])
           /\ opMap = [opMap EXCEPT ![c] = opMap[c]]
           /\ gotMap = [gotMap EXCEPT ![c] = gotMap[c]]
  BY Mapped

\* The client's move is none of the registry's.
LEMMA OneMovesUnseen ==
    ASSUME NEW c \in Clients,
           \A d \in Clients \ {c} : phase'[d] = phase[d] /\ todo'[d] = todo[d] /\ rep'[d] = rep[d],
           OpOf(phase'[c], todo'[c], rep'[c]) = OpOf(phase[c], todo[c], rep[c]),
           GotOf(phase'[c], todo'[c], rep'[c]) = GotOf(phase[c], todo[c], rep[c]),
           UNCHANGED map
    PROVE  UNCHANGED <<regMap, opMap, gotMap>>
<1>1. opMap' = opMap /\ gotMap' = gotMap
  BY OneMoves
<1>2. regMap' = regMap
  BY Mapped
<1> QED BY <1>1, <1>2

\* The Send of a call, which the server has not seen yet.
LEMMA AsksCalls ==
    ASSUME NameInv, NEW c \in Clients, Asks(c)
    PROVE  UNCHANGED <<regMap, opMap, gotMap>> \/ \E o \in Registry!Ops : Registry!Call(c, o)
<1> DEFINE t == todo[c]
<1>1. phase[c] = "ready" /\ t # <<>>
  BY ClientRuns DEF Asks
<1>2. phase' = [phase EXCEPT ![c] = "sent"] /\ UNCHANGED <<map, todo, rep>> /\ phase \in [Clients -> {"ready", "sent", "replied"}]
  BY DEF Asks, Sends, NameInv, TypeOK
<1>3. phase'[c] = "sent" /\ \A d \in Clients \ {c} : phase'[d] = phase[d] /\ todo'[d] = todo[d] /\ rep'[d] = rep[d]
  BY <1>2
<1>4. Head(t).type \in {"REG", "WHO", "EXIT"} /\ strncpy(Head(t).name) \in Keys
  BY <1>1, CurrentCall DEF Call
<1>5. OpOf(phase[c], t, rep[c]) = [type |-> "NONE"] /\ GotOf(phase[c], t, rep[c]) = NotFound
  BY <1>1 DEF OpOf, GotOf
<1>6. GotOf(phase'[c], todo'[c], rep'[c]) = NotFound
  BY <1>3 DEF GotOf
<1>7. CASE Head(t).type = "EXIT"
  <2>1. OpOf(phase'[c], todo'[c], rep'[c]) = [type |-> "NONE"]
    BY <1>2, <1>7 DEF OpOf
  <2> QED BY <1>2, <1>3, <1>5, <1>6, <2>1, OneMovesUnseen
<1>8. CASE Head(t).type # "EXIT"
  <2> DEFINE o == [type |-> Head(t).type, key |-> strncpy(Head(t).name)]
  <2>1. OpOf(phase'[c], todo'[c], rep'[c]) = o
    BY <1>2, <1>3, <1>8 DEF OpOf
  <2>2. o \in Registry!Ops
    BY <1>4, <1>8 DEF Registry!Ops
  <2> HIDE DEF o, t
  <2>3. opMap[c] = [type |-> "NONE"] /\ opMap' = [opMap EXCEPT ![c] = o] /\ gotMap' = gotMap
    BY <1>3, <1>5, <1>6, <2>1, OneMoves DEF t
  <2>4. regMap' = regMap
    BY <1>2, Mapped
  <2>5. Registry!Call(c, o)
    BY <2>3, <2>4 DEF Registry!Call, Registry!Quiet
  <2> QED BY <2>2, <2>5
<1> QED BY <1>7, <1>8

\* A call that found no server, or an answer that WhoIs does not return.
LEMMA UnseenCalls ==
    ASSUME NameInv, NEW c \in Clients, AsksNobody(c) \/ Polls(c)
    PROVE  UNCHANGED <<regMap, opMap, gotMap>>
<1>1. UNCHANGED <<map, rep>> /\ phase \in [Clients -> {"ready", "sent", "replied"}] /\ todo \in [Clients -> Seq(Calls)]
  BY DEF AsksNobody, Polls, Sends, Returns, NameInv, TypeOK
<1>2. CASE AsksNobody(c)
  <2>1. phase[c] = "ready" /\ phase' = [phase EXCEPT ![c] = "ready"] /\ todo' = [todo EXCEPT ![c] = Tail(todo[c])]
    BY <1>2 DEF AsksNobody, Returns
  <2>2. phase'[c] = "ready" /\ \A d \in Clients \ {c} : phase'[d] = phase[d] /\ todo'[d] = todo[d] /\ rep'[d] = rep[d]
    BY <1>1, <2>1
  <2>3. /\ OpOf(phase'[c], todo'[c], rep'[c]) = OpOf(phase[c], todo[c], rep[c])
        /\ GotOf(phase'[c], todo'[c], rep'[c]) = GotOf(phase[c], todo[c], rep[c])
    BY <2>1, <2>2 DEF OpOf, GotOf
  <2> QED BY <1>1, <2>2, <2>3, OneMovesUnseen
<1>3. CASE Polls(c)
  <2>1. /\ phase[c] = "replied" /\ phase' = [phase EXCEPT ![c] = "sent"] /\ todo' = todo
        /\ Head(todo[c]).type = "WHO" /\ rep[c] = NotFound
    BY <1>3 DEF Polls, Sends, AskAgain, Call
  <2>2. phase'[c] = "sent" /\ \A d \in Clients \ {c} : phase'[d] = phase[d] /\ todo'[d] = todo[d] /\ rep'[d] = rep[d]
    BY <1>1, <2>1
  <2>3. /\ OpOf(phase'[c], todo'[c], rep'[c]) = OpOf(phase[c], todo[c], rep[c])
        /\ GotOf(phase'[c], todo'[c], rep'[c]) = GotOf(phase[c], todo[c], rep[c])
    BY <1>1, <2>1, <2>2 DEF OpOf, GotOf
  <2> QED BY <1>1, <2>2, <2>3, OneMovesUnseen
<1> QED BY <1>2, <1>3

\* A call returns what the server has answered.
LEMMA FinishesReturns ==
    ASSUME NameInv, NEW c \in Clients, Finishes(c)
    PROVE  UNCHANGED <<regMap, opMap, gotMap>> \/ Registry!Return(c)
<1>1. /\ phase[c] = "replied" /\ ~(Head(todo[c]).type = "WHO" /\ rep[c] = NotFound)
      /\ phase' = [phase EXCEPT ![c] = "ready"] /\ todo' = [todo EXCEPT ![c] = Tail(todo[c])]
      /\ UNCHANGED <<map, rep>> /\ phase \in [Clients -> {"ready", "sent", "replied"}] /\ todo \in [Clients -> Seq(Calls)]
  BY DEF Finishes, AskAgain, Call, Returns, NameInv, TypeOK
<1>2. phase'[c] = "ready" /\ \A d \in Clients \ {c} : phase'[d] = phase[d] /\ todo'[d] = todo[d] /\ rep'[d] = rep[d]
  BY <1>1
<1>3. /\ OpOf(phase'[c], todo'[c], rep'[c]) = [type |-> "NONE"]
      /\ GotOf(phase'[c], todo'[c], rep'[c]) = NotFound
  BY <1>2 DEF OpOf, GotOf
<1>4. CASE Head(todo[c]).type = "EXIT"
  <2>1. /\ OpOf(phase[c], todo[c], rep[c]) = [type |-> "NONE"]
        /\ GotOf(phase[c], todo[c], rep[c]) = NotFound
    BY <1>4 DEF OpOf, GotOf
  <2> QED BY <1>1, <1>2, <1>3, <2>1, OneMovesUnseen
<1>5. CASE Head(todo[c]).type # "EXIT"
  <2>1. OpOf(phase[c], todo[c], rep[c]) = [type |-> "DONE"]
    BY <1>1, <1>5 DEF OpOf
  <2>2. /\ opMap[c] = [type |-> "DONE"] /\ opMap' = [opMap EXCEPT ![c] = [type |-> "NONE"]]
        /\ gotMap' = [gotMap EXCEPT ![c] = NotFound]
    BY <1>2, <1>3, <2>1, OneMoves
  <2>3. regMap' = regMap
    BY <1>1, Mapped
  <2> QED BY <2>2, <2>3 DEF Registry!Return, Registry!Done, Registry!Quiet
<1> QED BY <1>4, <1>5

\* The server takes the message of c's call and answers r.
LEMMA Answered ==
    ASSUME NameInv, NEW c, c = Head(inbox).from, NEW r, NEW type,
           Receives(type), Replies(c, r)
    PROVE  /\ c \in Clients /\ Head(todo[c]).type = type /\ Head(inbox).name = strncpy(Head(todo[c]).name)
           /\ Head(inbox).name \in Keys
           /\ phase[c] = "sent" /\ phase'[c] = "replied" /\ todo' = todo /\ rep'[c] = r
           /\ \A d \in Clients \ {c} : phase'[d] = phase[d] /\ todo'[d] = todo[d] /\ rep'[d] = rep[d]
<1>1. /\ MayRun(NAME_SERVER_TID) /\ Head(inbox).type = type /\ inbox' = Tail(inbox) /\ todo' = todo
      /\ phase' = [phase EXCEPT ![c] = "replied"] /\ rep' = [rep EXCEPT ![c] = r]
  BY DEF Receives, Replies
<1>2. inbox # <<>>
  BY <1>1, ServerRuns
<1>3. /\ c \in Clients /\ phase[c] = "sent" /\ type = Head(todo[c]).type
      /\ Head(inbox).name = strncpy(Head(todo[c]).name) /\ Head(inbox).name \in Keys
  BY <1>1, <1>2, MessageTaken DEF Call
<1>4. phase \in [Clients -> {"ready", "sent", "replied"}] /\ rep \in [Clients -> Clients \cup {0, NotFound}]
  BY DEF NameInv, TypeOK
<1> QED BY <1>1, <1>3, <1>4

\* The entry at the front is the new value of the register.
LEMMA HandleRegRegisters ==
    ASSUME NameInv, HandleReg
    PROVE  \E c \in Clients : Registry!Register(c)
<1> DEFINE c == Head(inbox).from
           k == Head(inbox).name
           e == [name |-> k, tid |-> c]
<1>1. Receives("REG") /\ Replies(c, 0) /\ map' = <<[name |-> strncpy(k), tid |-> c]>> \o map
  BY DEF HandleReg, name_map_insert
<1>2. /\ c \in Clients /\ Head(todo[c]).type = "REG" /\ k = strncpy(Head(todo[c]).name) /\ k \in Keys
      /\ phase[c] = "sent" /\ phase'[c] = "replied" /\ todo' = todo /\ rep'[c] = 0
      /\ \A d \in Clients \ {c} : phase'[d] = phase[d] /\ todo'[d] = todo[d] /\ rep'[d] = rep[d]
  BY <1>1, Answered
<1> HIDE DEF c, k
<1>3. e \in Entries /\ e.name = k /\ e.tid = c /\ map' = <<e>> \o map
  BY <1>1, <1>2, CutOnce DEF Entries
<1>4. map \in Seq(Entries)
  BY DEF NameInv, TypeOK, Entries
<1> HIDE DEF e
<1>5. \A j \in Keys : Found(map', j) = IF k = j THEN c ELSE Found(map, j)
  BY <1>3, <1>4, FoundAfterInsert
<1>6. regMap' = [regMap EXCEPT ![k] = c]
  BY <1>2, <1>5, Mapped
<1>7. /\ OpOf(phase[c], todo[c], rep[c]) = [type |-> "REG", key |-> k]
      /\ OpOf(phase'[c], todo'[c], rep'[c]) = [type |-> "DONE"]
      /\ GotOf(phase[c], todo[c], rep[c]) = NotFound /\ GotOf(phase'[c], todo'[c], rep'[c]) = NotFound
  BY <1>2 DEF OpOf, GotOf
<1>8. /\ opMap[c] = [type |-> "REG", key |-> k] /\ opMap' = [opMap EXCEPT ![c] = [type |-> "DONE"]]
      /\ gotMap' = gotMap
  BY <1>2, <1>7, OneMoves
<1>9. opMap[c].type = "REG" /\ opMap[c].key = k
  BY <1>8
<1> QED BY <1>2, <1>6, <1>8, <1>9 DEF Registry!Register, Registry!Done

\* The answer to WhoIs is the register's value, or makes WhoIs ask again.
LEMMA HandleWhoFinds ==
    ASSUME NameInv, HandleWho, MapValid
    PROVE  UNCHANGED <<regMap, opMap, gotMap>> \/ \E c \in Clients : Registry!Find(c)
<1> DEFINE c == Head(inbox).from
           k == Head(inbox).name
           r == name_map_find(k)
<1>1. Receives("WHO") /\ Replies(c, r) /\ map' = map
  BY DEF HandleWho, Answers
<1>2. /\ c \in Clients /\ Head(todo[c]).type = "WHO" /\ k = strncpy(Head(todo[c]).name) /\ k \in Keys
      /\ phase[c] = "sent" /\ phase'[c] = "replied" /\ todo' = todo /\ rep'[c] = r
      /\ \A d \in Clients \ {c} : phase'[d] = phase[d] /\ todo'[d] = todo[d] /\ rep'[d] = rep[d]
  BY <1>1, Answered
<1>3. r = regMap[k]
  BY <1>2 DEF regMap
<1> HIDE DEF c, k, r
<1>4. /\ OpOf(phase[c], todo[c], rep[c]) = [type |-> "WHO", key |-> k]
      /\ OpOf(phase'[c], todo'[c], rep'[c]) = (IF r = NotFound THEN [type |-> "WHO", key |-> k] ELSE [type |-> "DONE"])
      /\ GotOf(phase[c], todo[c], rep[c]) = NotFound /\ GotOf(phase'[c], todo'[c], rep'[c]) = r
  BY <1>2 DEF OpOf, GotOf
<1>5. CASE r = NotFound
  BY <1>1, <1>2, <1>4, <1>5, OneMovesUnseen
<1>6. CASE r # NotFound
  <2>1. /\ opMap[c] = [type |-> "WHO", key |-> k] /\ opMap' = [opMap EXCEPT ![c] = [type |-> "DONE"]]
        /\ gotMap' = [gotMap EXCEPT ![c] = r]
    BY <1>2, <1>4, <1>6, OneMoves
  <2>2. opMap[c].type = "WHO" /\ opMap[c].key = k
    BY <2>1
  <2>3. regMap' = regMap
    BY <1>1, Mapped
  <2> QED BY <1>2, <1>3, <1>6, <2>1, <2>2, <2>3 DEF Registry!Find, Registry!Done
<1> QED BY <1>5, <1>6

\* The end of the server is no step of the registry.
LEMMA HandleExitUnseen ==
    ASSUME NameInv, HandleExit
    PROVE  UNCHANGED <<regMap, opMap, gotMap>>
<1> DEFINE c == Head(inbox).from
<1>1. Receives("EXIT") /\ Replies(c, 0) /\ map' = map
  BY DEF HandleExit
<1>2. /\ c \in Clients /\ Head(todo[c]).type = "EXIT" /\ todo' = todo
      /\ \A d \in Clients \ {c} : phase'[d] = phase[d] /\ todo'[d] = todo[d] /\ rep'[d] = rep[d]
  BY <1>1, Answered
<1> HIDE DEF c
<1>3. /\ OpOf(phase'[c], todo'[c], rep'[c]) = OpOf(phase[c], todo[c], rep[c])
      /\ GotOf(phase'[c], todo'[c], rep'[c]) = GotOf(phase[c], todo[c], rep[c])
  BY <1>2 DEF OpOf, GotOf
<1> QED BY <1>1, <1>2, <1>3, OneMovesUnseen

\* The list only grows: once it has left its array, it does not come back.
LEMMA MapGrows ==
    ASSUME NameInv, [Next]_vars, MapValid'
    PROVE  MapValid
<1>1. CASE UNCHANGED map
  BY <1>1 DEF MapValid
<1>2. CASE HandleReg
  BY <1>2, Inserted, NameAssumption DEF MapValid
<1> QED BY <1>1, <1>2 DEF Next, vars, Create, Client, Asks, AsksNobody, Polls, Finishes, Sends, Returns,
                          Handle, HandleWho, HandleExit, HandleNever, Rest

\* The list of entries, searched from the front, and a WhoIs that asks until it is told a tid,
\* are a register per name, as name_server.h promises: RegisterAs overwrites, WhoIs blocks
\* until there is a value and returns the one of a moment between its call and its return.
\* They are until the list has more entries than its array has nodes, and not beyond.
THEOREM NameImplements == Spec => ImplementsRegistry
<1>1. Init => Registry!Init
  <2> SUFFICES ASSUME Init PROVE Registry!Init
    OBVIOUS
  <2>1. map = <<>> /\ phase = [c \in Clients |-> "ready"]
    BY DEF Init
  <2>2. \A k \in Keys : name_map_find(k) = NotFound
    BY <2>1 DEF name_map_find
  <2>3. regMap = [k \in Keys |-> NotFound]
    BY <2>2 DEF regMap
  <2>4. opMap = [c \in Clients |-> [type |-> "NONE"]] /\ gotMap = [c \in Clients |-> NotFound]
    BY <2>1 DEF opMap, gotMap
  <2>5. MapValid = TRUE
    BY <2>1, NameAssumption DEF MapValid
  <2> QED BY <2>3, <2>4, <2>5 DEF Registry!Init, Registry!Quiet
<1>2. NameInv /\ [Next]_vars => [Registry!Next]_(Registry!vars)
  <2> SUFFICES ASSUME NameInv, [Next]_vars, MapValid' PROVE [Registry!Next]_(Registry!vars)
    BY DEF Registry!Next
  <2>1. MapValid /\ MapValid' = MapValid
    <3>1. MapValid
      BY MapGrows
    <3> QED BY <3>1 DEF MapValid
  <2>2. ASSUME UNCHANGED <<regMap, opMap, gotMap>> PROVE UNCHANGED Registry!vars
    BY <2>1, <2>2 DEF Registry!vars
  <2>3. ASSUME NEW c \in Clients, Registry!Step(c) PROVE Registry!Next
    BY <2>1, <2>3 DEF Registry!Next
  <2>4. ASSUME UNCHANGED <<map, phase, todo, rep>> PROVE UNCHANGED Registry!vars
    <3>1. opMap' = opMap /\ gotMap' = gotMap /\ regMap' = regMap
      BY <2>4, Mapped
    <3> QED BY <2>2, <3>1
  <2>5. ASSUME NEW c \in Clients, Client(c) PROVE [Registry!Next]_(Registry!vars)
    <3>1. UNCHANGED <<regMap, opMap, gotMap>> \/ Registry!Step(c)
      BY <2>5, AsksCalls, UnseenCalls, FinishesReturns DEF Client, Registry!Step
    <3> QED BY <2>2, <2>3, <3>1
  <2>6. CASE HandleReg
    BY <2>3, <2>6, HandleRegRegisters DEF Registry!Step
  <2>7. CASE HandleWho
    BY <2>1, <2>2, <2>3, <2>7, HandleWhoFinds DEF Registry!Step
  <2>8. CASE HandleExit
    BY <2>2, <2>8, HandleExitUnseen
  <2>9. CASE Create \/ HandleNever \/ Rest \/ UNCHANGED vars
    <3>1. UNCHANGED <<map, phase, todo, rep>>
      BY <2>9 DEF Create, HandleNever, Receives, Rest, vars
    <3> QED BY <2>4, <3>1
  <2> QED BY <2>5, <2>6, <2>7, <2>8, <2>9 DEF Next, Handle
<1> QED BY <1>1, <1>2, NameInvariant, PTL DEF Spec, ImplementsRegistry, Registry!Spec
=============================================================================
