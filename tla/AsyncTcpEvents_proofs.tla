----------------------- MODULE AsyncTcpEvents_proofs -----------------------
(***************************************************************************)
(* Proofs about the event queue of AsyncTCP.cpp, for any set of clients,   *)
(* any capacity and any number of callbacks.                               *)
(***************************************************************************)
EXTENDS AsyncTcpEvents, DataInduction, TLAPS

(***************************************************************************)
(* The inductive invariant, in named parts.                                *)
(***************************************************************************)

\* What the async task holds at each of its program points.
Rotating == {"scan", "take", "requeue"}
TaskHolds ==
  /\ pc = "get" <=> cur = NoPacket
  /\ pc \in {"first", "requeueFirst"} \cup Rotating => cur.event = "CLEAR"
  /\ pc \in {"prepend", "requeueFirst", "requeue"} <=> hand # NoPacket
  /\ pc = "prepend" => hand.event = "CLEAR"
  /\ pc \in {"requeueFirst", "requeue"} => hand.arg # cur.arg
  /\ pc \in Rotating <=> first # NoPacket
  /\ pc \in Rotating => first.arg # cur.arg

\* Where the task is in _close, of which client, and in which callbacks.
TaskCloses ==
  /\ pc \in {"prepend", "call", "api", "null"} => cur.event # "CLEAR"
  /\ closing # NULL => pc \in {"prepend", "call", "api", "null"} /\ cur.event # "FIN"
  /\ pc \in {"call", "null"} => closing # NULL
  /\ pc = "prepend" /\ closing # NULL => hand.arg = closing
  /\ pc = "prepend" /\ closing = NULL => cur.event = "FIN"

\* What the other threads hold: LwIP makes no CLEAR, the loop task nothing else.
OthersHold ==
  /\ lwip.event # "CLEAR"
  /\ nulls => lwip.event = "FIN" /\ lwip \in Packets
  /\ app \in Packets => app.event = "CLEAR" /\ app.arg \in AppClosed

\* Every packet is older than the next one.
IdsBelow ==
  /\ \A p \in Elems(queue) : p.id < nextId
  /\ lwip.id < nextId /\ app.id < nextId /\ cur.id < nextId /\ hand.id < nextId

Bookkeeping == TypeOK /\ TaskHolds /\ TaskCloses /\ OthersHold /\ IdsBelow /\ PacketOwnedOnce

\* What may still come of a client whose _close did not wait for the tcpip thread.
Excused(p, l) == p.arg \in l /\ p.event \in {"FIN", "CLEAR"}

\* Between the peek and the receive the first packet cannot get to the head,
\* and the packets of the cleared client lie before it.  (A client the loop
\* task closes may still have a packet on its way.)
HeadIsNotFirst == pc = "take" => Head(queue) # first
Before(q, f, c, l) ==
  \A i, j \in 1..Len(q) : q[i] = f /\ q[j].arg = c /\ ~Excused(q[j], l) => j < i
Own == Clients \ AppClosed
LeftBeforeFirst ==
  pc \in Rotating /\ cur.arg \in Own => Before(queue, first, cur.arg, late)

Rotation == FirstStaysQueued /\ HeadIsNotFirst /\ LeftBeforeFirst

\* A client of the async task that is being closed gets no packet any more but the
\* one the tcpip thread is sending, which is gone once the thread has answered.
Visible == Elems(queue) \cup {cur, hand}
Has(kind, c) == \E p \in Visible : p.event = kind /\ p.arg = c
ClosingIsQuiet ==
  closing \in Own => closing \notin open /\ (pc = "null" => lwip.arg # closing)
\* Without its _pcb a client gets no packet but the FIN that is being sent.
ForgottenIsQuiet ==
  \A c \in Own \ conn : c \notin open /\ (lwip.arg = c => lwip.event = "FIN")
\* Its CLEAR is behind all of them but an excused one, unless it is in _close.
ClearIsLast ==
  \A c \in Own : Has("CLEAR", c) =>
    /\ c \notin open
    /\ c \in conn => closing = c
    /\ lwip.arg = c => closing = c \/ Excused(lwip, late)
\* So is its FIN, and its error.
FinIsLast ==
  \A c \in Own :
    /\ Has("FIN", c) => c \notin open \cup conn /\ lwip.arg # c
    /\ lwip.event = "FIN" /\ lwip.arg = c => c \notin open /\ (c \in conn => nulls)
ErrorIsLast ==
  \A c \in Own :
    /\ Has("ERROR", c) => c \notin open /\ lwip.arg # c
    /\ lwip.event = "ERROR" /\ lwip.arg = c => c \notin open

\* Nothing is left of a cleared client, but what is excused.
ClearedIsGone ==
  \A c \in cleared \cap Own :
    /\ c \notin open \cup conn /\ closing # c
    /\ \A p \in Visible \cup {lwip} : p.arg = c => Excused(p, late)

Silence ==
  ClosingIsQuiet /\ ForgottenIsQuiet /\ ClearIsLast /\ FinIsLast /\ ErrorIsLast /\ ClearedIsGone

IInv == Bookkeeping /\ Rotation /\ Silence
-----------------------------------------------------------------------------
(***************************************************************************)
(* What sending to the queue and taking from it do to its packets.         *)
(***************************************************************************)

LEMMA Appending ==
  ASSUME NEW q \in Seq(Packets), NEW p \in Packets
  PROVE  /\ Append(q, p) \in Seq(Packets) /\ Len(Append(q, p)) = Len(q) + 1
         /\ Elems(Append(q, p)) = Elems(q) \cup {p} /\ Elems(q) \subseteq Packets
         /\ Distinct(q) /\ (\A e \in Elems(q) : e.id # p.id) => Distinct(Append(q, p))
         /\ \A f, c, l : Before(q, f, c, l) /\ (p.arg # c \/ Excused(p, l)) => Before(Append(q, p), f, c, l)
         /\ q # <<>> => Head(Append(q, p)) = Head(q)
BY DEF Elems, Distinct, Before

LEMMA Prepending ==
  ASSUME NEW q \in Seq(Packets), NEW p \in Packets
  PROVE  /\ <<p>> \o q \in Seq(Packets) /\ Len(<<p>> \o q) = Len(q) + 1
         /\ Elems(<<p>> \o q) = Elems(q) \cup {p} /\ Elems(q) \subseteq Packets
         /\ Distinct(q) /\ (\A e \in Elems(q) : e.id # p.id) => Distinct(<<p>> \o q)
         /\ \A f, c, l : Before(q, f, c, l) /\ p # f => Before(<<p>> \o q, f, c, l)
         /\ Head(<<p>> \o q) = p
<1> DEFINE r == <<p>> \o q
<1>1. r \in Seq(Packets) /\ Len(r) = Len(q) + 1 /\ r[1] = p
  OBVIOUS
<1>2. \A i \in 1..Len(q) : r[i + 1] = q[i]
  OBVIOUS
<1>3. \A i \in 1..Len(r) : i # 1 => i - 1 \in 1..Len(q) /\ r[i] = q[i - 1]
  BY <1>1, <1>2
<1> HIDE DEF r
<1>4. Elems(r) = Elems(q) \cup {p}
  <2>1. Elems(r) \subseteq Elems(q) \cup {p}
    BY <1>1, <1>3, SMTT(20) DEF Elems
  <2>2. Elems(q) \subseteq Elems(r)
    <3> SUFFICES ASSUME NEW i \in 1..Len(q) PROVE q[i] \in Elems(r)
      BY DEF Elems
    <3> i + 1 \in 1..Len(r)
      BY <1>1
    <3> QED
      BY <1>2 DEF Elems
  <2>3. p \in Elems(r)
    BY <1>1 DEF Elems
  <2> QED
    BY <2>1, <2>2, <2>3
<1>5. ASSUME Distinct(q), \A e \in Elems(q) : e.id # p.id PROVE Distinct(r)
  <2> SUFFICES ASSUME NEW i \in 1..Len(r), NEW j \in 1..Len(r), r[i].id = r[j].id
               PROVE  i = j
    BY DEF Distinct
  <2>1. CASE i # 1 /\ j # 1
    <3>1. i - 1 \in 1..Len(q) /\ j - 1 \in 1..Len(q) /\ q[i - 1].id = q[j - 1].id
      BY <1>3, <2>1
    <3>2. i - 1 = j - 1
      BY <1>5, <3>1 DEF Distinct
    <3> QED
      BY <3>2
  <2>2. CASE i = 1 /\ j # 1
    BY <1>1, <1>3, <1>5, <2>2 DEF Elems
  <2>3. CASE i # 1 /\ j = 1
    BY <1>1, <1>3, <1>5, <2>3 DEF Elems
  <2> QED
    BY <2>1, <2>2, <2>3
<1>6. ASSUME NEW f, NEW c, NEW l, Before(q, f, c, l), p # f PROVE Before(r, f, c, l)
  <2> SUFFICES ASSUME NEW i \in 1..Len(r), NEW j \in 1..Len(r), r[i] = f, r[j].arg = c,
                      ~Excused(r[j], l)
               PROVE  j < i
    BY DEF Before
  <2>1. i # 1 /\ i - 1 \in 1..Len(q) /\ q[i - 1] = f
    BY <1>1, <1>3, <1>6
  <2>2. CASE j = 1
    BY <2>1, <2>2
  <2>3. CASE j # 1
    <3>1. j - 1 \in 1..Len(q) /\ q[j - 1].arg = c /\ ~Excused(q[j - 1], l)
      BY <1>3, <2>3
    <3> QED
      BY <1>6, <2>1, <3>1 DEF Before
  <2> QED
    BY <2>2, <2>3
<1>7. Elems(q) \subseteq Packets
  BY DEF Elems
<1> QED
  BY <1>1, <1>4, <1>5, <1>6, <1>7 DEF r

LEMMA Taking ==
  ASSUME NEW q \in Seq(Packets), q # <<>>
  PROVE  /\ Head(q) \in Packets /\ Head(q) \in Elems(q)
         /\ Tail(q) \in Seq(Packets) /\ Len(Tail(q)) <= Len(q)
         /\ Elems(q) = Elems(Tail(q)) \cup {Head(q)}
         /\ Distinct(q) => Distinct(Tail(q)) /\ \A e \in Elems(Tail(q)) : e.id # Head(q).id
         /\ \A f, c, l : Before(q, f, c, l) => Before(Tail(q), f, c, l)
<1> DEFINE r == Tail(q)
<1>1. /\ r \in Seq(Packets) /\ Len(r) = Len(q) - 1 /\ Len(q) \in Nat \ {0}
      /\ Head(q) = q[1] /\ q[1] \in Packets
  OBVIOUS
<1>2. \A i \in 1..Len(r) : i + 1 \in 1..Len(q) /\ r[i] = q[i + 1]
  OBVIOUS
<1> HIDE DEF r
<1>3. Elems(q) = Elems(r) \cup {q[1]}
  <2>1. \A i \in 1..Len(q) : i = 1 \/ (i - 1 \in 1..Len(r) /\ q[i] = r[i - 1])
    BY <1>1, <1>2
  <2> QED
    BY <1>1, <1>2, <2>1 DEF Elems
<1>4. Distinct(q) => Distinct(r) /\ \A e \in Elems(r) : e.id # q[1].id
  BY <1>1, <1>2, SMTT(20) DEF Distinct, Elems
<1>5. ASSUME NEW f, NEW c, NEW l, Before(q, f, c, l) PROVE Before(r, f, c, l)
  <2> SUFFICES ASSUME NEW i \in 1..Len(r), NEW j \in 1..Len(r), r[i] = f, r[j].arg = c,
                      ~Excused(r[j], l)
               PROVE  j < i
    BY DEF Before
  <2>1. j + 1 < i + 1
    BY <1>2, <1>5 DEF Before
  <2> QED
    BY <2>1
<1> QED
  BY <1>1, <1>3, <1>4, <1>5 DEF r

\* The packet the rotation started from, back at the head, ends the purge.
LEMMA NoneBefore ==
  ASSUME NEW q \in Seq(Packets), q # <<>>, NEW c, NEW l, Before(q, Head(q), c, l), Head(q).arg # c
  PROVE  \A p \in Elems(q) : p.arg # c \/ Excused(p, l)
BY DEF Elems, Before

LEMMA ElemsType == ASSUME NEW q \in Seq(Packets) PROVE Elems(q) \subseteq Packets
BY DEF Elems

LEMMA EmptyQueue == Elems(<<>>) = {} /\ Distinct(<<>>) /\ <<>> \in Seq(Packets) /\ Len(<<>>) = 0
BY DEF Elems, Distinct

LEMMA NewPacketType ==
  ASSUME nextId \in Nat \ {0}
  PROVE  /\ \A kind \in BackKinds, c \in Clients \cup {NULL} : NewPacket(kind, c) \in Packets
         /\ NewPacket("ACCEPT", Server) \in Packets
         /\ \A c \in Clients : NewPacket("CLEAR", c) \in Packets
BY DEF NewPacket, Packets

LEMMA PacketFacts ==
  ASSUME NEW p \in Packets
  PROVE  /\ p.id \in Nat \ {0} /\ p # NoPacket /\ p \notin AppPlaces
         /\ p.event \in BackKinds \cup FrontKinds
         /\ p.event = "CLEAR" => p.arg \in Clients
         /\ p.event = "ACCEPT" => p.arg = Server
         /\ p.event \in BackKinds => p.arg \in Clients \cup {NULL}
BY DEF Packets, NoPacket, At, AppPlaces, BackKinds, FrontKinds

LEMMA PlaceFacts ==
  /\ \A p \in AppPlaces :
       /\ p.id = 0 /\ p.arg \in AppClosed /\ p \notin Packets /\ p # NoPacket
       /\ p.event \in {"CALL", "API", "NULL"}
  /\ \A step \in {"CALL", "API", "NULL"}, c \in AppClosed :
       At(step, c) \in AppPlaces /\ At(step, c).id = 0 /\ At(step, c).arg = c /\ At(step, c).event = step
<1>1. \A step \in {"CALL", "API", "NULL"}, c \in AppClosed :
         At(step, c) \in AppPlaces /\ At(step, c).id = 0 /\ At(step, c).arg = c /\ At(step, c).event = step
  BY DEF AppPlaces, At
<1>2. ASSUME NEW p \in AppPlaces
      PROVE  p.id = 0 /\ p.arg \in AppClosed /\ p.event \in {"CALL", "API", "NULL"}
  BY DEF AppPlaces, At
<1>3. \A p \in Packets : p.id # 0
  BY DEF Packets
<1> QED
  BY <1>1, <1>2, <1>3 DEF NoPacket

LEMMA InitIInv == Init => IInv
<1> SUFFICES ASSUME Init PROVE IInv
  OBVIOUS
<1>1. TypeOK
  <2>1. queue \in Seq(Packets) /\ Len(queue) <= Capacity /\ snap \in Seq(Packets)
    BY EmptyQueue, CapacityAssumption DEF Init
  <2>2. nextId \in Nat \ {0} /\ closing \in Clients \cup {NULL}
    BY DEF Init
  <2> QED
    BY <2>1, <2>2 DEF Init, TypeOK, Slot
<1>4. NoPacket.id = 0 /\ NoPacket.event = "NONE" /\ NoPacket \notin Packets
  BY DEF NoPacket, Packets
<1>5. TaskHolds /\ TaskCloses /\ OthersHold /\ IdsBelow /\ PacketOwnedOnce
  BY <1>4, EmptyQueue
  DEF Init, TaskHolds, TaskCloses, OthersHold, IdsBelow, PacketOwnedOnce, Rotating
<1>2. Rotation
  BY DEF Init, Rotation, FirstStaysQueued, HeadIsNotFirst, LeftBeforeFirst, Rotating
<1>3. Silence
  BY EmptyQueue, ClientsAssumption
  DEF Init, Silence, ClosingIsQuiet, ForgottenIsQuiet, ClearIsLast, FinIsLast, ErrorIsLast, ClearedIsGone, Excused, Has, Visible, Own, NoPacket
<1> QED
  BY <1>1, <1>2, <1>3, <1>5 DEF IInv, Bookkeeping
-----------------------------------------------------------------------------

\* LwIP calls back for a client that no CLEAR or FIN has closed.
LEMMA StepCallback ==
  ASSUME IInv, NEW c \in Clients, NEW kind \in BackKinds, Callback(kind, c)
  PROVE  IInv'
<1> USE DEF IInv, Bookkeeping, TypeOK, Slot, TaskHolds, TaskCloses, Rotating, Callback, NewPacket, BackKinds, FrontKinds, task, NoPacket
<1>1. (TypeOK /\ TaskHolds /\ TaskCloses /\ OthersHold)'
  BY NewPacketType, PacketFacts, PlaceFacts, ClientsAssumption, CapacityAssumption
  DEF OthersHold
<1>2. IdsBelow'
  BY NewPacketType, PacketFacts, PlaceFacts, ElemsType DEF IdsBelow
<1>3. PacketOwnedOnce'
  BY NewPacketType, PacketFacts, PlaceFacts, ClientsAssumption DEF OthersHold, IdsBelow, PacketOwnedOnce
<1>4. Rotation'
  BY NewPacketType, PacketFacts, PlaceFacts
  DEF OthersHold, PacketOwnedOnce, IdsBelow, Rotation, FirstStaysQueued, HeadIsNotFirst, LeftBeforeFirst, ClearIsLast, Silence, Has, Visible, Own, Excused
<1>a. lwip'.event = kind /\ lwip'.arg = c /\ c # NULL /\ c \in open /\ queue' = queue
  BY ClientsAssumption
<1>b. Visible' = Visible /\ \A k, d : Has(k, d)' <=> Has(k, d)
  BY DEF Has, Visible
<1>c. open' \subseteq open /\ (nulls' <=> kind = "FIN" /\ c \in conn) /\ (kind = "ERROR" \/ nulls' => c \notin open')
  BY <1>a
<1> HIDE DEF Callback
<1>d. UNCHANGED <<task, app, conn>>
  BY DEF Callback
<1>6. ClosingIsQuiet' /\ ForgottenIsQuiet'
  BY <1>a, <1>c, <1>d DEF Silence, ClosingIsQuiet, ForgottenIsQuiet, Own
<1>7. ClearIsLast'
  BY <1>a, <1>b, <1>c, <1>d DEF Silence, ClearIsLast
<1>8. FinIsLast' /\ ErrorIsLast'
  BY <1>a, <1>b, <1>c, <1>d DEF Silence, FinIsLast, ErrorIsLast, ForgottenIsQuiet
<1>9. ClearedIsGone'
  BY <1>a, <1>b, <1>c, <1>d DEF Silence, ClearedIsGone
<1>5. Silence'
  BY <1>6, <1>7, <1>8, <1>9 DEF Silence
<1> QED
  BY <1>1, <1>2, <1>3, <1>4, <1>5

\* _lwip_fin forgets _pcb while it holds the FIN.
LEMMA StepLwipFinNull ==
  ASSUME IInv, LwipFinNull PROVE IInv'
<1> USE DEF IInv, Bookkeeping, TypeOK, Slot, TaskHolds, TaskCloses, Rotating, LwipFinNull, task, NoPacket
<1>1. (TypeOK /\ TaskHolds /\ TaskCloses /\ OthersHold)'
  BY PacketFacts, PlaceFacts, ClientsAssumption, CapacityAssumption
  DEF OthersHold
<1>2. IdsBelow'
  BY PacketFacts, PlaceFacts, ElemsType DEF IdsBelow
<1>3. PacketOwnedOnce'
  BY PacketFacts, PlaceFacts, ClientsAssumption DEF OthersHold, IdsBelow, PacketOwnedOnce
<1>4. Rotation'
  BY PacketFacts, PlaceFacts
  DEF OthersHold, PacketOwnedOnce, IdsBelow, Rotation, FirstStaysQueued, HeadIsNotFirst, LeftBeforeFirst, ClearIsLast, Silence, Has, Visible, Own, Excused
<1>5. Silence'
  BY PacketFacts, PlaceFacts, ClientsAssumption
  DEF OthersHold, Silence, ClosingIsQuiet, ForgottenIsQuiet, ClearIsLast, FinIsLast, ErrorIsLast, ClearedIsGone, Excused, Has, Visible, Own, Rotation, FirstStaysQueued, LeftBeforeFirst
<1> QED
  BY <1>1, <1>2, <1>3, <1>4, <1>5

LEMMA StepDetachedCallback ==
  ASSUME IInv, DetachedCallback PROVE IInv'
<1> USE DEF IInv, Bookkeeping, TypeOK, Slot, TaskHolds, TaskCloses, Rotating, DetachedCallback, NewPacket, BackKinds, FrontKinds, task, NoPacket
<1>1. (TypeOK /\ TaskHolds /\ TaskCloses /\ OthersHold)'
  BY NewPacketType, PacketFacts, PlaceFacts, ClientsAssumption, CapacityAssumption
  DEF OthersHold
<1>2. IdsBelow'
  BY NewPacketType, PacketFacts, PlaceFacts, ElemsType DEF IdsBelow
<1>3. PacketOwnedOnce'
  BY NewPacketType, PacketFacts, PlaceFacts, ClientsAssumption DEF OthersHold, IdsBelow, PacketOwnedOnce
<1>4. Rotation'
  BY NewPacketType, PacketFacts, PlaceFacts
  DEF OthersHold, PacketOwnedOnce, IdsBelow, Rotation, FirstStaysQueued, HeadIsNotFirst, LeftBeforeFirst, ClearIsLast, Silence, Has, Visible, Own, Excused
<1>5. Silence'
  BY NewPacketType, PacketFacts, PlaceFacts, ClientsAssumption
  DEF OthersHold, Silence, ClosingIsQuiet, ForgottenIsQuiet, ClearIsLast, FinIsLast, ErrorIsLast, ClearedIsGone, Excused, Has, Visible, Own, Rotation, FirstStaysQueued, LeftBeforeFirst
<1> QED
  BY <1>1, <1>2, <1>3, <1>4, <1>5

LEMMA StepAcceptCallback ==
  ASSUME IInv, AcceptCallback PROVE IInv'
<1> USE DEF IInv, Bookkeeping, TypeOK, Slot, TaskHolds, TaskCloses, Rotating, AcceptCallback, NewPacket, BackKinds, FrontKinds, task, NoPacket
<1>1. (TypeOK /\ TaskHolds /\ TaskCloses /\ OthersHold)'
  BY NewPacketType, PacketFacts, PlaceFacts, ClientsAssumption, CapacityAssumption
  DEF OthersHold
<1>2. IdsBelow'
  BY NewPacketType, PacketFacts, PlaceFacts, ElemsType DEF IdsBelow
<1>3. PacketOwnedOnce'
  BY NewPacketType, PacketFacts, PlaceFacts, ClientsAssumption DEF OthersHold, IdsBelow, PacketOwnedOnce
<1>4. Rotation'
  BY NewPacketType, PacketFacts, PlaceFacts
  DEF OthersHold, PacketOwnedOnce, IdsBelow, Rotation, FirstStaysQueued, HeadIsNotFirst, LeftBeforeFirst, ClearIsLast, Silence, Has, Visible, Own, Excused
<1>5. Silence'
  BY NewPacketType, PacketFacts, PlaceFacts, ClientsAssumption
  DEF OthersHold, Silence, ClosingIsQuiet, ForgottenIsQuiet, ClearIsLast, FinIsLast, ErrorIsLast, ClearedIsGone, Excused, Has, Visible, Own, Rotation, FirstStaysQueued, LeftBeforeFirst
<1> QED
  BY <1>1, <1>2, <1>3, <1>4, <1>5

\* LwIP's packet goes to the front or to the back.
LEMMA StepCallbackSend ==
  ASSUME IInv, CallbackSend PROVE IInv'
<1> USE DEF IInv, Bookkeeping, TypeOK, Slot, TaskHolds, TaskCloses, Rotating, CallbackSend, task, NoPacket
<1>a. lwip \in Packets /\ queue \in Seq(Packets) /\ Len(queue) < Capacity
  BY CapacityAssumption, PacketFacts, PlaceFacts DEF HasRoom
<1>b. /\ queue' \in Seq(Packets) /\ Len(queue') = Len(queue) + 1
      /\ Elems(queue') = Elems(queue) \cup {lwip} /\ Elems(queue) \subseteq Packets
      /\ Distinct(queue')
      /\ \A f, c, l : Before(queue, f, c, l) /\ lwip # f /\ (lwip.arg # c \/ Excused(lwip, l)) => Before(queue', f, c, l)
      /\ queue # <<>> => Head(queue') \in {Head(queue), lwip}
  BY <1>a, Appending, Prepending DEF PacketOwnedOnce
<1> HIDE DEF CallbackSend
<1>c. lwip' = NoPacket /\ ~nulls /\ UNCHANGED <<nulls, task, app, open, conn, nextId>>
  BY DEF CallbackSend
<1>d. /\ pc \in Rotating => lwip # first /\ queue # <<>>
      /\ pc \in Rotating /\ cur.arg \in Own => lwip.arg # cur.arg \/ Excused(lwip, late)
  <2>1. pc \in Rotating => lwip # first /\ queue # <<>>
    BY <1>a, EmptyQueue DEF PacketOwnedOnce, Rotation, FirstStaysQueued
  <2>2. ASSUME pc \in Rotating, cur.arg \in Own PROVE lwip.arg # cur.arg \/ Excused(lwip, late)
    <3>1. Has("CLEAR", cur.arg)
      BY <2>2 DEF Has, Visible
    <3>2. closing = NULL
      BY <2>2
    <3>3. cur.arg # NULL
      BY <2>2, ClientsAssumption DEF Own
    <3> QED
      BY <2>2, <3>1, <3>2, <3>3 DEF Silence, ClearIsLast
  <2> QED
    BY <2>1, <2>2
<1>1. (TypeOK /\ TaskHolds /\ TaskCloses /\ OthersHold)'
  BY <1>a, <1>b, <1>c, <1>d, PacketFacts, PlaceFacts, ClientsAssumption, CapacityAssumption
  DEF OthersHold
<1>2. IdsBelow'
  BY <1>a, <1>b, <1>c, <1>d, PacketFacts, PlaceFacts, ElemsType DEF IdsBelow
<1>3. PacketOwnedOnce'
  BY <1>a, <1>b, <1>c, <1>d, PacketFacts, PlaceFacts, ClientsAssumption DEF OthersHold, IdsBelow, PacketOwnedOnce
<1>4. Rotation'
  BY <1>a, <1>b, <1>c, <1>d, PacketFacts, PlaceFacts
  DEF OthersHold, PacketOwnedOnce, IdsBelow, Rotation, FirstStaysQueued, HeadIsNotFirst, LeftBeforeFirst, ClearIsLast, Silence, Has, Visible, Own, Excused
<1>5. Silence'
  BY <1>a, <1>b, <1>c, <1>d, PacketFacts, PlaceFacts, ClientsAssumption
  DEF OthersHold, Silence, ClosingIsQuiet, ForgottenIsQuiet, ClearIsLast, FinIsLast, ErrorIsLast, ClearedIsGone, Excused, Has, Visible, Own, Rotation, FirstStaysQueued, LeftBeforeFirst
<1> QED
  BY <1>1, <1>2, <1>3, <1>4, <1>5

\* The task takes the head of the queue.
LEMMA StepGet ==
  ASSUME IInv, Get PROVE IInv'
<1> USE DEF IInv, Bookkeeping, TypeOK, Slot, TaskHolds, TaskCloses, Rotating, Get, task, NoPacket
<1>a. queue \in Seq(Packets) /\ queue # <<>>
  OBVIOUS
<1>b. /\ Head(queue) \in Packets /\ Head(queue) \in Elems(queue)
      /\ queue' \in Seq(Packets) /\ Len(queue') <= Len(queue)
      /\ Elems(queue) = Elems(queue') \cup {Head(queue)}
      /\ Distinct(queue') /\ \A e \in Elems(queue') : e.id # Head(queue).id
      /\ \A f, c, l : Before(queue, f, c, l) => Before(queue', f, c, l)
  BY <1>a, Taking DEF PacketOwnedOnce
<1>1. (TypeOK /\ TaskHolds /\ TaskCloses /\ OthersHold)'
  BY <1>a, <1>b, PacketFacts, PlaceFacts, ClientsAssumption, CapacityAssumption
  DEF OthersHold
<1>2. IdsBelow'
  BY <1>a, <1>b, PacketFacts, PlaceFacts, ElemsType DEF IdsBelow
<1>3. PacketOwnedOnce'
  BY <1>a, <1>b, PacketFacts, PlaceFacts, ClientsAssumption DEF OthersHold, IdsBelow, PacketOwnedOnce
<1>4. Rotation'
  BY <1>a, <1>b, PacketFacts, PlaceFacts
  DEF OthersHold, PacketOwnedOnce, IdsBelow, Rotation, FirstStaysQueued, HeadIsNotFirst, LeftBeforeFirst, ClearIsLast, Silence, Has, Visible, Own, Excused
<1>5. Silence'
  BY <1>a, <1>b, PacketFacts, PlaceFacts, ClientsAssumption
  DEF OthersHold, Silence, ClosingIsQuiet, ForgottenIsQuiet, ClearIsLast, FinIsLast, ErrorIsLast, ClearedIsGone, Excused, Has, Visible, Own, Rotation, FirstStaysQueued, LeftBeforeFirst
<1> QED
  BY <1>1, <1>2, <1>3, <1>4, <1>5

LEMMA StepHandleNull ==
  ASSUME IInv, HandleNull PROVE IInv'
<1> USE DEF IInv, Bookkeeping, TypeOK, Slot, TaskHolds, TaskCloses, Rotating, HandleNull, Handling, ConnInCallback, task, NoPacket
<1>1. (TypeOK /\ TaskHolds /\ TaskCloses /\ OthersHold)'
  BY PacketFacts, PlaceFacts, ClientsAssumption, CapacityAssumption
  DEF OthersHold
<1>2. IdsBelow'
  BY PacketFacts, PlaceFacts, ElemsType DEF IdsBelow
<1>3. PacketOwnedOnce'
  BY PacketFacts, PlaceFacts, ClientsAssumption DEF OthersHold, IdsBelow, PacketOwnedOnce
<1>4. Rotation'
  BY PacketFacts, PlaceFacts
  DEF OthersHold, PacketOwnedOnce, IdsBelow, Rotation, FirstStaysQueued, HeadIsNotFirst, LeftBeforeFirst, ClearIsLast, Silence, Has, Visible, Own, Excused
<1>5. Silence'
  BY PacketFacts, PlaceFacts, ClientsAssumption
  DEF OthersHold, Silence, ClosingIsQuiet, ForgottenIsQuiet, ClearIsLast, FinIsLast, ErrorIsLast, ClearedIsGone, Excused, Has, Visible, Own, Rotation, FirstStaysQueued, LeftBeforeFirst
<1> QED
  BY <1>1, <1>2, <1>3, <1>4, <1>5

LEMMA StepHandleCallback ==
  ASSUME IInv, HandleCallback PROVE IInv'
<1> USE DEF IInv, Bookkeeping, TypeOK, Slot, TaskHolds, TaskCloses, Rotating, HandleCallback, Handling, ConnInCallback, task, NoPacket
<1>1. (TypeOK /\ TaskHolds /\ TaskCloses /\ OthersHold)'
  BY PacketFacts, PlaceFacts, ClientsAssumption, CapacityAssumption
  DEF OthersHold
<1>2. IdsBelow'
  BY PacketFacts, PlaceFacts, ElemsType DEF IdsBelow
<1>3. PacketOwnedOnce'
  BY PacketFacts, PlaceFacts, ClientsAssumption DEF OthersHold, IdsBelow, PacketOwnedOnce
<1>4. Rotation'
  BY PacketFacts, PlaceFacts
  DEF OthersHold, PacketOwnedOnce, IdsBelow, Rotation, FirstStaysQueued, HeadIsNotFirst, LeftBeforeFirst, ClearIsLast, Silence, Has, Visible, Own, Excused
<1>5. Silence'
  BY PacketFacts, PlaceFacts, ClientsAssumption
  DEF OthersHold, Silence, ClosingIsQuiet, ForgottenIsQuiet, ClearIsLast, FinIsLast, ErrorIsLast, ClearedIsGone, Excused, Has, Visible, Own, Rotation, FirstStaysQueued, LeftBeforeFirst
<1> QED
  BY <1>1, <1>2, <1>3, <1>4, <1>5

LEMMA StepHandleCallbackApi ==
  ASSUME IInv, HandleCallbackApi PROVE IInv'
<1> USE DEF IInv, Bookkeeping, TypeOK, Slot, TaskHolds, TaskCloses, Rotating, HandleCallbackApi, Handling, ConnInCallback, task, NoPacket
<1>1. (TypeOK /\ TaskHolds /\ TaskCloses /\ OthersHold)'
  BY PacketFacts, PlaceFacts, ClientsAssumption, CapacityAssumption
  DEF OthersHold
<1>2. IdsBelow'
  BY PacketFacts, PlaceFacts, ElemsType DEF IdsBelow
<1>3. PacketOwnedOnce'
  BY PacketFacts, PlaceFacts, ClientsAssumption DEF OthersHold, IdsBelow, PacketOwnedOnce
<1>4. Rotation'
  BY PacketFacts, PlaceFacts
  DEF OthersHold, PacketOwnedOnce, IdsBelow, Rotation, FirstStaysQueued, HeadIsNotFirst, LeftBeforeFirst, ClearIsLast, Silence, Has, Visible, Own, Excused
<1>5. Silence'
  BY PacketFacts, PlaceFacts, ClientsAssumption
  DEF OthersHold, Silence, ClosingIsQuiet, ForgottenIsQuiet, ClearIsLast, FinIsLast, ErrorIsLast, ClearedIsGone, Excused, Has, Visible, Own, Rotation, FirstStaysQueued, LeftBeforeFirst
<1> QED
  BY <1>1, <1>2, <1>3, <1>4, <1>5

\* A close() on the async task: from here on no callback names the client.
LEMMA StepHandleCallbackClose ==
  ASSUME IInv, NEW c \in Clients, HandleCallbackClose(c)
  PROVE  IInv'
<1> USE DEF IInv, Bookkeeping, TypeOK, Slot, TaskHolds, TaskCloses, Rotating, HandleCallbackClose, Handling, ConnInCallback, NewPacket, BackKinds, task, NoPacket
<1>1. (TypeOK /\ TaskHolds /\ TaskCloses /\ OthersHold)'
  BY NewPacketType, PacketFacts, PlaceFacts, ClientsAssumption, CapacityAssumption
  DEF OthersHold
<1>2. IdsBelow'
  BY NewPacketType, PacketFacts, PlaceFacts, ElemsType DEF IdsBelow
<1>3. PacketOwnedOnce'
  BY NewPacketType, PacketFacts, PlaceFacts, ClientsAssumption DEF OthersHold, IdsBelow, PacketOwnedOnce
<1>4. Rotation'
  BY NewPacketType, PacketFacts, PlaceFacts
  DEF OthersHold, PacketOwnedOnce, IdsBelow, Rotation, FirstStaysQueued, HeadIsNotFirst, LeftBeforeFirst, ClearIsLast, Silence, Has, Visible, Own, Excused
<1>5. Silence'
  BY NewPacketType, PacketFacts, PlaceFacts, ClientsAssumption
  DEF OthersHold, Silence, ClosingIsQuiet, ForgottenIsQuiet, ClearIsLast, FinIsLast, ErrorIsLast, ClearedIsGone, Excused, Has, Visible, Own, Rotation, FirstStaysQueued, LeftBeforeFirst
<1> QED
  BY <1>1, <1>2, <1>3, <1>4, <1>5

\* _fin: the FIN was the last packet LwIP made for the client.
LEMMA StepHandleFin ==
  ASSUME IInv, HandleFin PROVE IInv'
<1> USE DEF IInv, Bookkeeping, TypeOK, Slot, TaskHolds, TaskCloses, Rotating, HandleFin, Handling, NewPacket, BackKinds, task, NoPacket
<1>1. (TypeOK /\ TaskHolds /\ TaskCloses /\ OthersHold)'
  BY NewPacketType, PacketFacts, PlaceFacts, ClientsAssumption, CapacityAssumption
  DEF OthersHold
<1>2. IdsBelow'
  BY NewPacketType, PacketFacts, PlaceFacts, ElemsType DEF IdsBelow
<1>3. PacketOwnedOnce'
  BY NewPacketType, PacketFacts, PlaceFacts, ClientsAssumption DEF OthersHold, IdsBelow, PacketOwnedOnce
<1>4. Rotation'
  BY NewPacketType, PacketFacts, PlaceFacts
  DEF OthersHold, PacketOwnedOnce, IdsBelow, Rotation, FirstStaysQueued, HeadIsNotFirst, LeftBeforeFirst, ClearIsLast, Silence, Has, Visible, Own, Excused
<1>5. Silence'
  BY NewPacketType, PacketFacts, PlaceFacts, ClientsAssumption
  DEF OthersHold, Silence, ClosingIsQuiet, ForgottenIsQuiet, ClearIsLast, FinIsLast, ErrorIsLast, ClearedIsGone, Excused, Has, Visible, Own, Rotation, FirstStaysQueued, LeftBeforeFirst
<1> QED
  BY <1>1, <1>2, <1>3, <1>4, <1>5

\* The task's CLEAR goes to the front.
LEMMA StepPrepend ==
  ASSUME IInv, Prepend PROVE IInv'
<1> USE DEF IInv, Bookkeeping, TypeOK, Slot, TaskHolds, TaskCloses, Rotating, Prepend, task, NoPacket
<1>a. hand \in Packets /\ queue \in Seq(Packets) /\ Len(queue) < Capacity
  BY CapacityAssumption, PacketFacts, PlaceFacts DEF HasRoom
<1>b. /\ queue' \in Seq(Packets) /\ Len(queue') = Len(queue) + 1
      /\ Elems(queue') = Elems(queue) \cup {hand} /\ Elems(queue) \subseteq Packets
      /\ Distinct(queue')
      /\ \A f, c, l : Before(queue, f, c, l) /\ hand # f => Before(queue', f, c, l)
      /\ Head(queue') = hand
  BY <1>a, Prepending, PacketFacts, PlaceFacts DEF PacketOwnedOnce
<1>1. (TypeOK /\ TaskHolds /\ TaskCloses /\ OthersHold)'
  BY <1>a, <1>b, PacketFacts, PlaceFacts, ClientsAssumption, CapacityAssumption
  DEF OthersHold
<1>2. IdsBelow'
  BY <1>a, <1>b, PacketFacts, PlaceFacts, ElemsType DEF IdsBelow
<1>3. PacketOwnedOnce'
  <2>1. UNCHANGED <<lwip, app>> /\ hand'.id = 0 /\ cur'.id \in {0, cur.id} /\ hand.id # 0
    BY <1>a, PacketFacts
  <2> HIDE DEF Prepend, TypeOK, TaskHolds, TaskCloses
  <2>2. \A p \in Elems(queue') : p.id # 0
    BY <1>a, <1>b, PacketFacts
  <2> QED
    BY <1>b, <2>1, <2>2 DEF PacketOwnedOnce
<1>4. Rotation'
  BY <1>a, <1>b, PacketFacts, PlaceFacts
  DEF OthersHold, PacketOwnedOnce, IdsBelow, Rotation, FirstStaysQueued, HeadIsNotFirst, LeftBeforeFirst, ClearIsLast, Silence, Has, Visible, Own, Excused
<1>c. /\ UNCHANGED <<lwip, nulls, closing, open, conn, cleared, late>>
      /\ pc' # "null" /\ hand.event = "CLEAR" /\ hand.arg \in Clients
      /\ closing # NULL => hand.arg = closing
      /\ Visible' \subseteq Visible \cup {NoPacket}
  BY <1>a, <1>b, PacketFacts DEF Visible
<1> HIDE DEF Prepend, TaskHolds, TaskCloses, Rotating
<1>d. NoPacket.event = "NONE" /\ NoPacket.arg = NULL /\ NULL \notin Own
  BY ClientsAssumption DEF Own
<1> HIDE DEF NoPacket
<1>e. \A d : \A k \in {"CLEAR", "FIN", "ERROR"} : Has(k, d)' => Has(k, d)
  BY <1>c, <1>d DEF Has
<1>5. Silence'
  <2>1. ClosingIsQuiet' /\ ForgottenIsQuiet'
    BY <1>c DEF Silence, ClosingIsQuiet, ForgottenIsQuiet
  <2>2. ClearIsLast'
    BY <1>c, <1>e DEF Silence, ClearIsLast
  <2>3. FinIsLast' /\ ErrorIsLast'
    BY <1>c, <1>e DEF Silence, FinIsLast, ErrorIsLast
  <2>4. ClearedIsGone'
    BY <1>c, <1>d DEF Silence, ClearedIsGone
  <2> QED
    BY <2>1, <2>2, <2>3, <2>4 DEF Silence
<1> QED
  BY <1>1, <1>2, <1>3, <1>4, <1>5

\* The tcpip thread has nothing in flight when it answers the task.
LEMMA StepApiReturn ==
  ASSUME IInv, ApiReturn PROVE IInv'
<1> USE DEF IInv, Bookkeeping, TypeOK, Slot, TaskHolds, TaskCloses, Rotating, ApiReturn, task, NoPacket
<1>1. (TypeOK /\ TaskHolds /\ TaskCloses /\ OthersHold)'
  BY PacketFacts, PlaceFacts, ClientsAssumption, CapacityAssumption
  DEF OthersHold
<1>2. IdsBelow'
  BY PacketFacts, PlaceFacts, ElemsType DEF IdsBelow
<1>3. PacketOwnedOnce'
  BY PacketFacts, PlaceFacts, ClientsAssumption DEF OthersHold, IdsBelow, PacketOwnedOnce
<1>4. Rotation'
  BY PacketFacts, PlaceFacts
  DEF OthersHold, PacketOwnedOnce, IdsBelow, Rotation, FirstStaysQueued, HeadIsNotFirst, LeftBeforeFirst, ClearIsLast, Silence, Has, Visible, Own, Excused
<1>5. Silence'
  BY PacketFacts, PlaceFacts, ClientsAssumption
  DEF OthersHold, Silence, ClosingIsQuiet, ForgottenIsQuiet, ClearIsLast, FinIsLast, ErrorIsLast, ClearedIsGone, Excused, Has, Visible, Own, Rotation, FirstStaysQueued, LeftBeforeFirst
<1> QED
  BY <1>1, <1>2, <1>3, <1>4, <1>5

\* _tcp_close finds _pcb, or a FIN the tcpip thread may still be sending.
LEMMA StepCloseCall ==
  ASSUME IInv, CloseCall PROVE IInv'
<1> USE DEF IInv, Bookkeeping, TypeOK, Slot, TaskHolds, TaskCloses, Rotating, CloseCall, task, NoPacket
<1>1. (TypeOK /\ TaskHolds /\ TaskCloses /\ OthersHold)'
  BY PacketFacts, PlaceFacts, ClientsAssumption, CapacityAssumption
  DEF OthersHold
<1>2. IdsBelow'
  BY PacketFacts, PlaceFacts, ElemsType DEF IdsBelow
<1>3. PacketOwnedOnce'
  BY PacketFacts, PlaceFacts, ClientsAssumption DEF OthersHold, IdsBelow, PacketOwnedOnce
<1>4. Rotation'
  BY PacketFacts, PlaceFacts
  DEF OthersHold, PacketOwnedOnce, IdsBelow, Rotation, FirstStaysQueued, HeadIsNotFirst, LeftBeforeFirst, ClearIsLast, Silence, Has, Visible, Own, Excused
<1>5. Silence'
  BY PacketFacts, PlaceFacts, ClientsAssumption
  DEF OthersHold, Silence, ClosingIsQuiet, ForgottenIsQuiet, ClearIsLast, FinIsLast, ErrorIsLast, ClearedIsGone, Excused, Has, Visible, Own, Rotation, FirstStaysQueued, LeftBeforeFirst
<1> QED
  BY <1>1, <1>2, <1>3, <1>4, <1>5

\* _close forgets _pcb: all that was sent for the client is queued.
LEMMA StepCloseNull ==
  ASSUME IInv, CloseNull PROVE IInv'
<1> USE DEF IInv, Bookkeeping, TypeOK, Slot, TaskHolds, TaskCloses, Rotating, CloseNull, task, NoPacket
<1>1. (TypeOK /\ TaskHolds /\ TaskCloses /\ OthersHold)'
  BY PacketFacts, PlaceFacts, ClientsAssumption, CapacityAssumption
  DEF OthersHold
<1>2. IdsBelow'
  BY PacketFacts, PlaceFacts, ElemsType DEF IdsBelow
<1>3. PacketOwnedOnce'
  BY PacketFacts, PlaceFacts, ClientsAssumption DEF OthersHold, IdsBelow, PacketOwnedOnce
<1>4. Rotation'
  BY PacketFacts, PlaceFacts
  DEF OthersHold, PacketOwnedOnce, IdsBelow, Rotation, FirstStaysQueued, HeadIsNotFirst, LeftBeforeFirst, ClearIsLast, Silence, Has, Visible, Own, Excused
<1>5. Silence'
  BY PacketFacts, PlaceFacts, ClientsAssumption
  DEF OthersHold, Silence, ClosingIsQuiet, ForgottenIsQuiet, ClearIsLast, FinIsLast, ErrorIsLast, ClearedIsGone, Excused, Has, Visible, Own, Rotation, FirstStaysQueued, LeftBeforeFirst
<1> QED
  BY <1>1, <1>2, <1>3, <1>4, <1>5

LEMMA StepHandleClear ==
  ASSUME IInv, HandleClear PROVE IInv'
<1> USE DEF IInv, Bookkeeping, TypeOK, Slot, TaskHolds, TaskCloses, Rotating, HandleClear, Handling, task, NoPacket
<1>1. (TypeOK /\ TaskHolds /\ TaskCloses /\ OthersHold)'
  BY PacketFacts, PlaceFacts, ClientsAssumption, CapacityAssumption
  DEF OthersHold
<1>2. IdsBelow'
  BY PacketFacts, PlaceFacts, ElemsType DEF IdsBelow
<1>3. PacketOwnedOnce'
  BY PacketFacts, PlaceFacts, ClientsAssumption DEF OthersHold, IdsBelow, PacketOwnedOnce
<1>4. Rotation'
  BY PacketFacts, PlaceFacts
  DEF OthersHold, PacketOwnedOnce, IdsBelow, Rotation, FirstStaysQueued, HeadIsNotFirst, LeftBeforeFirst, ClearIsLast, Silence, Has, Visible, Own, Excused
<1>5. Silence'
  BY PacketFacts, PlaceFacts, ClientsAssumption
  DEF OthersHold, Silence, ClosingIsQuiet, ForgottenIsQuiet, ClearIsLast, FinIsLast, ErrorIsLast, ClearedIsGone, Excused, Has, Visible, Own, Rotation, FirstStaysQueued, LeftBeforeFirst
<1> QED
  BY <1>1, <1>2, <1>3, <1>4, <1>5

\* The removal ends at once when only packets of the client were queued.
LEMMA StepFindFirst ==
  ASSUME IInv, FindFirst PROVE IInv'
<1> USE DEF IInv, Bookkeeping, TypeOK, Slot, TaskHolds, TaskCloses, Rotating, FindFirst, RemovalDone, task, NoPacket
<1>a. queue \in Seq(Packets) /\ cur \in Packets /\ cur.event = "CLEAR" /\ cur.arg \in Clients
  BY PacketFacts, PlaceFacts
<1>b. queue # <<>> =>
        /\ Head(queue) \in Packets /\ Head(queue) \in Elems(queue)
        /\ queue' \in Seq(Packets) /\ Len(queue') <= Len(queue)
        /\ Elems(queue) = Elems(queue') \cup {Head(queue)}
        /\ Distinct(queue') /\ \A e \in Elems(queue') : e.id # Head(queue).id
        /\ \A f, c, l : Before(queue, f, c, l) => Before(queue', f, c, l)
  <2> HAVE queue # <<>>
  <2>1. queue' = Tail(queue)
    OBVIOUS
  <2> HIDE DEF FindFirst
  <2> QED
    BY <1>a, <2>1, Taking DEF PacketOwnedOnce
<1>c. queue = <<>> => Elems(queue) = {}
  BY EmptyQueue
<1>1. (TypeOK /\ TaskHolds /\ TaskCloses /\ OthersHold)'
  BY <1>a, <1>b, <1>c, PacketFacts, PlaceFacts, ClientsAssumption, CapacityAssumption
  DEF OthersHold
<1>2. IdsBelow'
  BY <1>a, <1>b, <1>c, PacketFacts, PlaceFacts, ElemsType DEF IdsBelow
<1>3. PacketOwnedOnce'
  BY <1>a, <1>b, <1>c, PacketFacts, PlaceFacts, ClientsAssumption DEF OthersHold, IdsBelow, PacketOwnedOnce
<1>4. Rotation'
  BY <1>a, <1>b, <1>c, PacketFacts, PlaceFacts
  DEF OthersHold, PacketOwnedOnce, IdsBelow, Rotation, FirstStaysQueued, HeadIsNotFirst, LeftBeforeFirst, ClearIsLast, Silence, Has, Visible, Own, Excused
<1>5. Silence'
  BY <1>a, <1>b, <1>c, PacketFacts, PlaceFacts, ClientsAssumption
  DEF OthersHold, Silence, ClosingIsQuiet, ForgottenIsQuiet, ClearIsLast, FinIsLast, ErrorIsLast, ClearedIsGone, Excused, Has, Visible, Own, Rotation, FirstStaysQueued, LeftBeforeFirst
<1> QED
  BY <1>1, <1>2, <1>3, <1>4, <1>5

\* The first packet goes to the back, behind all that is to be purged.
LEMMA StepRequeueFirst ==
  ASSUME IInv, RequeueFirst PROVE IInv'
<1> USE DEF IInv, Bookkeeping, TypeOK, Slot, TaskHolds, TaskCloses, Rotating, RequeueFirst, SendBack, task, NoPacket
<1>a. hand \in Packets /\ queue \in Seq(Packets) /\ Len(queue) < Capacity
  BY CapacityAssumption, PacketFacts, PlaceFacts DEF HasRoom
<1>b. /\ queue' \in Seq(Packets) /\ Len(queue') = Len(queue) + 1
      /\ Elems(queue') = Elems(queue) \cup {hand} /\ Elems(queue) \subseteq Packets
      /\ Distinct(queue')
      /\ \A f, c, l : Before(queue, f, c, l) /\ (hand.arg # c \/ Excused(hand, l)) => Before(queue', f, c, l)
  BY <1>a, Appending, PacketFacts, PlaceFacts DEF PacketOwnedOnce
<1>c. Before(queue, hand, cur.arg, late)
  BY <1>a DEF Before, Elems, PacketOwnedOnce
<1>1. (TypeOK /\ TaskHolds /\ TaskCloses /\ OthersHold)'
  BY <1>a, <1>b, <1>c, PacketFacts, PlaceFacts, ClientsAssumption, CapacityAssumption
  DEF OthersHold
<1>2. IdsBelow'
  BY <1>a, <1>b, <1>c, PacketFacts, PlaceFacts, ElemsType DEF IdsBelow
<1>3. PacketOwnedOnce'
  BY <1>a, <1>b, <1>c, PacketFacts, PlaceFacts, ClientsAssumption DEF OthersHold, IdsBelow, PacketOwnedOnce
<1>4. Rotation'
  BY <1>a, <1>b, <1>c, PacketFacts, PlaceFacts
  DEF OthersHold, PacketOwnedOnce, IdsBelow, Rotation, FirstStaysQueued, HeadIsNotFirst, LeftBeforeFirst, ClearIsLast, Silence, Has, Visible, Own, Excused
<1>5. Silence'
  BY <1>a, <1>b, <1>c, PacketFacts, PlaceFacts, ClientsAssumption
  DEF OthersHold, Silence, ClosingIsQuiet, ForgottenIsQuiet, ClearIsLast, FinIsLast, ErrorIsLast, ClearedIsGone, Excused, Has, Visible, Own, Rotation, FirstStaysQueued, LeftBeforeFirst
<1> QED
  BY <1>1, <1>2, <1>3, <1>4, <1>5

\* With the first packet at the head again, nothing of the client is left.
LEMMA StepScan ==
  ASSUME IInv, Scan PROVE IInv'
<1> USE DEF IInv, Bookkeeping, TypeOK, Slot, TaskHolds, TaskCloses, Rotating, Scan, RemovalDone, task, NoPacket
<1>a. queue \in Seq(Packets) /\ cur \in Packets /\ cur.event = "CLEAR" /\ cur.arg \in Clients
  BY PacketFacts, PlaceFacts
<1>b. queue # <<>> /\ <<>> \in Seq(Packets)
  BY EmptyQueue DEF Rotation, FirstStaysQueued
<1>c. pc' = "get" /\ cur.arg \in Own => \A p \in Elems(queue) : p.arg # cur.arg \/ Excused(p, late)
  BY <1>a, <1>b, NoneBefore DEF Rotation, LeftBeforeFirst
<1>1. (TypeOK /\ TaskHolds /\ TaskCloses /\ OthersHold)'
  <2>1. TypeOK'
    BY <1>a, <1>b
  <2>2. (TaskHolds /\ TaskCloses)'
    BY <1>a, <1>b, PacketFacts
  <2>3. OthersHold'
    BY DEF OthersHold
  <2> QED
    BY <2>1, <2>2, <2>3
<1>2. IdsBelow'
  BY <1>a, <1>b, <1>c, PacketFacts, PlaceFacts, ElemsType DEF IdsBelow
<1>3. PacketOwnedOnce'
  BY <1>a, <1>b, <1>c, PacketFacts, PlaceFacts, ClientsAssumption DEF OthersHold, IdsBelow, PacketOwnedOnce
<1>4. Rotation'
  BY <1>a, <1>b, <1>c, PacketFacts, PlaceFacts
  DEF OthersHold, PacketOwnedOnce, IdsBelow, Rotation, FirstStaysQueued, HeadIsNotFirst, LeftBeforeFirst, ClearIsLast, Silence, Has, Visible, Own, Excused
<1>5. Silence'
  BY <1>a, <1>b, <1>c, PacketFacts, PlaceFacts, ClientsAssumption
  DEF OthersHold, Silence, ClosingIsQuiet, ForgottenIsQuiet, ClearIsLast, FinIsLast, ErrorIsLast, ClearedIsGone, Excused, Has, Visible, Own, Rotation, FirstStaysQueued, LeftBeforeFirst
<1> QED
  BY <1>1, <1>2, <1>3, <1>4, <1>5

\* A packet of the cleared client is freed, another one kept in hand.
LEMMA StepTake ==
  ASSUME IInv, Take PROVE IInv'
<1> USE DEF IInv, Bookkeeping, TypeOK, Slot, TaskHolds, TaskCloses, Rotating, Take, RemovalDone, task, NoPacket
<1>a. queue \in Seq(Packets) /\ cur \in Packets /\ cur.event = "CLEAR" /\ cur.arg \in Clients
  BY PacketFacts, PlaceFacts
<1>b. /\ queue # <<>>
      /\ Head(queue) \in Packets /\ Head(queue) \in Elems(queue)
      /\ queue' \in Seq(Packets) /\ Len(queue') <= Len(queue)
      /\ Elems(queue) = Elems(queue') \cup {Head(queue)}
      /\ Distinct(queue') /\ \A e \in Elems(queue') : e.id # Head(queue).id
      /\ \A f, c, l : Before(queue, f, c, l) => Before(queue', f, c, l)
  <2>1. queue # <<>>
    BY EmptyQueue DEF Rotation, FirstStaysQueued
  <2>2. queue' = Tail(queue)
    BY <2>1
  <2> HIDE DEF Take
  <2> QED
    BY <1>a, <2>1, <2>2, Taking DEF PacketOwnedOnce
<1>1. (TypeOK /\ TaskHolds /\ TaskCloses /\ OthersHold)'
  BY <1>a, <1>b, PacketFacts, PlaceFacts, ClientsAssumption, CapacityAssumption
  DEF OthersHold
<1>2. IdsBelow'
  BY <1>a, <1>b, PacketFacts, PlaceFacts, ElemsType DEF IdsBelow
<1>3. PacketOwnedOnce'
  BY <1>a, <1>b, PacketFacts, PlaceFacts, ClientsAssumption DEF OthersHold, IdsBelow, PacketOwnedOnce
<1>4. Rotation'
  BY <1>a, <1>b, PacketFacts, PlaceFacts
  DEF OthersHold, PacketOwnedOnce, IdsBelow, Rotation, FirstStaysQueued, HeadIsNotFirst, LeftBeforeFirst, ClearIsLast, Silence, Has, Visible, Own, Excused
<1>5. Silence'
  BY <1>a, <1>b, PacketFacts, PlaceFacts, ClientsAssumption
  DEF OthersHold, Silence, ClosingIsQuiet, ForgottenIsQuiet, ClearIsLast, FinIsLast, ErrorIsLast, ClearedIsGone, Excused, Has, Visible, Own, Rotation, FirstStaysQueued, LeftBeforeFirst
<1> QED
  BY <1>1, <1>2, <1>3, <1>4, <1>5

\* A packet of another client goes to the back.
LEMMA StepRequeue ==
  ASSUME IInv, Requeue PROVE IInv'
<1> USE DEF IInv, Bookkeeping, TypeOK, Slot, TaskHolds, TaskCloses, Rotating, Requeue, SendBack, task, NoPacket
<1>a. hand \in Packets /\ queue \in Seq(Packets) /\ Len(queue) < Capacity
  BY CapacityAssumption, PacketFacts, PlaceFacts DEF HasRoom
<1>b. /\ queue' \in Seq(Packets) /\ Len(queue') = Len(queue) + 1
      /\ Elems(queue') = Elems(queue) \cup {hand} /\ Elems(queue) \subseteq Packets
      /\ Distinct(queue')
      /\ \A f, c, l : Before(queue, f, c, l) /\ (hand.arg # c \/ Excused(hand, l)) => Before(queue', f, c, l)
  BY <1>a, Appending, PacketFacts, PlaceFacts DEF PacketOwnedOnce
<1>1. (TypeOK /\ TaskHolds /\ TaskCloses /\ OthersHold)'
  BY <1>a, <1>b, PacketFacts, PlaceFacts, ClientsAssumption, CapacityAssumption
  DEF OthersHold
<1>2. IdsBelow'
  BY <1>a, <1>b, PacketFacts, PlaceFacts, ElemsType DEF IdsBelow
<1>3. PacketOwnedOnce'
  BY <1>a, <1>b, PacketFacts, PlaceFacts, ClientsAssumption DEF OthersHold, IdsBelow, PacketOwnedOnce
<1>4. Rotation'
  BY <1>a, <1>b, PacketFacts, PlaceFacts
  DEF OthersHold, PacketOwnedOnce, IdsBelow, Rotation, FirstStaysQueued, HeadIsNotFirst, LeftBeforeFirst, ClearIsLast, Silence, Has, Visible, Own, Excused
<1>5. Silence'
  BY <1>a, <1>b, PacketFacts, PlaceFacts, ClientsAssumption
  DEF OthersHold, Silence, ClosingIsQuiet, ForgottenIsQuiet, ClearIsLast, FinIsLast, ErrorIsLast, ClearedIsGone, Excused, Has, Visible, Own, Rotation, FirstStaysQueued, LeftBeforeFirst
<1> QED
  BY <1>1, <1>2, <1>3, <1>4, <1>5

\* The loop task closes clients of its own only.
LEMMA StepAppClose ==
  ASSUME IInv, NEW c \in Clients, AppClose(c)
  PROVE  IInv'
<1> USE DEF IInv, Bookkeeping, TypeOK, Slot, TaskHolds, TaskCloses, Rotating, AppClose, NewPacket, BackKinds, task, NoPacket
<1>1. (TypeOK /\ TaskHolds /\ TaskCloses /\ OthersHold)'
  BY NewPacketType, PacketFacts, PlaceFacts, ClientsAssumption, CapacityAssumption
  DEF OthersHold
<1>2. IdsBelow'
  BY NewPacketType, PacketFacts, PlaceFacts, ElemsType DEF IdsBelow
<1>3. PacketOwnedOnce'
  BY NewPacketType, PacketFacts, PlaceFacts, ClientsAssumption DEF OthersHold, IdsBelow, PacketOwnedOnce
<1>4. Rotation'
  BY NewPacketType, PacketFacts, PlaceFacts
  DEF OthersHold, PacketOwnedOnce, IdsBelow, Rotation, FirstStaysQueued, HeadIsNotFirst, LeftBeforeFirst, ClearIsLast, Silence, Has, Visible, Own, Excused
<1>5. Silence'
  BY NewPacketType, PacketFacts, PlaceFacts, ClientsAssumption
  DEF OthersHold, Silence, ClosingIsQuiet, ForgottenIsQuiet, ClearIsLast, FinIsLast, ErrorIsLast, ClearedIsGone, Excused, Has, Visible, Own, Rotation, FirstStaysQueued, LeftBeforeFirst
<1> QED
  BY <1>1, <1>2, <1>3, <1>4, <1>5

\* The loop task's CLEAR goes to the front.
LEMMA StepAppPrepend ==
  ASSUME IInv, AppPrepend PROVE IInv'
<1> USE DEF IInv, Bookkeeping, TypeOK, Slot, TaskHolds, TaskCloses, Rotating, AppPrepend, task, NoPacket
<1>a. /\ app \in Packets /\ queue \in Seq(Packets) /\ Len(queue) < Capacity
      /\ app'.id = 0 /\ app' \in AppPlaces
  BY CapacityAssumption, PacketFacts, PlaceFacts DEF HasRoom, OthersHold
<1>b. /\ queue' \in Seq(Packets) /\ Len(queue') = Len(queue) + 1
      /\ Elems(queue') = Elems(queue) \cup {app} /\ Elems(queue) \subseteq Packets
      /\ Distinct(queue')
      /\ \A f, c, l : Before(queue, f, c, l) /\ app # f => Before(queue', f, c, l)
      /\ Head(queue') = app
  BY <1>a, Prepending, PacketFacts, PlaceFacts DEF PacketOwnedOnce
<1>1. (TypeOK /\ TaskHolds /\ TaskCloses /\ OthersHold)'
  BY <1>a, <1>b, PacketFacts, PlaceFacts, ClientsAssumption, CapacityAssumption
  DEF OthersHold
<1>2. IdsBelow'
  BY <1>a, <1>b, PacketFacts, PlaceFacts, ElemsType DEF IdsBelow
<1>3. PacketOwnedOnce'
  BY <1>a, <1>b, PacketFacts, PlaceFacts, ClientsAssumption DEF OthersHold, IdsBelow, PacketOwnedOnce
<1>4. Rotation'
  BY <1>a, <1>b, PacketFacts, PlaceFacts
  DEF OthersHold, PacketOwnedOnce, IdsBelow, Rotation, FirstStaysQueued, HeadIsNotFirst, LeftBeforeFirst, ClearIsLast, Silence, Has, Visible, Own, Excused
<1>5. Silence'
  BY <1>a, <1>b, PacketFacts, PlaceFacts, ClientsAssumption
  DEF OthersHold, Silence, ClosingIsQuiet, ForgottenIsQuiet, ClearIsLast, FinIsLast, ErrorIsLast, ClearedIsGone, Excused, Has, Visible, Own, Rotation, FirstStaysQueued, LeftBeforeFirst
<1> QED
  BY <1>1, <1>2, <1>3, <1>4, <1>5

LEMMA StepAppCall ==
  ASSUME IInv, AppCall PROVE IInv'
<1> USE DEF IInv, Bookkeeping, TypeOK, Slot, TaskHolds, TaskCloses, Rotating, AppCall, task, NoPacket
<1>a. app \in AppPlaces
  BY PacketFacts DEF BackKinds, FrontKinds
<1>1. (TypeOK /\ TaskHolds /\ TaskCloses /\ OthersHold)'
  BY <1>a, PacketFacts, PlaceFacts, ClientsAssumption, CapacityAssumption
  DEF OthersHold
<1>2. IdsBelow'
  BY <1>a, PacketFacts, PlaceFacts, ElemsType DEF IdsBelow
<1>3. PacketOwnedOnce'
  BY <1>a, PacketFacts, PlaceFacts, ClientsAssumption DEF OthersHold, IdsBelow, PacketOwnedOnce
<1>4. Rotation'
  BY <1>a, PacketFacts, PlaceFacts
  DEF OthersHold, PacketOwnedOnce, IdsBelow, Rotation, FirstStaysQueued, HeadIsNotFirst, LeftBeforeFirst, ClearIsLast, Silence, Has, Visible, Own, Excused
<1>5. Silence'
  BY <1>a, PacketFacts, PlaceFacts, ClientsAssumption
  DEF OthersHold, Silence, ClosingIsQuiet, ForgottenIsQuiet, ClearIsLast, FinIsLast, ErrorIsLast, ClearedIsGone, Excused, Has, Visible, Own, Rotation, FirstStaysQueued, LeftBeforeFirst
<1> QED
  BY <1>1, <1>2, <1>3, <1>4, <1>5

LEMMA StepAppApiReturn ==
  ASSUME IInv, AppApiReturn PROVE IInv'
<1> USE DEF IInv, Bookkeeping, TypeOK, Slot, TaskHolds, TaskCloses, Rotating, AppApiReturn, task, NoPacket
<1>a. app \in AppPlaces
  BY PacketFacts DEF BackKinds, FrontKinds
<1>1. (TypeOK /\ TaskHolds /\ TaskCloses /\ OthersHold)'
  BY <1>a, PacketFacts, PlaceFacts, ClientsAssumption, CapacityAssumption
  DEF OthersHold
<1>2. IdsBelow'
  BY <1>a, PacketFacts, PlaceFacts, ElemsType DEF IdsBelow
<1>3. PacketOwnedOnce'
  BY <1>a, PacketFacts, PlaceFacts, ClientsAssumption DEF OthersHold, IdsBelow, PacketOwnedOnce
<1>4. Rotation'
  BY <1>a, PacketFacts, PlaceFacts
  DEF OthersHold, PacketOwnedOnce, IdsBelow, Rotation, FirstStaysQueued, HeadIsNotFirst, LeftBeforeFirst, ClearIsLast, Silence, Has, Visible, Own, Excused
<1>5. Silence'
  BY <1>a, PacketFacts, PlaceFacts, ClientsAssumption
  DEF OthersHold, Silence, ClosingIsQuiet, ForgottenIsQuiet, ClearIsLast, FinIsLast, ErrorIsLast, ClearedIsGone, Excused, Has, Visible, Own, Rotation, FirstStaysQueued, LeftBeforeFirst
<1> QED
  BY <1>1, <1>2, <1>3, <1>4, <1>5
\* A client that is no longer connected is closed already, or closed by the loop task.
LEMMA StepAppNull ==
  ASSUME IInv, AppNull PROVE IInv'
<1> USE DEF IInv, Bookkeeping, TypeOK, Slot, TaskHolds, TaskCloses, Rotating, AppNull, task, NoPacket
<1>a. app \in AppPlaces
  BY PacketFacts DEF BackKinds, FrontKinds
<1>1. (TypeOK /\ TaskHolds /\ TaskCloses /\ OthersHold)'
  BY <1>a, PacketFacts, PlaceFacts, ClientsAssumption, CapacityAssumption
  DEF OthersHold
<1>2. IdsBelow'
  BY <1>a, PacketFacts, PlaceFacts, ElemsType DEF IdsBelow
<1>3. PacketOwnedOnce'
  BY <1>a, PacketFacts, PlaceFacts, ClientsAssumption DEF OthersHold, IdsBelow, PacketOwnedOnce
<1>4. Rotation'
  BY <1>a, PacketFacts, PlaceFacts
  DEF OthersHold, PacketOwnedOnce, IdsBelow, Rotation, FirstStaysQueued, HeadIsNotFirst, LeftBeforeFirst, ClearIsLast, Silence, Has, Visible, Own, Excused
<1>5. Silence'
  BY <1>a, PacketFacts, PlaceFacts, ClientsAssumption
  DEF OthersHold, Silence, ClosingIsQuiet, ForgottenIsQuiet, ClearIsLast, FinIsLast, ErrorIsLast, ClearedIsGone, Excused, Has, Visible, Own, Rotation, FirstStaysQueued, LeftBeforeFirst
<1> QED
  BY <1>1, <1>2, <1>3, <1>4, <1>5

-----------------------------------------------------------------------------
LEMMA NextIInv == IInv /\ [Next]_vars => IInv'
<1> SUFFICES ASSUME IInv, [Next]_vars PROVE IInv'
  OBVIOUS
<1>1. CASE Lwip
  BY <1>1, StepCallback, StepDetachedCallback, StepAcceptCallback, StepLwipFinNull, StepCallbackSend DEF Lwip
<1>2. CASE AsyncTask
  BY <1>2, StepGet, StepHandleNull, StepHandleCallback, StepHandleCallbackApi,
     StepHandleCallbackClose, StepHandleFin, StepPrepend, StepCloseCall, StepApiReturn, StepCloseNull, StepHandleClear,
     StepFindFirst, StepRequeueFirst, StepScan, StepTake, StepRequeue
  DEF AsyncTask, Removal
<1>3. CASE App
  BY <1>3, StepAppClose, StepAppPrepend, StepAppCall, StepAppApiReturn, StepAppNull DEF App, AppReturns
<1>4. CASE UNCHANGED vars
  BY <1>4
  DEF vars, task, IInv, Bookkeeping, TypeOK, Slot, TaskHolds, TaskCloses, OthersHold, IdsBelow,
      PacketOwnedOnce, Rotation, FirstStaysQueued, HeadIsNotFirst, LeftBeforeFirst,
      Silence, ClosingIsQuiet, ForgottenIsQuiet, ClearIsLast, FinIsLast, ErrorIsLast, ClearedIsGone, Excused, Has, Visible
<1> QED
  BY <1>1, <1>2, <1>3, <1>4 DEF Next

\* The inductive invariant holds in every reachable state: the types and the
\* ownership of packets, the rotation's bookkeeping, and the silence of a cleared client.
THEOREM SpecIInv == Spec => []IInv
BY InitIInv, NextIInv, PTL DEF Spec

\* The queue never outgrows its capacity, and every packet and program point
\* is what the code expects it to be (lines 36-152).
THEOREM SpecTypeOK == Spec => []TypeOK
<1>1. IInv => TypeOK
  BY DEF IInv, Bookkeeping
<1> QED
  BY SpecIInv, <1>1, PTL

\* The rotation of _remove_events_with_arg never loses the packet it started
\* from (lines 134-150).
THEOREM SpecFirstStaysQueued == Spec => []FirstStaysQueued
<1>1. IInv => FirstStaysQueued
  BY DEF IInv, Rotation
<1> QED
  BY SpecIInv, <1>1, PTL

\* No packet is in two hands, so none is freed twice (lines 131, 146, 185).
THEOREM SpecPacketOwnedOnce == Spec => []PacketOwnedOnce
<1>1. IInv => PacketOwnedOnce
  BY DEF IInv, Bookkeeping
<1> QED
  BY SpecIInv, <1>1, PTL

\* A client closed on the async task hears of no event once its CLEAR has been
\* handled (lines 118-152, 808, 905), but of the FIN its _close did not wait for.
THEOREM SpecNoDispatchAfterClear == Spec => []NoDispatchAfterClear
<1>1. IInv => NoDispatchAfterClear
  BY DEF IInv, Bookkeeping, TypeOK, Silence, ClearedIsGone, Visible, Own, Excused, NoDispatchAfterClear
<1> QED
  BY SpecIInv, <1>1, PTL
-----------------------------------------------------------------------------
(***************************************************************************)
(* The queue implements EventDelivery: every step makes, dispatches,       *)
(* returns or purges a packet, or leaves the abstract state alone.         *)
(***************************************************************************)

AbstractVars == <<Pending, cur, nextId - 1>>
AbstractStep == Delivery!Next \/ UNCHANGED AbstractVars

\* Two threads never hold the same packet, and none is queued.
LEMMA HeldApart ==
  ASSUME IInv
  PROVE  /\ lwip # NoPacket => lwip \in Packets /\ lwip # app /\ lwip # hand
         /\ hand # NoPacket => hand \in Packets /\ hand # app
         /\ app \in Packets \cup {NoPacket} \cup AppPlaces
         /\ queue \in Seq(Packets) /\ Elems(queue) \subseteq Packets
         /\ \A p \in Elems(queue) : p \notin {lwip, app, hand}
         /\ nextId \in Nat \ {0} /\ NoPacket.id = 0 /\ (app \in AppPlaces => app.id = 0)
         /\ cur # NoPacket => cur \in Packets
BY PacketFacts, PlaceFacts, ElemsType DEF IInv, Bookkeeping, TypeOK, Slot, PacketOwnedOnce, NoPacket

LEMMA MakeStep ==
  ASSUME IInv, NEW kind \in BackKinds \cup FrontKinds, NEW c \in Clients \cup {Server, NULL},
         Pending' = Pending \cup {NewPacket(kind, c)}, cur' = cur, nextId' = nextId + 1
  PROVE  Delivery!Next
<1>1. nextId \in Nat /\ (nextId - 1) + 1 = nextId /\ nextId' - 1 = (nextId - 1) + 1
  BY HeldApart
<1> QED
  BY <1>1 DEF Delivery!Next, Delivery!Make, Delivery!Kinds, NewPacket, BackKinds, FrontKinds

LEMMA LwipRefines == IInv /\ Lwip => AbstractStep
<1> SUFFICES ASSUME IInv, Lwip PROVE AbstractStep
  OBVIOUS
<1>1. ASSUME NEW c \in Clients, NEW kind \in BackKinds, Callback(kind, c) PROVE AbstractStep
  <2>1. Pending' = Pending \cup {NewPacket(kind, c)}
    BY <1>1, HeldApart, NewPacketType, PacketFacts DEF Callback, task, Pending
  <2> QED
    BY <1>1, <2>1, MakeStep DEF Callback, task, AbstractStep
<1>2. CASE DetachedCallback
  <2>1. Pending' = Pending \cup {NewPacket("RECV", NULL)}
    BY <1>2, HeldApart, NewPacketType, PacketFacts DEF DetachedCallback, task, Pending, BackKinds
  <2> QED
    BY <1>2, <2>1, MakeStep DEF DetachedCallback, task, AbstractStep, BackKinds
<1>3. CASE AcceptCallback
  <2>1. Pending' = Pending \cup {NewPacket("ACCEPT", Server)}
    BY <1>3, HeldApart, NewPacketType, PacketFacts DEF AcceptCallback, task, Pending
  <2> QED
    BY <1>3, <2>1, MakeStep DEF AcceptCallback, task, AbstractStep, FrontKinds
<1>4. CASE CallbackSend
  <2>1. Elems(queue') = Elems(queue) \cup {lwip} /\ lwip' = NoPacket
    BY <1>4, HeldApart, Appending, Prepending DEF CallbackSend
  <2>2. Pending' = Pending
    BY <1>4, <2>1, HeldApart, PacketFacts DEF CallbackSend, task, Pending
  <2> QED
    BY <1>4, <2>2 DEF CallbackSend, task, AbstractStep, AbstractVars
<1>5. CASE LwipFinNull
  BY <1>5 DEF LwipFinNull, task, AbstractStep, AbstractVars, Pending
<1> QED
  BY <1>1, <1>2, <1>3, <1>4, <1>5 DEF Lwip

LEMMA AppRefines == IInv /\ App => AbstractStep
<1> SUFFICES ASSUME IInv, App PROVE AbstractStep
  OBVIOUS
<1>1. ASSUME NEW c \in Clients, AppClose(c) PROVE AbstractStep
  <2>1. Pending' = Pending \cup {NewPacket("CLEAR", c)}
    BY <1>1, HeldApart, NewPacketType, PacketFacts DEF AppClose, task, Pending
  <2> QED
    BY <1>1, <2>1, MakeStep DEF AppClose, task, AbstractStep, FrontKinds
<1>2. CASE AppPrepend
  <2>1. app \in Packets /\ app'.id = 0
    BY <1>2, HeldApart, PlaceFacts DEF AppPrepend, NoPacket, At
  <2>2. Elems(queue') = Elems(queue) \cup {app}
    BY <1>2, <2>1, HeldApart, Prepending DEF AppPrepend
  <2>3. Pending' = Pending
    BY <1>2, <2>1, <2>2, HeldApart, PacketFacts DEF AppPrepend, task, Pending
  <2> QED
    BY <1>2, <2>3 DEF AppPrepend, task, AbstractStep, AbstractVars
<1>3. CASE AppCall \/ AppApiReturn \/ AppNull
  <2>1. app.id = 0 /\ app'.id = 0 /\ UNCHANGED <<queue, lwip, hand, cur, nextId>>
    BY <1>3, HeldApart, PlaceFacts, PacketFacts
    DEF AppCall, AppApiReturn, AppNull, At, task, NoPacket, BackKinds, FrontKinds
  <2>2. Pending' = Pending
    BY <2>1 DEF Pending
  <2> QED
    BY <2>1, <2>2 DEF AbstractStep, AbstractVars
<1> QED
  BY <1>1, <1>2, <1>3 DEF App, AppReturns

\* The task takes the packet at the head, and no other place holds it.
LEMMA TakenFromPending ==
  ASSUME IInv, queue # <<>>, queue' = Tail(queue)
  PROVE  /\ Head(queue) \in Packets \cap Elems(queue)
         /\ Elems(queue') = Elems(queue) \ {Head(queue)}
         /\ Head(queue) \notin {lwip, app, hand}
<1>1. queue \in Seq(Packets) /\ Distinct(queue)
  BY DEF IInv, Bookkeeping, TypeOK, PacketOwnedOnce
<1> QED
  BY <1>1, HeldApart, Taking

LEMMA TaskRefines == IInv /\ AsyncTask => AbstractStep
<1> SUFFICES ASSUME IInv, AsyncTask PROVE AbstractStep
  OBVIOUS
<1> USE DEF IInv, Bookkeeping, TaskHolds
<1> DEFINE Same == Pending' = Pending /\ nextId' = nextId
<1>return. Same /\ cur # NoPacket /\ cur' = NoPacket => AbstractStep
  BY DEF AbstractStep, Delivery!Next, Delivery!Return
<1>stutter. Same /\ cur' = cur => AbstractStep
  BY DEF AbstractStep, AbstractVars
<1>purge. ASSUME queue # <<>>, queue' = Tail(queue), Head(queue).arg = cur.arg,
                 UNCHANGED <<lwip, hand, app, cur, nextId>>,
                 cur.event = "CLEAR"
          PROVE  AbstractStep
  <2>1. Pending' = Pending \ {Head(queue)} /\ Head(queue) \in Pending
    BY <1>purge, TakenFromPending, HeldApart, PacketFacts DEF Pending
  <2> QED
    BY <1>purge, <2>1 DEF AbstractStep, Delivery!Next, Delivery!Purge, NoPacket
<1>keep. ASSUME queue # <<>>, queue' = Tail(queue), hand = NoPacket, hand' = Head(queue),
                UNCHANGED <<lwip, app, cur, nextId>>
         PROVE  AbstractStep
  BY <1>keep, <1>stutter, TakenFromPending, HeldApart, PacketFacts DEF Pending
<1>send. ASSUME hand \in Packets, hand' = NoPacket, UNCHANGED <<lwip, app, nextId>>,
                queue' = Append(queue, hand) \/ queue' = <<hand>> \o queue
         PROVE  Same
  <2>1. Elems(queue') = Elems(queue) \cup {hand}
    BY <1>send, HeldApart, Appending, Prepending, ZenonT(30)
  <2> QED
    BY <1>send, <2>1, HeldApart, PacketFacts DEF Pending
<1>make. ASSUME NEW c \in Clients, hand = NoPacket, hand' = NewPacket("CLEAR", c),
                nextId' = nextId + 1, UNCHANGED <<queue, lwip, app, cur>>
         PROVE  AbstractStep
  <2>1. Pending' = Pending \cup {NewPacket("CLEAR", c)}
    BY <1>make, HeldApart, NewPacketType, PacketFacts DEF Pending
  <2> QED
    BY <1>make, <2>1, MakeStep DEF AbstractStep, FrontKinds
<1>1. CASE Get
  <2>1. queue # <<>> /\ queue' = Tail(queue) /\ cur' = Head(queue) /\ cur = NoPacket
    BY <1>1 DEF Get
  <2>2. Pending' = Pending \ {cur'} /\ cur' \in Pending
    BY <1>1, <2>1, TakenFromPending, HeldApart, PacketFacts DEF Get, Pending
  <2> QED
    BY <1>1, <2>1, <2>2 DEF Get, AbstractStep, Delivery!Next, Delivery!Dispatch
<1>2. CASE HandleNull \/ HandleCallback \/ CloseNull
  BY <1>2, <1>return DEF HandleNull, HandleCallback, CloseNull, Handling, Pending
<1>11. CASE CloseCall \/ ApiReturn
  BY <1>11, <1>return, <1>stutter DEF CloseCall, ApiReturn, Pending
<1>3. CASE HandleCallbackApi \/ HandleClear
  BY <1>3, <1>stutter DEF HandleCallbackApi, HandleClear, Handling, Pending
<1>4. ASSUME NEW c \in Clients, HandleCallbackClose(c) PROVE AbstractStep
  BY <1>4, <1>make DEF HandleCallbackClose, Handling
<1>5. CASE HandleFin
  BY <1>5, <1>make, HeldApart, PacketFacts, ClientsAssumption
  DEF HandleFin, Handling, BackKinds, NoPacket
<1>6. CASE Prepend
  BY <1>6, <1>send, <1>return, <1>stutter, HeldApart DEF Prepend
<1>7. CASE FindFirst
  BY <1>7, <1>return, <1>purge, <1>keep DEF FindFirst, RemovalDone, Pending
<1>8. CASE RequeueFirst \/ Requeue
  BY <1>8, <1>send, <1>stutter, HeldApart DEF RequeueFirst, Requeue, SendBack
<1>9. CASE Scan
  BY <1>9, <1>return, <1>stutter DEF Scan, RemovalDone, Pending
<1>10. CASE Take
  BY <1>10, <1>return, <1>purge, <1>keep DEF Take, RemovalDone, Pending, Rotating
<1> QED
  BY <1>1, <1>2, <1>3, <1>4, <1>5, <1>6, <1>7, <1>8, <1>9, <1>10, <1>11 DEF AsyncTask, Removal

\* No packet is lost, made twice or freed for another client, on any queue and
\* in any interleaving of the three threads (lines 106-186).
THEOREM SpecDeliversEvents == Spec => DeliversEvents
<1>1. Init => Delivery!Init
  BY EmptyQueue DEF Init, Delivery!Init, Pending, NoPacket
<1>2. IInv /\ [Next]_vars => [Delivery!Next]_AbstractVars
  <2>1. IInv /\ Next => AbstractStep
    BY LwipRefines, TaskRefines, AppRefines DEF Next
  <2>2. UNCHANGED vars => UNCHANGED AbstractVars
    BY DEF vars, task, AbstractVars, Pending
  <2> QED
    BY <2>1, <2>2 DEF AbstractStep
<1> QED
  BY <1>1, <1>2, SpecIInv, PTL DEF Spec, DeliversEvents, Delivery!Spec, AbstractVars
-----------------------------------------------------------------------------
(***************************************************************************)
(* The order in which a removal leaves the queue.  While it rotates, the   *)
(* packets at and behind the first one have been turned already.           *)
(***************************************************************************)

LEMMA AheadAppending ==
  ASSUME NEW q \in Seq(Packets), NEW e \in Packets
  PROVE  \A p, r : Ahead(Append(q, e), p, r) <=> Ahead(q, p, r) \/ (p \in Elems(q) /\ r = e)
<1>1. \A s, p, r : Ahead(s, p, r) <=> Precedes(s, p, r)
  BY DEF Ahead, Precedes
<1> QED
  BY <1>1, PrecedesAppending DEF Elems, Members

LEMMA AheadPrepending ==
  ASSUME NEW q \in Seq(Packets), NEW e \in Packets
  PROVE  \A p, r : p # e => (Ahead(<<e>> \o q, p, r) <=> Ahead(q, p, r))
<1>1. \A s, p, r : Ahead(s, p, r) <=> Precedes(s, p, r)
  BY DEF Ahead, Precedes
<1> QED
  BY <1>1, PrecedesPrepending

LEMMA AheadTaking ==
  ASSUME NEW q \in Seq(Packets), q # <<>>, Distinct(q)
  PROVE  /\ \A p, r : p # Head(q) => (Ahead(Tail(q), p, r) <=> Ahead(q, p, r))
         /\ \A p : ~Ahead(q, p, Head(q))
         /\ \A p \in Elems(Tail(q)) : Ahead(q, Head(q), p)
<1>1. \A s, p, r : Ahead(s, p, r) <=> Precedes(s, p, r)
  BY DEF Ahead, Precedes
<1>2. NoneTwice(q)
  BY DEF Distinct, NoneTwice
<1> QED
  BY <1>1, <1>2, PrecedesTaking DEF Elems, Members

LEMMA AheadElems ==
  ASSUME NEW q \in Seq(Packets), NEW p, NEW r, Ahead(q, p, r)
  PROVE  /\ p \in Elems(q) /\ r \in Elems(q)
         /\ Distinct(q) => p # r /\ ~Ahead(q, r, p)
<1>1. \A s, t, u : Ahead(s, t, u) <=> Precedes(s, t, u)
  BY DEF Ahead, Precedes
<1>2. Distinct(q) => NoneTwice(q)
  BY DEF Distinct, NoneTwice
<1> QED
  BY <1>1, <1>2, PrecedesMembers DEF Elems, Members

\* The packets queued when the removal began are apart from those of the other
\* threads; those of other clients are still there, in their order but for the turn,
\* and none of the client's is among the turned.
Turned(p) == p = first \/ Ahead(queue, first, p)
InOrder(p, r) ==
  /\ pc = "first" => Ahead(queue, p, r)
  /\ pc = "requeueFirst" => r # hand /\ (p # hand => Ahead(queue, p, r))
  /\ pc \in Rotating =>
       /\ Turned(r) => Turned(p)
       /\ r = hand => Turned(p)
       /\ hand \notin {p, r} /\ (Turned(p) => Turned(r)) => Ahead(queue, p, r)
Exact ==
  pc \in {"first", "requeueFirst"} \cup Rotating =>
    /\ Distinct(snap)
    /\ \A p \in Elems(snap) : p.id < nextId /\ p \notin {lwip, app}
    /\ OfOthers \subseteq Elems(queue) \cup {hand}
    /\ pc \in Rotating => \A p \in Elems(snap) : Turned(p) => p.arg # cur.arg
    /\ \A p, r \in OfOthers : Ahead(snap, p, r) => InOrder(p, r)

LEMMA InitExact == Init => Exact
BY DEF Init, Exact, Rotating

\* What the other threads send and make is no packet of the removal.
LEMMA ExactKept ==
  ASSUME Exact, UNCHANGED task, nextId \in Nat, nextId' \in Nat, nextId' >= nextId,
         \A p \in Elems(snap) : p.id \in Nat,
         \A p \in Elems(snap) : p.id < nextId => p \notin {lwip', app'} \ {lwip, app},
         Elems(queue) \subseteq Elems(queue'),
         \A p \in Elems(snap) \cup {first}, r \in Elems(snap) :
           pc \in {"first", "requeueFirst"} \cup Rotating =>
             (Ahead(queue', p, r) <=> Ahead(queue, p, r))
  PROVE  Exact'
<1> SUFFICES ASSUME pc \in {"first", "requeueFirst"} \cup Rotating PROVE Exact'
  BY DEF Exact, task
<1>1. /\ UNCHANGED <<pc, cur, first, hand, snap>> /\ OfOthers' = OfOthers
      /\ OfOthers \subseteq Elems(snap)
  BY DEF task, OfOthers
<1>2. \A p \in Elems(snap) : p.id < nextId' /\ p \notin {lwip', app'}
  BY DEF Exact
<1>3. \A p \in Elems(snap) : Turned(p)' <=> Turned(p)
  BY <1>1 DEF Turned
<1>4. \A p, r \in OfOthers : InOrder(p, r) => InOrder(p, r)'
  BY <1>1, <1>3 DEF InOrder
<1>5. OfOthers \subseteq Elems(queue') \cup {hand}
  BY DEF Exact
<1> QED
  BY <1>1, <1>2, <1>3, <1>4, <1>5 DEF Exact

LEMMA SnapFacts ==
  ASSUME IInv
  PROVE  /\ \A p \in Elems(snap) : p \in Packets /\ p # NoPacket /\ p \notin AppPlaces /\ p.id \in Nat \ {0}
         /\ nextId \in Nat \ {0}
         /\ OfOthers \subseteq Elems(snap)
         /\ queue \in Seq(Packets) /\ Distinct(queue) /\ Elems(queue) \subseteq Packets
BY PacketFacts, ElemsType DEF IInv, Bookkeeping, TypeOK, PacketOwnedOnce, OfOthers

\* A packet of another thread goes to the front or to the back.
LEMMA SentExact ==
  ASSUME IInv, Exact, NEW e \in {lwip, app}, e \in Packets, UNCHANGED <<task, nextId>>,
         queue' = Append(queue, e) \/ queue' = <<e>> \o queue,
         lwip' \in {lwip, NoPacket}, app' = app \/ app'.id = 0
  PROVE  Exact'
<1>1. /\ queue \in Seq(Packets) /\ Elems(queue') = Elems(queue) \cup {e}
  BY SnapFacts, Appending, Prepending
<1>2. ASSUME pc \in {"first", "requeueFirst"} \cup Rotating PROVE e \notin Elems(snap)
  BY <1>2 DEF Exact
<1>3. ASSUME pc \in {"first", "requeueFirst"} \cup Rotating PROVE e # first
  <2>1. e \notin Elems(queue)
    BY HeldApart
  <2>2. CASE pc \in Rotating
    BY <2>1, <2>2 DEF IInv, Rotation, FirstStaysQueued, Rotating
  <2>3. CASE pc \notin Rotating
    BY <2>3, PacketFacts DEF IInv, Bookkeeping, TaskHolds
  <2> QED
    BY <2>2, <2>3
<1>4. ASSUME pc \in {"first", "requeueFirst"} \cup Rotating,
             NEW p \in Elems(snap) \cup {first}, NEW r \in Elems(snap)
      PROVE  Ahead(queue', p, r) <=> Ahead(queue, p, r)
  <2>1. p # e /\ r # e
    BY <1>2, <1>3, <1>4
  <2>2. CASE queue' = Append(queue, e)
    BY <1>1, <2>1, <2>2, AheadAppending
  <2>3. CASE queue' = <<e>> \o queue
    BY <1>1, <2>1, <2>3, AheadPrepending
  <2> QED
    BY <2>2, <2>3
<1>5. \A p \in Elems(snap) : p \notin {lwip', app'} \ {lwip, app}
  BY SnapFacts
<1>6. nextId' = nextId /\ nextId \in Nat /\ \A p \in Elems(snap) : p.id \in Nat
  BY SnapFacts
<1>7. nextId' >= nextId
  BY <1>6
<1> QED
  BY <1>1, <1>4, <1>5, <1>6, <1>7, ExactKept

\* A packet that was just made is none of those queued before.
LEMMA MadeExact ==
  ASSUME IInv, Exact, UNCHANGED <<task, queue>>, nextId' \in {nextId, nextId + 1},
         lwip' \in {lwip, NoPacket} \/ lwip'.id = nextId,
         app' = app \/ app'.id \in {0, nextId}
  PROVE  Exact'
<1>1. \A p \in Elems(snap) : p.id < nextId => p \notin {lwip', app'} \ {lwip, app}
  BY SnapFacts
<1>2. nextId \in Nat /\ nextId' \in Nat /\ nextId' >= nextId
  BY SnapFacts
<1> QED
  BY <1>1, <1>2, SnapFacts, ExactKept

LEMMA LwipExact == IInv /\ Exact /\ Lwip => Exact'
<1> SUFFICES ASSUME IInv, Exact, Lwip PROVE Exact'
  OBVIOUS
<1>1. ASSUME NEW c \in Clients, NEW kind \in BackKinds, Callback(kind, c) PROVE Exact'
  BY <1>1, MadeExact DEF Callback, NewPacket
<1>2. CASE DetachedCallback
  BY <1>2, MadeExact DEF DetachedCallback, NewPacket
<1>3. CASE AcceptCallback
  BY <1>3, MadeExact DEF AcceptCallback, NewPacket
<1>4. CASE CallbackSend
  <2>1. lwip \in Packets
    BY <1>4, HeldApart DEF CallbackSend
  <2> QED
    BY <1>4, <2>1, SentExact DEF CallbackSend
<1>5. CASE LwipFinNull
  BY <1>5, MadeExact DEF LwipFinNull
<1> QED
  BY <1>1, <1>2, <1>3, <1>4, <1>5 DEF Lwip

LEMMA AppExact == IInv /\ Exact /\ App => Exact'
<1> SUFFICES ASSUME IInv, Exact, App PROVE Exact'
  OBVIOUS
<1>1. ASSUME NEW c \in Clients, AppClose(c) PROVE Exact'
  BY <1>1, MadeExact DEF AppClose, NewPacket
<1>2. CASE AppPrepend
  <2>1. app \in Packets
    <3>1. app.event = "CLEAR"
      BY <1>2 DEF AppPrepend
    <3>2. app # NoPacket
      BY <3>1 DEF NoPacket
    <3>3. app \notin AppPlaces
      BY <3>1, PlaceFacts
    <3> QED
      BY <3>2, <3>3, HeldApart
  <2>2. app'.id = 0 /\ UNCHANGED <<task, nextId, lwip>> /\ queue' = <<app>> \o queue
    BY <1>2 DEF AppPrepend, At
  <2> QED
    BY <2>1, <2>2, SentExact
<1>3. CASE AppCall \/ AppApiReturn \/ AppNull
  BY <1>3, MadeExact DEF AppCall, AppApiReturn, AppNull, At, NoPacket
<1> QED
  BY <1>1, <1>2, <1>3 DEF App, AppReturns

LEMMA HandleClearExact == ASSUME IInv, Exact, HandleClear PROVE Exact'
<1>1. pc' = "first" /\ snap' = queue /\ queue' = queue /\ UNCHANGED <<lwip, app, cur, nextId>>
  BY DEF HandleClear
<1>2. Distinct(queue) /\ \A p \in Elems(queue) : p.id < nextId /\ p \notin {lwip, app}
  BY HeldApart, SnapFacts DEF IInv, Bookkeeping, IdsBelow
<1> QED
  BY <1>1, <1>2 DEF Exact, InOrder, OfOthers, Rotating

LEMMA FindFirstExact == ASSUME IInv, Exact, FindFirst PROVE Exact'
<1>1. CASE queue = <<>>
  BY <1>1 DEF FindFirst, RemovalDone, Exact, Rotating
<1>2. CASE queue # <<>>
  <2> DEFINE h == Head(queue)
  <2>1. /\ pc = "first" /\ queue' = Tail(queue) /\ UNCHANGED <<cur, first, snap, lwip, app, nextId>>
        /\ OfOthers' = OfOthers /\ hand = NoPacket
        /\ h.arg = cur.arg => pc' = "first" /\ hand' = NoPacket
        /\ h.arg # cur.arg => pc' = "requeueFirst" /\ hand' = h
    BY <1>2 DEF FindFirst, OfOthers, IInv, Bookkeeping, TaskHolds
  <2>2. /\ Elems(queue) = Elems(queue') \cup {h}
        /\ \A p, r : p # h => (Ahead(queue', p, r) <=> Ahead(queue, p, r))
        /\ \A p : ~Ahead(queue, p, h)
    BY <1>2, <2>1, Taking, AheadTaking, SnapFacts
  <2> HIDE DEF h
  <2>3. OfOthers \subseteq Elems(queue)
    BY <2>1, SnapFacts DEF Exact
  <2>4. OfOthers \subseteq Elems(queue') \cup {hand'}
    BY <2>1, <2>2, <2>3 DEF OfOthers
  <2>5. \A p, r \in OfOthers : Ahead(snap, p, r) => InOrder(p, r)'
    <3> SUFFICES ASSUME NEW p \in OfOthers, NEW r \in OfOthers, Ahead(snap, p, r)
                 PROVE  InOrder(p, r)'
      OBVIOUS
    <3>1. Ahead(queue, p, r)
      BY <2>1 DEF Exact, InOrder
    <3>2. p.arg # cur.arg /\ r # h
      BY <2>2, <3>1 DEF OfOthers
    <3> QED
      BY <2>1, <2>2, <3>1, <3>2 DEF InOrder, Rotating
  <2> QED
    BY <2>1, <2>4, <2>5 DEF Exact, Rotating
<1> QED
  BY <1>1, <1>2

LEMMA RequeueFirstExact == ASSUME IInv, Exact, RequeueFirst PROVE Exact'
<1>1. /\ pc = "requeueFirst" /\ pc' = "scan" /\ queue' = Append(queue, hand) /\ first' = hand
      /\ hand' = NoPacket /\ UNCHANGED <<cur, snap, lwip, app, nextId>> /\ OfOthers' = OfOthers
      /\ hand.arg # cur.arg /\ hand \in Packets /\ hand \notin Elems(queue)
  BY HeldApart DEF RequeueFirst, SendBack, OfOthers, IInv, Bookkeeping, TaskHolds
<1>2. /\ Elems(queue') = Elems(queue) \cup {hand}
      /\ \A p, r : Ahead(queue', p, r) <=> Ahead(queue, p, r) \/ (p \in Elems(queue) /\ r = hand)
  BY <1>1, Appending, AheadAppending, SnapFacts
<1>3. \A p : Turned(p)' <=> p = hand
  BY <1>1, <1>2, AheadElems, SnapFacts DEF Turned
<1>4. \A p, r \in OfOthers : Ahead(snap, p, r) => InOrder(p, r)'
  <2> SUFFICES ASSUME NEW p \in OfOthers, NEW r \in OfOthers, Ahead(snap, p, r)
               PROVE  InOrder(p, r)'
    OBVIOUS
  <2>1. r # hand /\ (p # hand => Ahead(queue, p, r)) /\ r # NoPacket
    BY <1>1, SnapFacts DEF Exact, InOrder
  <2> QED
    BY <1>1, <1>2, <1>3, <2>1 DEF InOrder, Rotating
<1> QED
  BY <1>1, <1>2, <1>3, <1>4 DEF Exact, Rotating

LEMMA ScanExact == ASSUME IInv, Exact, Scan PROVE Exact'
<1>1. CASE pc' = "get"
  BY <1>1 DEF Exact, Rotating
<1>2. CASE pc' # "get"
  <2>1. /\ pc = "scan" /\ pc' = "take"
        /\ UNCHANGED <<queue, cur, first, hand, snap, lwip, app, nextId>> /\ OfOthers' = OfOthers
    BY <1>2 DEF Scan, RemovalDone, OfOthers
  <2>2. \A p : Turned(p)' <=> Turned(p)
    BY <2>1 DEF Turned
  <2>3. \A p, r \in OfOthers : InOrder(p, r) => InOrder(p, r)'
    BY <2>1, <2>2 DEF InOrder, Rotating
  <2> QED
    BY <2>1, <2>2, <2>3 DEF Exact, Rotating
<1> QED
  BY <1>1, <1>2

\* The head is not turned yet, and ahead of all that is not.
LEMMA TakeExact == ASSUME IInv, Exact, Take PROVE Exact'
<1> DEFINE h == Head(queue)
<1>1. queue # <<>> /\ first \in Elems(queue) /\ h # first
  BY EmptyQueue DEF Take, IInv, Rotation, FirstStaysQueued, HeadIsNotFirst, Rotating
<1>2. /\ pc = "take" /\ queue' = Tail(queue) /\ UNCHANGED <<cur, first, snap, lwip, app, nextId>>
      /\ OfOthers' = OfOthers /\ hand = NoPacket
      /\ h.arg = cur.arg => pc' = "scan" /\ hand' = NoPacket
      /\ h.arg # cur.arg => pc' = "requeue" /\ hand' = h
  BY <1>1 DEF Take, OfOthers, IInv, Bookkeeping, TaskHolds
<1>3. /\ Elems(queue) = Elems(queue') \cup {h}
      /\ \A p, r : p # h => (Ahead(queue', p, r) <=> Ahead(queue, p, r))
      /\ \A p : ~Ahead(queue, p, h)
  BY <1>1, <1>2, Taking, AheadTaking, SnapFacts
<1> HIDE DEF h
<1>4. ~Turned(h) /\ \A p : Turned(p)' <=> Turned(p)
  BY <1>1, <1>2, <1>3 DEF Turned
<1>5. OfOthers \subseteq Elems(queue') \cup {hand'}
  BY <1>2, <1>3, SnapFacts DEF Exact, OfOthers, Rotating
<1>6. \A p, r \in OfOthers : Ahead(snap, p, r) => InOrder(p, r)'
  <2> SUFFICES ASSUME NEW p \in OfOthers, NEW r \in OfOthers, Ahead(snap, p, r)
               PROVE  InOrder(p, r)'
    OBVIOUS
  <2>1. /\ Turned(r) => Turned(p)
        /\ (Turned(p) => Turned(r)) => Ahead(queue, p, r)
    BY <1>2, SnapFacts DEF Exact, InOrder, Rotating
  <2>2. p # NoPacket /\ r # NoPacket /\ p.arg # cur.arg
    BY SnapFacts DEF OfOthers
  <2>3. r = h => Turned(p)
    BY <1>3, <2>1
  <2>4. p # h /\ (Turned(p) => Turned(r)) => Ahead(queue', p, r)
    BY <1>3, <2>1
  <2> QED
    BY <1>2, <1>4, <2>1, <2>2, <2>3, <2>4 DEF InOrder, Rotating
<1> QED
  BY <1>2, <1>4, <1>5, <1>6 DEF Exact, Rotating

\* The packet in hand is turned behind all that were.
LEMMA RequeueExact == ASSUME IInv, Exact, Requeue PROVE Exact'
<1>1. /\ pc = "requeue" /\ pc' = "scan" /\ queue' = Append(queue, hand) /\ first' = first
      /\ hand' = NoPacket /\ UNCHANGED <<cur, snap, lwip, app, nextId>> /\ OfOthers' = OfOthers
      /\ hand.arg # cur.arg /\ hand \in Packets /\ hand \notin Elems(queue)
      /\ first \in Elems(queue)
  BY HeldApart
  DEF Requeue, SendBack, OfOthers, IInv, Bookkeeping, TaskHolds, Rotation, FirstStaysQueued
<1>2. /\ Elems(queue') = Elems(queue) \cup {hand}
      /\ \A p, r : Ahead(queue', p, r) <=> Ahead(queue, p, r) \/ (p \in Elems(queue) /\ r = hand)
  BY <1>1, Appending, AheadAppending, SnapFacts
<1>3. \A p : Turned(p)' <=> Turned(p) \/ p = hand
  BY <1>1, <1>2 DEF Turned
<1>4. ~Turned(hand)
  BY <1>1, AheadElems, SnapFacts DEF Turned
<1>5. \A p, r \in OfOthers : Ahead(snap, p, r) => InOrder(p, r)'
  <2> SUFFICES ASSUME NEW p \in OfOthers, NEW r \in OfOthers, Ahead(snap, p, r)
               PROVE  InOrder(p, r)'
    OBVIOUS
  <2>1. /\ Turned(r) => Turned(p)
        /\ r = hand => Turned(p)
        /\ hand \notin {p, r} /\ (Turned(p) => Turned(r)) => Ahead(queue, p, r)
    BY <1>1, SnapFacts DEF Exact, InOrder, Rotating
  <2>2. p # NoPacket /\ r # NoPacket /\ p \in Elems(queue) \cup {hand}
    BY <1>1, SnapFacts DEF Exact, Rotating
  <2>3. Distinct(snap)
    BY <1>1 DEF Exact, Rotating
  <2>4. p # r
    BY <2>3, AheadElems DEF IInv, Bookkeeping, TypeOK
  <2> QED
    BY <1>1, <1>2, <1>3, <1>4, <2>1, <2>2, <2>4 DEF InOrder, Rotating
<1>6. \A p \in Elems(snap) : Turned(p)' => p.arg # cur.arg
  BY <1>1, <1>3 DEF Exact, Rotating
<1> QED
  BY <1>1, <1>2, <1>5, <1>6 DEF Exact, Rotating

LEMMA TaskExact == IInv /\ Exact /\ AsyncTask => Exact'
<1> SUFFICES ASSUME IInv, Exact, AsyncTask PROVE Exact'
  OBVIOUS
<1>1. CASE Removal
  BY <1>1, HandleClearExact, FindFirstExact, RequeueFirstExact, ScanExact, TakeExact, RequeueExact
  DEF Removal
<1>2. CASE ~Removal
  <2>1. pc' \in {"get", "handle", "prepend", "call", "api", "null"}
    BY <1>2 DEF AsyncTask, Get, HandleNull, HandleCallback, HandleCallbackApi, HandleCallbackClose,
                HandleFin, Prepend, CloseCall, ApiReturn, CloseNull
  <2> QED
    BY <2>1 DEF Exact, Rotating
<1> QED
  BY <1>1, <1>2

\* When the first packet is at the head again, all that is left has been turned.
LEMMA RemovalEndsExact ==
  ASSUME IInv, Exact, Next, RemovalEnds
  PROVE  /\ Elems(snap) \cap Elems(queue') = OfOthers
         /\ \A p, r \in OfOthers : Ahead(snap, p, r) => Ahead(queue', p, r)
<1>1. pc \in {"first", "scan", "take"} /\ pc' = "get" /\ hand = NoPacket
  BY DEF RemovalEnds, IInv, Bookkeeping, TaskHolds
<1>2. OfOthers \subseteq Elems(queue)
  BY <1>1, SnapFacts DEF Exact, Rotating
<1>3. FindFirst \/ Scan \/ Take
  BY <1>1
  DEF Next, Lwip, Callback, LwipFinNull, DetachedCallback, AcceptCallback, CallbackSend, AsyncTask, Removal,
       Get, HandleNull, HandleCallback, HandleCallbackApi, HandleCallbackClose, HandleFin, Prepend,
       CloseCall, ApiReturn, CloseNull, HandleClear, Handling, RequeueFirst, Requeue, SendBack, App,
       AppClose, AppReturns, AppPrepend, AppCall, AppApiReturn, AppNull, task
<1>4. pc \in Rotating => queue # <<>>
  BY EmptyQueue DEF IInv, Rotation, FirstStaysQueued, Rotating
<1>5. CASE FindFirst
  <2>1. queue = <<>> /\ queue' = queue
    BY <1>1, <1>5 DEF FindFirst
  <2> QED
    BY <1>2, <2>1, EmptyQueue
<1>6. CASE Scan
  <2>1. pc \in Rotating /\ queue' = queue /\ queue # <<>> /\ Head(queue) = first
    BY <1>1, <1>4, <1>6 DEF Scan, Rotating
  <2>2. \A p \in Elems(queue) : Turned(p)
    BY <2>1, Taking, AheadTaking, SnapFacts DEF Turned
  <2>3. \A p \in Elems(snap) \cap Elems(queue) : p.arg # cur.arg
    BY <2>1, <2>2 DEF Exact
  <2>4. \A p, r \in OfOthers : Ahead(snap, p, r) => Ahead(queue, p, r)
    BY <1>1, <1>2, <2>1, <2>2, SnapFacts DEF Exact, InOrder
  <2> QED
    BY <1>2, <2>1, <2>3, <2>4 DEF OfOthers
<1>7. CASE Take
  BY <1>1, <1>4, <1>7 DEF Take, Rotating
<1> QED
  BY <1>3, <1>5, <1>6, <1>7

\* A removal takes the client's packets and no others, and leaves these in their order, in
\* any interleaving with the two threads that send (lines 125-152).
THEOREM SpecRemovalIsExact == Spec => RemovalIsExact
<1>1. IInv /\ Exact /\ [Next]_vars => Exact'
  <2>1. UNCHANGED vars /\ IInv /\ Exact => Exact'
    BY MadeExact DEF vars
  <2> QED
    BY <2>1, LwipExact, TaskExact, AppExact DEF Next
<1>2. Spec => [](IInv /\ Exact)
  BY <1>1, InitIInv, NextIInv, InitExact, PTL DEF Spec
<1>3. IInv /\ Exact /\ [Next]_vars =>
        [RemovalEnds => /\ Elems(snap) \cap Elems(queue') = OfOthers
                        /\ \A p, r \in OfOthers : Ahead(snap, p, r) => Ahead(queue', p, r)]_vars
  BY RemovalEndsExact
<1> QED
  BY <1>2, <1>3, PTL DEF Spec, RemovalIsExact
=============================================================================
