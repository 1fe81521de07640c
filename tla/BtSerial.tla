------------------------------- MODULE BtSerial -------------------------------
(***************************************************************************)
(* BluetoothSerial.cpp: the program writes packets into a queue, spp_tx    *)
(* gathers them in _spp_tx_buffer and writes it to _spp_client, and        *)
(* Bluedroid's task reports connections, writes and data.  Bytes are       *)
(* numbered as the program writes them.  The bit SPP_CONGESTED is "free":  *)
(* it is set while the connection is not congested.  Received data, which  *)
(* goes byte by byte into a queue until it is full, is left out.           *)
(***************************************************************************)
EXTENDS Naturals, FiniteSets, SequencesExt, SequenceTheorems, TLAPS

CONSTANTS
    Handles,        \* the connections Bluedroid reports, positive, each once
    TxMax,          \* SPP_TX_MAX
    TxQueue,        \* TX_QUEUE_SIZE
    MaxBytes        \* bytes the program writes

VARIABLES
    bits,           \* _spp_event_group; {} before begin()
    link,           \* Bluedroid's view: "new", "open", "closing", "gone"
    client, second, \* _spp_client; secondConnectionAttempt
    queue, buffer,  \* _spp_tx_queue; _spp_tx_buffer
    task,           \* _spp_tx_task: [at, rest]
    done, unacked,  \* _spp_tx_done; WRITE_EVTs to come
    app,            \* the program's call: [at, connect]
    owner, got,     \* whom each byte was written for; what each peer received
    carried,        \* a connection opened onto unsent bytes
    muddled         \* a second connection came while one was there

btVars == <<bits, link, client, second, queue, buffer, task, done, unacked, app,
            owner, got, carried, muddled>>
txVars == <<queue, buffer, task, done, unacked, got>>
linkVars == <<link, client, second, carried, muddled>>

Started == bits # {}
Offline == {"free", "disconnected"}
Ready == Started /\ "running" \in bits /\ app.at = "idle"
Resting == [at |-> "idle", rest |-> <<>>]

Begin ==
    /\ ~Started /\ bits' = Offline
    /\ UNCHANGED <<linkVars, txVars, app, owner>>
InitEvt ==
    /\ Started /\ bits' = bits \cup {"running"}
    /\ UNCHANGED <<linkVars, txVars, app, owner>>

\* end(), _stop_bt(): everything but the tx buffer and the flag of a second
\* connection.
End ==
    /\ Started /\ app.at = "idle"
    /\ bits' = {} /\ client' = 0 /\ queue' = <<>> /\ task' = Resting
    /\ done' = 0 /\ unacked' = 0
    /\ link' = [h \in Handles |-> IF link[h] = "new" THEN "new" ELSE "gone"]
    /\ UNCHANGED <<second, buffer, app, owner, got, carried, muddled>>

\* ESP_SPP_SRV_OPEN_EVT and ESP_SPP_OPEN_EVT; only the first empties the buffer.
OpenEvt(h, served) ==
    /\ "running" \in bits /\ link[h] = "new"
    /\ IF client = 0
       THEN /\ client' = h /\ link' = [link EXCEPT ![h] = "open"]
            /\ buffer' = IF served THEN <<>> ELSE buffer
            /\ carried' = (carried \/ buffer' \o task.rest \o queue # <<>>)
            /\ UNCHANGED <<second, muddled>>
       ELSE /\ second' = TRUE /\ link' = [link EXCEPT ![h] = "closing"]
            /\ muddled' = TRUE
            /\ UNCHANGED <<client, buffer, carried>>
    /\ bits' = (bits \ {"disconnected"}) \cup {"connected"}
                   \cup (IF served THEN {} ELSE {"free"})
    /\ UNCHANGED <<queue, task, done, unacked, got, app, owner>>

\* ESP_SPP_CLOSE_EVT: the handle it names is not looked at.
CloseEvt(h) ==
    /\ link[h] \in {"open", "closing"}
    /\ link' = [link EXCEPT ![h] = "gone"]
    /\ second' = FALSE
    /\ IF second THEN bits' = bits \ {"connected"} /\ UNCHANGED client
       ELSE /\ client' = 0
            /\ bits' = (bits \ {"connected"}) \cup Offline
    /\ UNCHANGED <<txVars, carried, muddled, app, owner>>

\* ESP_SPP_CONG_EVT, and ESP_SPP_WRITE_EVT of a write that was accepted.
CongEvt ==
    /\ \E h \in Handles : link[h] = "open"
    /\ \E free \in BOOLEAN : bits' = IF free THEN bits \cup {"free"} ELSE bits \ {"free"}
    /\ UNCHANGED <<linkVars, txVars, app, owner>>
WriteEvt ==
    /\ unacked > 0 /\ unacked' = unacked - 1
    /\ done' = 1
    /\ bits' \in {bits, bits \ {"free"}}
    /\ UNCHANGED <<linkVars, queue, buffer, task, got, app, owner>>

-----------------------------------------------------------------------------
\* _spp_tx_task: a packet that fits is appended, and sent if nothing waits; of a
\* longer one the buffer is filled and sent first.
Receive ==
    /\ Started /\ task.at = "idle" /\ queue # <<>>
    /\ LET packet == Head(queue)
           room == TxMax - Len(buffer)
       IN  IF Len(packet) <= room
           THEN /\ buffer' = buffer \o packet
                /\ task' = [task EXCEPT !.at =
                       IF Len(packet) = room \/ Len(queue) = 1 THEN "send" ELSE "idle"]
           ELSE /\ buffer' = buffer \o SubSeq(packet, 1, room)
                /\ task' = [at |-> "send", rest |-> SubSeq(packet, room + 1, Len(packet))]
    /\ queue' = Tail(queue)
    /\ UNCHANGED <<bits, linkVars, done, unacked, got, app, owner>>

\* _spp_send_buffer() fails: congested for a second, no client, a refused write,
\* no WRITE_EVT for a second; the rest of the packet is dropped.
Fails ==
    /\ \/ task.at = "send"      \* esp_spp_write() refuses, or one of the others
       \/ task.at = "ack" /\ done = 0
    /\ task' = Resting
    /\ UNCHANGED <<bits, linkVars, queue, buffer, done, unacked, got, app, owner>>

SppWrite ==
    /\ task.at = "send" /\ "free" \in bits
    /\ client # 0 /\ link[client] = "open" /\ buffer # <<>>
    /\ got' = [got EXCEPT ![client] = @ \o buffer]
    /\ buffer' = <<>> /\ unacked' = unacked + 1
    /\ task' = [task EXCEPT !.at = "ack"]
    /\ UNCHANGED <<bits, linkVars, queue, done, app, owner>>

\* xSemaphoreTake(_spp_tx_done); what is left of the packet goes on.
TakeDone ==
    /\ task.at = "ack" /\ done = 1
    /\ done' = 0
    /\ LET n == IF Len(task.rest) < TxMax THEN Len(task.rest) ELSE TxMax
       IN  IF n = 0 THEN task' = Resting /\ UNCHANGED buffer
           ELSE /\ buffer' = SubSeq(task.rest, 1, n)
                /\ task' = [at |-> IF n = TxMax \/ queue = <<>> THEN "send" ELSE "idle",
                            rest |-> SubSeq(task.rest, n + 1, Len(task.rest))]
    /\ UNCHANGED <<bits, linkVars, queue, unacked, got, app, owner>>

-----------------------------------------------------------------------------
\* write(): a full queue for a second, or no memory, refuses the packet.
Write(n) ==
    /\ app.at = "idle" /\ client # 0 /\ Len(queue) < TxQueue
    /\ Len(owner) + n <= MaxBytes
    /\ queue' = Append(queue, [i \in 1 .. n |-> Len(owner) + i])
    /\ owner' = owner \o [i \in 1 .. n |-> client]
    /\ UNCHANGED <<bits, linkVars, buffer, task, done, unacked, got, app>>

\* disconnect(), and connect(), which begins with it.
Disconnect(connect) ==
    /\ Ready
    /\ app' = [connect |-> connect,
               at |-> IF client # 0 THEN "flush" ELSE IF connect THEN "wait on" ELSE "idle"]
    /\ UNCHANGED <<bits, linkVars, txVars, owner>>
Flushed ==
    /\ app.at = "flush" /\ queue = <<>>
    /\ app' = [app EXCEPT !.at = "wait off"]
    /\ link' = IF client # 0 /\ link[client] = "open"
               THEN [link EXCEPT ![client] = "closing"] ELSE link
    /\ UNCHANGED <<bits, client, second, carried, muddled, txVars, owner>>
\* The bit, or ten seconds; discovery and the connection are Bluedroid's, and
\* end in OpenEvt or in nothing.
Waited ==
    /\ app.at \in {"wait off", "wait on"}
    /\ app' = [app EXCEPT !.at = IF app.at = "wait off" /\ app.connect
                                 THEN "wait on" ELSE "idle"]
    /\ UNCHANGED <<bits, linkVars, txVars, owner>>

Init ==
    /\ bits = {} /\ link = [h \in Handles |-> "new"]
    /\ client = 0 /\ second = FALSE /\ queue = <<>> /\ buffer = <<>>
    /\ task = Resting /\ done = 0 /\ unacked = 0
    /\ app = [at |-> "idle", connect |-> FALSE]
    /\ owner = <<>> /\ got = [h \in Handles |-> <<>>]
    /\ carried = FALSE /\ muddled = FALSE

TxStep == Receive \/ Fails \/ SppWrite \/ TakeDone
AppReturns == Flushed \/ Waited
Next ==
    \/ Begin \/ InitEvt \/ End \/ CongEvt \/ WriteEvt \/ TxStep \/ AppReturns
    \/ \E h \in Handles : CloseEvt(h) \/ \E s \in BOOLEAN : OpenEvt(h, s)
    \/ \E n \in 1 .. MaxBytes : Write(n)
    \/ \E connect \in BOOLEAN : Disconnect(connect)
BtFairness == WF_btVars(TxStep) /\ WF_btVars(AppReturns)
Spec == Init /\ [][Next]_btVars /\ BtFairness

-----------------------------------------------------------------------------
\* Every variable keeps its kind of value.
TypeOK ==
    /\ bits \subseteq {"running", "connected", "free", "disconnected"}
    /\ link \in [Handles -> {"new", "open", "closing", "gone"}]
    /\ client \in Handles \cup {0}
    /\ Len(queue) <= TxQueue /\ Len(buffer) <= TxMax
    /\ task.at \in {"idle", "send", "ack"} /\ done \in 0 .. 1

\* A peer receives bytes in the order the program wrote them, none twice, and,
\* unless a connection was opened onto unsent bytes, only those written for it.
PeersReadInOrder ==
    \A h \in Handles :
        /\ \A i, j \in DOMAIN got[h] : i < j => got[h][i] < got[h][j]
        /\ ~carried => \A i \in DOMAIN got[h] : owner[got[h][i]] = h

\* Until a second connection is attempted, SPP_CONNECTED is set exactly while
\* _spp_client names an open connection.
ConnectedIsTrue ==
    ~muddled /\ Started =>
        /\ "connected" \in bits <=> client # 0
        /\ client # 0 => link[client] \in {"open", "closing"}

\* disconnect() and connect() return: the flush they begin with sees the queue
\* emptied, whatever becomes of the packets.
CallsReturn == (app.at # "idle") ~> (app.at = "idle")

-----------------------------------------------------------------------------
(***************************************************************************)
(* Proofs, for any connections, sizes of the buffer and the queue, and     *)
(* numbers of bytes.  The bytes that wait, in the buffer, the rest of a    *)
(* packet and the queue, are in the order they were written in and above   *)
(* all that were sent; and unless they were carried over to a new          *)
(* connection, they were written for the present one.                      *)
(***************************************************************************)
SizesAssumed == /\ TxMax \in Nat \ {0} /\ TxQueue \in Nat /\ MaxBytes \in Nat
                /\ Handles \subseteq Nat \ {0}

Ascends(s) == \A i, j \in DOMAIN s : i < j => s[i] < s[j]
Below(S, T) == \A a \in S, b \in T : a < b
Ordered(b, r, q) ==
    /\ Ascends(b) /\ Ascends(r) /\ Below(ToSet(b), ToSet(r))
    /\ \A k \in DOMAIN q :
          /\ Ascends(q[k]) /\ Below(ToSet(b), ToSet(q[k])) /\ Below(ToSet(r), ToSet(q[k]))
          /\ \A l \in DOMAIN q : k < l => Below(ToSet(q[k]), ToSet(q[l]))
Waiting(b, r, q) == ToSet(b) \cup ToSet(r) \cup UNION {ToSet(q[k]) : k \in DOMAIN q}
Unsent == Waiting(buffer, task.rest, queue)

Typed ==
    /\ bits \subseteq {"running", "connected", "free", "disconnected"}
    /\ link \in [Handles -> {"new", "open", "closing", "gone"}]
    /\ client \in Handles \cup {0} /\ Len(queue) <= TxQueue /\ Len(buffer) <= TxMax
    /\ queue \in Seq(Seq(Nat)) /\ buffer \in Seq(Nat)
    /\ task \in [at : {"idle", "send", "ack"}, rest : Seq(Nat)] /\ done \in 0 .. 1
    /\ owner \in Seq(Handles) /\ got \in [Handles -> Seq(Nat)]
InOrder ==
    /\ Ordered(buffer, task.rest, queue) /\ Unsent \subseteq DOMAIN owner
    /\ task.at = "idle" => task.rest = <<>>
    /\ \A h \in Handles : /\ Ascends(got[h]) /\ Below(ToSet(got[h]), Unsent)
                          /\ ToSet(got[h]) \subseteq DOMAIN owner
ForClient ==
    ~carried => /\ client # 0 => \A b \in Unsent : owner[b] = client
                /\ \A h \in Handles : \A b \in ToSet(got[h]) : owner[b] = h
Inv == Typed /\ InOrder /\ ForClient

LEMMA JoinedBytes ==
    ASSUME NEW s \in Seq(Nat), NEW t \in Seq(Nat)
    PROVE  /\ s \o t \in Seq(Nat) /\ Len(s \o t) = Len(s) + Len(t)
           /\ ToSet(s \o t) = ToSet(s) \cup ToSet(t)
           /\ Ascends(s) /\ Ascends(t) /\ Below(ToSet(s), ToSet(t)) => Ascends(s \o t)
<1> DEFINE u == s \o t
<1>1. /\ u \in Seq(Nat) /\ Len(u) = Len(s) + Len(t)
      /\ \A i \in 1 .. Len(s) + Len(t) : u[i] = IF i <= Len(s) THEN s[i] ELSE t[i - Len(s)]
  BY ConcatProperties
<1> HIDE DEF u
<1>2. DOMAIN u = 1 .. Len(s) + Len(t) /\ DOMAIN s = 1 .. Len(s) /\ DOMAIN t = 1 .. Len(t)
  BY <1>1
<1>3. ToSet(u) \subseteq ToSet(s) \cup ToSet(t)
  <2> SUFFICES ASSUME NEW i \in DOMAIN u PROVE u[i] \in ToSet(s) \cup ToSet(t)
    BY DEF ToSet
  <2>1. CASE i <= Len(s)
    BY <1>1, <1>2, <2>1 DEF ToSet
  <2>2. CASE ~(i <= Len(s))
    <3>1. i - Len(s) \in DOMAIN t /\ u[i] = t[i - Len(s)]
      BY <1>1, <1>2, <2>2
    <3> QED
      BY <3>1 DEF ToSet
  <2> QED
    BY <2>1, <2>2
<1>4. ToSet(s) \subseteq ToSet(u)
  <2>1. \A i \in DOMAIN s : i \in DOMAIN u /\ u[i] = s[i]
    BY <1>1, <1>2
  <2> QED
    BY <2>1 DEF ToSet
<1>5. ToSet(t) \subseteq ToSet(u)
  <2>1. ASSUME NEW i \in DOMAIN t PROVE i + Len(s) \in DOMAIN u /\ u[i + Len(s)] = t[i]
    <3>1. /\ i + Len(s) \in 1 .. Len(s) + Len(t) /\ ~(i + Len(s) <= Len(s))
          /\ (i + Len(s)) - Len(s) = i
      BY <1>2, <2>1
    <3>2. u[i + Len(s)] = t[(i + Len(s)) - Len(s)]
      BY <1>1, <3>1
    <3> QED
      BY <1>2, <3>1, <3>2
  <2> QED
    BY <2>1 DEF ToSet
<1>6. ASSUME Ascends(s), Ascends(t), Below(ToSet(s), ToSet(t)), NEW i \in DOMAIN u, NEW j \in DOMAIN u,
             i < j
      PROVE  u[i] < u[j]
  <2>1. CASE j <= Len(s)
    BY <1>1, <1>2, <1>6, <2>1 DEF Ascends
  <2>2. CASE i <= Len(s) /\ ~(j <= Len(s))
    <3>1. /\ i \in 1 .. Len(s) /\ j \in 1 .. Len(s) + Len(t) /\ ~(j <= Len(s))
          /\ i \in 1 .. Len(s) + Len(t) /\ j - Len(s) \in 1 .. Len(t)
      BY <1>2, <2>2
    <3>2. u[i] = s[i] /\ u[j] = t[j - Len(s)]
      BY <1>1, <2>2, <3>1
    <3> QED
      BY <1>2, <1>6, <3>1, <3>2 DEF Below, ToSet
  <2>3. CASE ~(i <= Len(s))
    <3>1. /\ u[i] = t[i - Len(s)] /\ u[j] = t[j - Len(s)] /\ i - Len(s) < j - Len(s)
          /\ i - Len(s) \in DOMAIN t /\ j - Len(s) \in DOMAIN t
      <4>1. i \in 1 .. Len(s) + Len(t) /\ j \in 1 .. Len(s) + Len(t) /\ ~(j <= Len(s))
        BY <1>2, <1>6, <2>3
      <4>2. /\ i - Len(s) \in 1 .. Len(t) /\ j - Len(s) \in 1 .. Len(t)
            /\ i - Len(s) < j - Len(s)
        BY <1>6, <2>3, <4>1
      <4>3. u[i] = t[i - Len(s)] /\ u[j] = t[j - Len(s)]
        BY <1>1, <2>3, <4>1
      <4> QED
        BY <1>2, <4>2, <4>3
    <3> QED
      BY <1>6, <3>1 DEF Ascends
  <2> QED
    BY <1>2, <2>1, <2>2, <2>3
<1> QED
  BY <1>1, <1>3, <1>4, <1>5, <1>6 DEF u, Ascends

\* A sequence cut in two.
LEMMA CutBytes ==
    ASSUME NEW s \in Seq(Nat), NEW n \in 0 .. Len(s)
    PROVE  LET a == SubSeq(s, 1, n)
               b == SubSeq(s, n + 1, Len(s))
           IN  /\ a \in Seq(Nat) /\ Len(a) = n /\ ToSet(a) \subseteq ToSet(s)
               /\ b \in Seq(Nat) /\ Len(b) = Len(s) - n /\ ToSet(b) \subseteq ToSet(s)
               /\ Ascends(s) => Ascends(a) /\ Ascends(b) /\ Below(ToSet(a), ToSet(b))
<1> DEFINE a == SubSeq(s, 1, n)
           b == SubSeq(s, n + 1, Len(s))
<1>1. a \in Seq(Nat) /\ Len(a) = n /\ \A i \in 1 .. n : a[i] = s[i]
  BY SubSeqProperties
<1>2. b \in Seq(Nat) /\ Len(b) = Len(s) - n /\ \A i \in 1 .. Len(s) - n : b[i] = s[n + i]
  BY SubSeqProperties
<1> HIDE DEF a, b
<1>3. /\ DOMAIN a = 1 .. n /\ DOMAIN b = 1 .. Len(s) - n /\ DOMAIN s = 1 .. Len(s)
  BY <1>1, <1>2
<1>4. \A i \in DOMAIN a : i \in DOMAIN s /\ a[i] = s[i]
  BY <1>1, <1>3
<1>5. ASSUME NEW i \in DOMAIN b PROVE n + i \in DOMAIN s /\ b[i] = s[n + i]
  <2>1. i \in 1 .. Len(s) - n /\ n + i \in 1 .. Len(s)
    BY <1>3
  <2> QED
    BY <1>2, <1>3, <2>1
<1>6. ToSet(a) \subseteq ToSet(s) /\ ToSet(b) \subseteq ToSet(s)
  BY <1>4, <1>5 DEF ToSet
<1>7. ASSUME Ascends(s) PROVE Ascends(a) /\ Ascends(b) /\ Below(ToSet(a), ToSet(b))
  <2>1. Ascends(a)
    BY <1>4, <1>7 DEF Ascends
  <2>2. Ascends(b)
    <3> SUFFICES ASSUME NEW i \in DOMAIN b, NEW j \in DOMAIN b, i < j PROVE b[i] < b[j]
      BY DEF Ascends
    <3>1. n + i < n + j
      BY <1>3
    <3> QED
      BY <1>5, <1>7, <3>1 DEF Ascends
  <2>3. \A i \in DOMAIN a, j \in DOMAIN b : a[i] < b[j]
    <3> SUFFICES ASSUME NEW i \in DOMAIN a, NEW j \in DOMAIN b PROVE a[i] < b[j]
      OBVIOUS
    <3>1. i < n + j
      BY <1>3
    <3> QED
      BY <1>4, <1>5, <1>7, <3>1 DEF Ascends
  <2> QED
    BY <2>1, <2>2, <2>3 DEF Below, ToSet
<1> QED
  BY <1>1, <1>2, <1>6, <1>7 DEF a, b

LEMMA NoBytes == /\ <<>> \in Seq(Nat) /\ Len(<<>>) = 0 /\ ToSet(<<>>) = {} /\ Ascends(<<>>)
                 /\ <<>> \in Seq(Seq(Nat)) /\ DOMAIN <<>> = {}
BY DEF ToSet, Ascends

\* What becomes of the order when bytes are dropped.
LEMMA Dropped ==
    ASSUME NEW b, NEW r, NEW q, Ordered(b, r, q), NEW c \in {b, <<>>}
    PROVE  /\ Ordered(c, r, q) /\ Waiting(c, r, q) \subseteq Waiting(b, r, q)
           /\ Ordered(c, <<>>, q) /\ Waiting(c, <<>>, q) \subseteq Waiting(b, r, q)
           /\ Ordered(c, <<>>, <<>>) /\ Waiting(c, <<>>, <<>>) \subseteq Waiting(b, r, q)
<1> DEFINE e == <<>>
<1>1. ToSet(e) = {} /\ Ascends(e) /\ DOMAIN e = {}
  BY NoBytes
<1> HIDE DEF e
<1>2. c = b \/ c = e
  BY DEF e
<1>3. Ascends(c) /\ ToSet(c) \subseteq ToSet(b)
  BY <1>1, <1>2 DEF Ordered
<1>4. Ordered(c, r, q) /\ Ordered(c, e, q) /\ Ordered(c, e, e)
  BY <1>1, <1>3 DEF Ordered, Below
<1> QED
  BY <1>1, <1>3, <1>4 DEF Waiting, e

\* A step that writes and sends no byte, and gives none to another client.
LEMMA Keeps ==
    ASSUME Inv, Typed', UNCHANGED <<owner, got>>, Ordered(buffer, task.rest, queue)',
           task'.at = "idle" => task'.rest = <<>>, Unsent' \subseteq Unsent, carried => carried',
           ~carried' /\ client' # 0 => client' = client \/ Unsent' = {}
    PROVE  Inv'
<1>1. InOrder'
  BY DEF Inv, InOrder, Below
<1>2. ForClient'
  BY DEF Inv, ForClient
<1> QED
  BY <1>1, <1>2 DEF Inv

\* The steps that leave the bytes as they are, the program's calls and the events.
LEMMA InvQuiet ==
    ASSUME SizesAssumed, Inv,
           \/ Begin \/ InitEvt \/ CongEvt \/ WriteEvt \/ Flushed \/ Waited
           \/ \E h \in Handles : CloseEvt(h)
           \/ \E connect \in BOOLEAN : Disconnect(connect)
    PROVE  Inv'
<1>1. UNCHANGED <<queue, buffer, task, got, owner, carried>>
  BY DEF Begin, InitEvt, CongEvt, WriteEvt, Flushed, Waited, CloseEvt, Disconnect, linkVars, txVars
<1>2. client' = client \/ client' = 0
  BY DEF Begin, InitEvt, CongEvt, WriteEvt, Flushed, Waited, CloseEvt, Disconnect, linkVars, txVars
<1>3. bits' \subseteq {"running", "connected", "free", "disconnected"}
  BY DEF Begin, InitEvt, CongEvt, WriteEvt, Flushed, Waited, CloseEvt, Disconnect, linkVars, txVars,
         Inv, Typed, Offline
<1>4. link' \in [Handles -> {"new", "open", "closing", "gone"}]
  BY DEF Begin, InitEvt, CongEvt, WriteEvt, Flushed, Waited, CloseEvt, Disconnect, linkVars, txVars,
         Inv, Typed
<1>5. done' \in 0 .. 1
  <2>1. done' = done \/ done' = 1
    BY DEF Begin, InitEvt, CongEvt, WriteEvt, Flushed, Waited, CloseEvt, Disconnect, linkVars, txVars
  <2> QED
    BY <2>1 DEF Inv, Typed
<1>6. Typed'
  BY <1>1, <1>2, <1>3, <1>4, <1>5 DEF Inv, Typed
<1>7. Ordered(buffer, task.rest, queue)' /\ Unsent' = Unsent /\ (task'.at = "idle" => task'.rest = <<>>)
  BY <1>1 DEF Inv, InOrder, Unsent
<1> QED
  BY <1>1, <1>2, <1>6, <1>7, Keeps

\* end(), a new connection and a packet that is not sent drop bytes.
LEMMA InvDrops ==
    ASSUME SizesAssumed, Inv,
           End \/ Fails \/ \E h \in Handles, served \in BOOLEAN : OpenEvt(h, served)
    PROVE  Inv'
<1> USE DEF Inv
<1> DEFINE e == <<>>
<1>0. e \in Seq(Nat) /\ e \in Seq(Seq(Nat)) /\ Len(e) = 0
  BY NoBytes
<1>1. \A c \in {buffer, e} :
        /\ Ordered(c, task.rest, queue) /\ Waiting(c, task.rest, queue) \subseteq Unsent
        /\ Ordered(c, e, queue) /\ Waiting(c, e, queue) \subseteq Unsent
        /\ Ordered(c, e, e) /\ Waiting(c, e, e) \subseteq Unsent
  BY Dropped DEF InOrder, Unsent
<1>2. CASE End
  <2>1. /\ queue' = e /\ buffer' = buffer /\ task'.at = "idle" /\ task'.rest = e /\ done' = 0
        /\ client' = 0 /\ bits' = {} /\ UNCHANGED <<owner, got, carried>>
    BY <1>2 DEF End, Resting
  <2>2. task' \in [at : {"idle", "send", "ack"}, rest : Seq(Nat)]
    BY <1>0, <1>2 DEF End, Resting
  <2>3. link' \in [Handles -> {"new", "open", "closing", "gone"}]
    BY <1>2 DEF End
  <2> HIDE DEF e
  <2>4. Typed'
    BY <1>0, <2>1, <2>2, <2>3 DEF Typed, SizesAssumed
  <2>5. Ordered(buffer, task.rest, queue)' /\ Unsent' \subseteq Unsent
    BY <1>1, <2>1 DEF Unsent
  <2> QED
    BY <2>1, <2>4, <2>5, Keeps DEF e
<1>3. CASE Fails
  <2>1. /\ task'.at = "idle" /\ task'.rest = e
        /\ UNCHANGED <<queue, buffer, done, bits, link, client, owner, got, carried>>
    BY <1>3 DEF Fails, Resting, linkVars
  <2>2. task' \in [at : {"idle", "send", "ack"}, rest : Seq(Nat)]
    BY <1>0, <1>3 DEF Fails, Resting
  <2> HIDE DEF e
  <2>3. Typed'
    BY <2>1, <2>2 DEF Typed
  <2>4. Ordered(buffer, task.rest, queue)' /\ Unsent' \subseteq Unsent
    BY <1>1, <2>1 DEF Unsent
  <2> QED
    BY <2>1, <2>3, <2>4, Keeps DEF e
<1>4. ASSUME NEW h \in Handles, NEW served \in BOOLEAN, OpenEvt(h, served) PROVE Inv'
  <2>1. /\ UNCHANGED <<queue, task, done, owner, got>>
        /\ bits' = (bits \ {"disconnected"}) \cup {"connected"} \cup (IF served THEN {} ELSE {"free"})
        /\ \/ /\ client = 0 /\ client' = h /\ link' = [link EXCEPT ![h] = "open"]
              /\ buffer' \in {buffer, e}
              /\ carried' <=> (carried \/ buffer' \o task.rest \o queue # e)
           \/ /\ client # 0 /\ link' = [link EXCEPT ![h] = "closing"] /\ UNCHANGED <<client, buffer, carried>>
    BY <1>4 DEF OpenEvt
  <2>2. bits' \subseteq {"running", "connected", "free", "disconnected"}
    BY <2>1 DEF Typed
  <2>3. link' \in [Handles -> {"new", "open", "closing", "gone"}]
    BY <2>1 DEF Typed
  <2>4. ~carried' /\ client = 0 => ToSet(buffer') = {} /\ ToSet(task.rest) = {} /\ queue = e
    <3> SUFFICES ASSUME buffer' \o task.rest \o queue = e, buffer' \in Seq(Nat),
                        task.rest \in Seq(Nat), queue \in Seq(Seq(Nat))
                 PROVE  ToSet(buffer') = {} /\ ToSet(task.rest) = {} /\ queue = e
      BY <1>0, <2>1 DEF Typed
    <3>1. Len(buffer' \o task.rest \o queue) = Len(buffer') + Len(task.rest) + Len(queue)
      OBVIOUS
    <3>2. Len(buffer') = 0 /\ Len(task.rest) = 0 /\ Len(queue) = 0
      BY <1>0, <3>1
    <3>3. buffer' = <<>> /\ task.rest = <<>> /\ queue = <<>>
      BY <3>2, EmptySeq
    <3> QED
      BY <3>3, NoBytes
  <2> HIDE DEF e
  <2>5. Typed'
    <3>1. client' \in Handles \cup {0}
      BY <2>1 DEF Typed
    <3>2. buffer' = buffer \/ buffer' = e
      BY <2>1
    <3>3. buffer' \in Seq(Nat) /\ Len(buffer') <= TxMax
      <4>1. CASE buffer' = buffer
        BY <4>1 DEF Typed
      <4>2. CASE buffer' = e
        BY <1>0, <4>2 DEF SizesAssumed
      <4> QED
        BY <3>2, <4>1, <4>2
    <3> QED
      BY <2>1, <2>2, <2>3, <3>1, <3>3 DEF Typed
  <2>6. Ordered(buffer, task.rest, queue)' /\ Unsent' \subseteq Unsent
    BY <1>1, <2>1 DEF Unsent
  <2>7. ~carried' /\ client = 0 => Unsent' = {}
    BY <2>1, <2>4, NoBytes DEF Unsent, Waiting, e
  <2>8. (carried => carried') /\ (task'.at = "idle" => task'.rest = <<>>)
    BY <2>1 DEF InOrder
  <2> QED
    BY <2>1, <2>5, <2>6, <2>7, <2>8, Keeps
<1> QED
  BY <1>2, <1>3, <1>4

\* _spp_tx_task takes a packet of the queue, or the rest of one, into the buffer.
LEMMA InvReceive == ASSUME SizesAssumed, Inv, Receive PROVE Inv'
<1> USE DEF Inv, SizesAssumed
<1> DEFINE packet == Head(queue)
           left == Tail(queue)
           room == TxMax - Len(buffer)
<1>1. /\ packet \in Seq(Nat) /\ left \in Seq(Seq(Nat)) /\ queue # <<>>
      /\ DOMAIN queue = 1 .. Len(queue) /\ 1 \in DOMAIN queue /\ packet = queue[1]
      /\ Len(left) <= TxQueue /\ DOMAIN left = 1 .. Len(queue) - 1
      /\ \A k \in DOMAIN left : left[k] = queue[k + 1] /\ k + 1 \in DOMAIN queue
  <2>1. queue \in Seq(Seq(Nat)) /\ queue # <<>> /\ Len(queue) <= TxQueue
    BY DEF Receive, Typed
  <2>2. Len(queue) \in Nat \ {0} /\ DOMAIN queue = 1 .. Len(queue)
    BY <2>1
  <2>3. /\ packet \in Seq(Nat) /\ left \in Seq(Seq(Nat)) /\ Len(left) = Len(queue) - 1
        /\ \A k \in 1 .. Len(left) : left[k] = queue[k + 1]
    BY <2>1, HeadTailProperties
  <2>4. packet = queue[1]
    BY <2>1
  <2> HIDE DEF packet, left
  <2>5. DOMAIN left = 1 .. Len(queue) - 1
    BY <2>3
  <2>6. /\ \A k \in 1 .. Len(queue) - 1 : k + 1 \in 1 .. Len(queue)
        /\ Len(queue) - 1 <= TxQueue /\ 1 \in 1 .. Len(queue)
    BY <2>1, <2>2
  <2> QED
    BY <2>1, <2>2, <2>3, <2>4, <2>5, <2>6
<1>2. /\ task.at = "idle" /\ ToSet(task.rest) = {} /\ queue' = left
      /\ IF Len(packet) <= room
         THEN /\ buffer' = buffer \o packet
              /\ task' = [task EXCEPT !.at =
                            IF Len(packet) = room \/ Len(queue) = 1 THEN "send" ELSE "idle"]
         ELSE /\ buffer' = buffer \o SubSeq(packet, 1, room)
              /\ task' = [at |-> "send", rest |-> SubSeq(packet, room + 1, Len(packet))]
      /\ UNCHANGED <<bits, link, client, carried, done, owner, got>>
  BY NoBytes DEF Receive, InOrder, linkVars
<1> HIDE DEF packet, left
<1>3. /\ Ascends(packet) /\ Below(ToSet(buffer), ToSet(packet)) /\ ToSet(packet) \subseteq Unsent
      /\ \A k \in DOMAIN left : Below(ToSet(packet), ToSet(left[k]))
      /\ \A k \in DOMAIN left : /\ Ascends(left[k]) /\ ToSet(left[k]) \subseteq Unsent
                                /\ Below(ToSet(buffer), ToSet(left[k]))
      /\ \A k, l \in DOMAIN left : k < l => Below(ToSet(left[k]), ToSet(left[l]))
  <2>1. \A k \in DOMAIN queue : ToSet(queue[k]) \subseteq Unsent
    BY DEF Unsent, Waiting
  <2>2. \A k \in DOMAIN left : 1 < k + 1
    BY <1>1
  <2>3. \A k, l \in DOMAIN left : k < l => k + 1 < l + 1
    BY <1>1
  <2> QED
    BY <1>1, <2>1, <2>2, <2>3 DEF InOrder, Ordered
<1>4. Ascends(buffer) /\ ToSet(buffer) \subseteq Unsent /\ buffer \in Seq(Nat)
  BY DEF InOrder, Ordered, Unsent, Waiting, Typed
<1>5. PICK a \in Seq(Nat), r \in Seq(Nat) :
        /\ buffer' = buffer \o a /\ task'.rest = r /\ task'.at \in {"idle", "send", "ack"}
        /\ task' \in [at : {"idle", "send", "ack"}, rest : Seq(Nat)]
        /\ Len(buffer) + Len(a) <= TxMax /\ (task'.at = "idle" => r = <<>>)
        /\ ToSet(a) \subseteq ToSet(packet) /\ ToSet(r) \subseteq ToSet(packet)
        /\ Ascends(a) /\ Ascends(r) /\ Below(ToSet(a), ToSet(r))
  <2>1. CASE Len(packet) <= room
    <3>1. /\ task'.rest = task.rest /\ task'.at \in {"idle", "send"}
          /\ task' \in [at : {"idle", "send", "ack"}, rest : Seq(Nat)]
      BY <1>2, <2>1 DEF Typed
    <3>2. task.rest = <<>> /\ task.rest \in Seq(Nat) /\ Ascends(task.rest)
      BY <1>2 DEF InOrder, Ordered, Typed
    <3>3. Len(buffer) + Len(packet) <= TxMax
      BY <1>1, <1>4, <2>1
    <3> QED
      BY <1>1, <1>2, <1>3, <2>1, <3>1, <3>2, <3>3 DEF Below
  <2>2. CASE ~(Len(packet) <= room)
    <3> DEFINE a == SubSeq(packet, 1, room)
               r == SubSeq(packet, room + 1, Len(packet))
    <3>1. room \in 0 .. Len(packet)
      BY <1>1, <1>4, <2>2 DEF Typed
    <3>2. /\ a \in Seq(Nat) /\ Len(a) = room /\ ToSet(a) \subseteq ToSet(packet)
          /\ r \in Seq(Nat) /\ ToSet(r) \subseteq ToSet(packet)
          /\ Ascends(a) /\ Ascends(r) /\ Below(ToSet(a), ToSet(r))
      BY <1>1, <1>3, <3>1, CutBytes
    <3>3. buffer' = buffer \o a /\ task' = [at |-> "send", rest |-> r]
      BY <1>2, <2>2
    <3> HIDE DEF a, r
    <3>4. Len(buffer) + Len(a) <= TxMax
      BY <1>4, <3>2
    <3> QED
      BY <3>2, <3>3, <3>4
  <2> QED
    BY <2>1, <2>2
<1>6. /\ buffer' \in Seq(Nat) /\ Len(buffer') <= TxMax
      /\ ToSet(buffer') = ToSet(buffer) \cup ToSet(a)
      /\ Ascends(buffer')
  <2>1. Below(ToSet(buffer), ToSet(a))
    BY <1>3, <1>5 DEF Below
  <2> QED
    BY <1>4, <1>5, <2>1, JoinedBytes
<1>7. Ordered(buffer, task.rest, queue)'
  <2>1. Ascends(buffer') /\ Ascends(task'.rest) /\ Below(ToSet(buffer'), ToSet(task'.rest))
    BY <1>3, <1>5, <1>6 DEF Below
  <2>2. \A k \in DOMAIN left : /\ Below(ToSet(buffer'), ToSet(left[k]))
                               /\ Below(ToSet(task'.rest), ToSet(left[k]))
    BY <1>3, <1>5, <1>6 DEF Below
  <2> QED
    BY <1>2, <1>3, <2>1, <2>2 DEF Ordered
<1>8. Unsent' \subseteq Unsent
  BY <1>2, <1>3, <1>4, <1>5, <1>6 DEF Unsent, Waiting
<1>9. Typed'
  BY <1>1, <1>2, <1>5, <1>6 DEF Typed
<1> QED
  BY <1>2, <1>5, <1>7, <1>8, <1>9, Keeps

LEMMA InvTakeDone == ASSUME SizesAssumed, Inv, TakeDone PROVE Inv'
<1> USE DEF Inv, SizesAssumed
<1> DEFINE n == IF Len(task.rest) < TxMax THEN Len(task.rest) ELSE TxMax
           rest == task.rest
<1>1. /\ done' = 0 /\ UNCHANGED <<queue, bits, link, client, carried, owner, got>>
      /\ IF n = 0 THEN task' = Resting /\ buffer' = buffer
         ELSE /\ buffer' = SubSeq(rest, 1, n)
              /\ task' = [at |-> IF n = TxMax \/ queue = <<>> THEN "send" ELSE "idle",
                          rest |-> SubSeq(rest, n + 1, Len(rest))]
  BY DEF TakeDone, linkVars
<1>2. rest \in Seq(Nat) /\ n \in 0 .. Len(rest) /\ n <= TxMax /\ Ascends(rest)
  BY DEF Typed, InOrder, Ordered
<1>3. CASE n = 0
  <2> DEFINE e == <<>>
  <2>1. task'.at = "idle" /\ task'.rest = e /\ buffer' = buffer
    BY <1>1, <1>3 DEF Resting
  <2>2. task' \in [at : {"idle", "send", "ack"}, rest : Seq(Nat)]
    <3>1. e \in Seq(Nat) /\ task' = [at |-> "idle", rest |-> e]
      BY <1>1, <1>3, NoBytes DEF Resting
    <3> HIDE DEF e
    <3> QED
      BY <3>1
  <2>3. Ordered(buffer, e, queue) /\ Waiting(buffer, e, queue) \subseteq Unsent
    BY Dropped DEF InOrder, Unsent
  <2> HIDE DEF e
  <2>4. Typed'
    BY <1>1, <2>1, <2>2 DEF Typed
  <2>5. Ordered(buffer, task.rest, queue)' /\ Unsent' \subseteq Unsent
    BY <1>1, <2>1, <2>3 DEF Unsent
  <2> QED
    BY <1>1, <2>1, <2>4, <2>5, Keeps DEF e
<1>4. CASE n # 0
  <2> DEFINE a == SubSeq(rest, 1, n)
             b == SubSeq(rest, n + 1, Len(rest))
  <2>1. /\ a \in Seq(Nat) /\ Len(a) = n /\ ToSet(a) \subseteq ToSet(rest)
        /\ b \in Seq(Nat) /\ Len(b) = Len(rest) - n /\ ToSet(b) \subseteq ToSet(rest)
        /\ Ascends(a) /\ Ascends(b) /\ Below(ToSet(a), ToSet(b))
    BY <1>2, CutBytes
  <2>2. /\ buffer' = a
        /\ task' = [at |-> IF n = TxMax \/ queue = <<>> THEN "send" ELSE "idle", rest |-> b]
    BY <1>1, <1>4
  <2>3. n # TxMax => Len(b) = 0
    BY <1>2, <2>1
  <2> HIDE DEF a, b
  <2>4. /\ task'.rest = b /\ (task'.at = "idle" => b = <<>>)
        /\ task' \in [at : {"idle", "send", "ack"}, rest : Seq(Nat)]
    BY <2>1, <2>2, <2>3, EmptySeq
  <2>5. Typed'
    <3>1. buffer' \in Seq(Nat) /\ Len(buffer') <= TxMax /\ done' = 0
      BY <1>1, <1>2, <2>1, <2>2
    <3> QED
      BY <1>1, <2>4, <3>1 DEF Typed
  <2>6. Ordered(buffer, task.rest, queue)'
    BY <1>1, <2>1, <2>2, <2>4 DEF InOrder, Ordered, Below
  <2>7. Unsent' \subseteq Unsent
    BY <1>1, <2>1, <2>2, <2>4 DEF Unsent, Waiting
  <2> QED
    BY <1>1, <2>4, <2>5, <2>6, <2>7, Keeps
<1> QED
  BY <1>3, <1>4

\* The buffer goes to the peer of _spp_client.
LEMMA InvSppWrite == ASSUME SizesAssumed, Inv, SppWrite PROVE Inv'
<1> USE DEF Inv, SizesAssumed
<1> DEFINE e == <<>>
<1>0. e \in Seq(Nat) /\ Len(e) = 0 /\ ToSet(e) = {}
  BY NoBytes
<1>1. PICK c \in Handles : c = client
  BY DEF SppWrite, Typed
<1>2. /\ got' = [got EXCEPT ![c] = got[c] \o buffer] /\ buffer' = e /\ task' = [task EXCEPT !.at = "ack"]
      /\ UNCHANGED <<bits, link, client, carried, queue, done, owner>>
  BY <1>1 DEF SppWrite, linkVars
<1>3. /\ task'.rest = task.rest /\ task'.at = "ack"
      /\ task' \in [at : {"idle", "send", "ack"}, rest : Seq(Nat)]
  BY <1>2 DEF Typed
<1>4. Ordered(e, task.rest, queue) /\ Waiting(e, task.rest, queue) \subseteq Unsent
  BY Dropped DEF InOrder, Unsent
<1>5. Ascends(buffer) /\ ToSet(buffer) \subseteq Unsent /\ buffer \in Seq(Nat)
  BY DEF InOrder, Ordered, Unsent, Waiting, Typed
<1>6. Below(ToSet(buffer), Waiting(e, task.rest, queue))
  BY <1>0 DEF InOrder, Ordered, Waiting, Below
<1> HIDE DEF e
<1>7. /\ got'[c] \in Seq(Nat) /\ ToSet(got'[c]) = ToSet(got[c]) \cup ToSet(buffer) /\ Ascends(got'[c])
      /\ \A h \in Handles : h # c => got'[h] = got[h]
  <2>1. got[c] \in Seq(Nat) /\ Ascends(got[c]) /\ Below(ToSet(got[c]), ToSet(buffer))
    BY <1>5 DEF InOrder, Typed, Below
  <2>2. got'[c] = got[c] \o buffer /\ \A h \in Handles : h # c => got'[h] = got[h]
    BY <1>2 DEF Typed
  <2> QED
    BY <1>5, <2>1, <2>2, JoinedBytes
<1>8. Unsent' = Waiting(e, task.rest, queue)
  BY <1>2, <1>3 DEF Unsent
<1>9. Typed'
  <2>1. got' \in [Handles -> Seq(Nat)]
    BY <1>2, <1>7 DEF Typed
  <2>2. buffer' \in Seq(Nat) /\ Len(buffer') <= TxMax
    BY <1>0, <1>2
  <2> QED
    BY <1>2, <1>3, <2>1, <2>2 DEF Typed
<1>10. InOrder'
  <2>1. Ordered(buffer, task.rest, queue)'
    BY <1>2, <1>3, <1>4
  <2>2. Unsent' \subseteq DOMAIN owner'
    BY <1>2, <1>4, <1>8 DEF InOrder
  <2>3. ASSUME NEW h \in Handles
        PROVE  /\ Ascends(got'[h]) /\ Below(ToSet(got'[h]), Unsent')
               /\ ToSet(got'[h]) \subseteq DOMAIN owner'
    <3>1. CASE h = c
      BY <1>2, <1>4, <1>5, <1>6, <1>7, <1>8, <3>1 DEF InOrder, Below
    <3>2. CASE h # c
      BY <1>2, <1>4, <1>7, <1>8, <3>2 DEF InOrder, Below
    <3> QED
      BY <3>1, <3>2
  <2> QED
    BY <1>3, <2>1, <2>2, <2>3 DEF InOrder
<1>11. ForClient'
  <2> SUFFICES ASSUME ~carried
               PROVE  /\ \A b \in Unsent' : owner[b] = client
                      /\ \A h \in Handles : \A b \in ToSet(got'[h]) : owner[b] = h
    BY <1>2 DEF ForClient
  <2>1. \A b \in Unsent : owner[b] = c
    BY <1>1 DEF ForClient, SppWrite
  <2>2. ASSUME NEW h \in Handles, NEW b \in ToSet(got'[h]) PROVE owner[b] = h
    <3>1. CASE h = c
      BY <1>5, <1>7, <2>1, <2>2, <3>1 DEF ForClient
    <3>2. CASE h # c
      BY <1>7, <2>2, <3>2 DEF ForClient
    <3> QED
      BY <3>1, <3>2
  <2> QED
    BY <1>1, <1>4, <1>8, <2>1, <2>2
<1> QED
  BY <1>9, <1>10, <1>11

\* A packet is queued behind all others, with the numbers that come next.
LEMMA InvWrite == ASSUME SizesAssumed, Inv, NEW n \in 1 .. MaxBytes, Write(n) PROVE Inv'
<1> USE DEF Inv, SizesAssumed
<1> DEFINE packet == [i \in 1 .. n |-> Len(owner) + i]
           for == [i \in 1 .. n |-> client]
           old == Len(queue)
<1>1. client \in Handles /\ Len(owner) \in Nat /\ n \in Nat /\ old \in Nat /\ old < TxQueue
  BY DEF Write, Typed
<1>2. /\ packet \in Seq(Nat) /\ Ascends(packet)
      /\ ToSet(packet) \subseteq Len(owner) + 1 .. Len(owner) + n
  <2>1. \A i \in 1 .. n : Len(owner) + i \in Nat
    BY <1>1
  <2>2. packet \in [1 .. n -> Nat]
    BY <2>1
  <2>3. packet \in Seq(Nat)
    BY <1>1, <2>2
  <2>4. Ascends(packet)
    BY <1>1 DEF Ascends
  <2>5. \A i \in 1 .. n : Len(owner) + i \in Len(owner) + 1 .. Len(owner) + n
    BY <1>1
  <2> QED
    BY <2>3, <2>4, <2>5 DEF ToSet
<1>3. for \in Seq(Handles) /\ Len(for) = n /\ \A i \in 1 .. n : for[i] = client
  BY <1>1
<1>4. /\ queue' = Append(queue, packet) /\ owner' = owner \o for
      /\ UNCHANGED <<bits, link, client, carried, buffer, task, done, got>>
  BY DEF Write, linkVars
<1> HIDE DEF packet, for
<1>5. /\ queue' \in Seq(Seq(Nat)) /\ DOMAIN queue' = 1 .. old + 1 /\ DOMAIN queue = 1 .. old
      /\ Len(queue') = old + 1 /\ queue'[old + 1] = packet
      /\ \A k \in 1 .. old : queue'[k] = queue[k]
  BY <1>1, <1>2, <1>4, AppendProperties DEF Typed
<1>6. /\ owner' \in Seq(Handles) /\ DOMAIN owner' = 1 .. Len(owner) + n /\ DOMAIN owner = 1 .. Len(owner)
      /\ \A b \in DOMAIN owner : owner'[b] = owner[b]
      /\ \A b \in Len(owner) + 1 .. Len(owner) + n : owner'[b] = client
  <2>1. /\ owner' \in Seq(Handles) /\ Len(owner') = Len(owner) + n
        /\ \A b \in 1 .. Len(owner) + n :
              owner'[b] = IF b <= Len(owner) THEN owner[b] ELSE for[b - Len(owner)]
    <3>1. owner \in Seq(Handles)
      BY DEF Typed
    <3>2. /\ owner \o for \in Seq(Handles) /\ Len(owner \o for) = Len(owner) + Len(for)
          /\ \A b \in 1 .. Len(owner) + Len(for) :
                (owner \o for)[b] = IF b <= Len(owner) THEN owner[b] ELSE for[b - Len(owner)]
      BY <1>3, <3>1, ConcatProperties
    <3> QED
      BY <1>3, <1>4, <3>2
  <2>2. ASSUME NEW b \in Len(owner) + 1 .. Len(owner) + n PROVE owner'[b] = client
    <3>1. /\ b \in 1 .. Len(owner) + n /\ ~(b <= Len(owner)) /\ b - Len(owner) \in 1 .. n
      BY <1>1
    <3> QED
      BY <1>3, <2>1, <3>1
  <2>3. ASSUME NEW b \in 1 .. Len(owner) PROVE owner'[b] = owner[b]
    BY <1>1, <2>1
  <2> QED
    BY <1>1, <2>1, <2>2, <2>3 DEF Typed
<1>7. Unsent' = Unsent \cup ToSet(packet)
  <2>1. \A k \in DOMAIN queue' : k \in DOMAIN queue \/ k = old + 1
    BY <1>1, <1>5
  <2>2. DOMAIN queue \subseteq DOMAIN queue' /\ old + 1 \in DOMAIN queue'
    BY <1>1, <1>5
  <2>3. UNION {ToSet(queue'[k]) : k \in DOMAIN queue'}
        = (UNION {ToSet(queue[k]) : k \in DOMAIN queue}) \cup ToSet(packet)
    <3>1. \A k \in DOMAIN queue : ToSet(queue'[k]) = ToSet(queue[k])
      BY <1>5
    <3>2. ToSet(queue'[old + 1]) = ToSet(packet)
      BY <1>5
    <3> QED
      BY <2>1, <2>2, <3>1, <3>2
  <2> QED
    BY <1>4, <2>3 DEF Unsent, Waiting
<1>8. /\ \A b \in ToSet(packet) : b \in DOMAIN owner' /\ b \in Nat /\ b > Len(owner)
      /\ \A b \in Unsent : b \in DOMAIN owner' /\ b <= Len(owner)
  BY <1>1, <1>2, <1>6 DEF InOrder
<1>9. Below(Unsent, ToSet(packet))
  BY <1>1, <1>6, <1>8 DEF Below
<1>10. Ordered(buffer, task.rest, queue)'
  <2>1. /\ Below(ToSet(buffer), ToSet(packet)) /\ Below(ToSet(task.rest), ToSet(packet))
        /\ \A k \in DOMAIN queue : Below(ToSet(queue[k]), ToSet(packet))
    BY <1>9 DEF Unsent, Waiting, Below
  <2>2. \A k \in DOMAIN queue' : \/ k \in DOMAIN queue /\ queue'[k] = queue[k]
                                 \/ k = old + 1 /\ queue'[k] = packet
    BY <1>1, <1>5
  <2>3. \A k, l \in DOMAIN queue' : k < l => k \in DOMAIN queue
    BY <1>1, <1>5
  <2> QED
    BY <1>2, <1>4, <2>1, <2>2, <2>3 DEF InOrder, Ordered
<1>11. Typed'
  <2>1. Len(queue') <= TxQueue
    BY <1>1, <1>5
  <2>2. /\ queue' \in Seq(Seq(Nat)) /\ owner' \in Seq(Handles)
        /\ bits' = bits /\ link' = link /\ client' = client /\ buffer' = buffer
        /\ task' = task /\ done' = done /\ got' = got
    BY <1>4, <1>5, <1>6
  <2> QED
    BY <2>1, <2>2 DEF Typed
<1>12. InOrder'
  <2>1. ASSUME NEW h \in Handles
        PROVE  Below(ToSet(got[h]), ToSet(packet)) /\ ToSet(got[h]) \subseteq DOMAIN owner'
    <3>1. \A b \in ToSet(got[h]) : b \in 1 .. Len(owner)
      BY <1>6 DEF InOrder
    <3>2. \A b \in ToSet(got[h]) : b \in DOMAIN owner' /\ b <= Len(owner) /\ b \in Nat
      BY <1>1, <1>6, <3>1
    <3> QED
      BY <1>1, <1>8, <3>2 DEF Below
  <2>2. \A h \in Handles : Below(ToSet(got[h]), Unsent')
    BY <1>7, <2>1 DEF InOrder, Below
  <2> QED
    BY <1>4, <1>7, <1>8, <1>10, <2>1, <2>2 DEF InOrder
<1>13. ForClient'
  <2>1. \A b \in ToSet(packet) : owner'[b] = client
    BY <1>2, <1>6
  <2>2. \A b \in Unsent : owner'[b] = owner[b]
    BY <1>6 DEF InOrder
  <2>3. \A h \in Handles : \A b \in ToSet(got[h]) : owner'[b] = owner[b]
    BY <1>6 DEF InOrder
  <2> QED
    BY <1>4, <1>7, <2>1, <2>2, <2>3 DEF ForClient
<1> QED
  BY <1>11, <1>12, <1>13

LEMMA InvInit == ASSUME SizesAssumed PROVE Init => Inv
<1> SUFFICES ASSUME Init PROVE Inv
  OBVIOUS
<1> DEFINE e == <<>>
<1>1. /\ e \in Seq(Nat) /\ Len(e) = 0 /\ ToSet(e) = {} /\ Ascends(e) /\ DOMAIN e = {}
      /\ e \in Seq(Seq(Nat)) /\ e \in Seq(Handles)
  BY NoBytes
<1>2. /\ queue = e /\ buffer = e /\ task = [at |-> "idle", rest |-> e] /\ owner = e /\ client = 0
      /\ got = [h \in Handles |-> e] /\ bits = {} /\ done = 0 /\ link = [h \in Handles |-> "new"]
  BY DEF Init, Resting
<1> HIDE DEF e
<1>3. Typed
  BY <1>1, <1>2 DEF Typed, SizesAssumed
<1>4. Unsent = {} /\ Ordered(buffer, task.rest, queue)
  BY <1>1, <1>2 DEF Unsent, Waiting, Ordered, Below
<1>5. InOrder
  BY <1>1, <1>2, <1>4 DEF InOrder, Below, e
<1>6. ForClient
  BY <1>1, <1>2 DEF ForClient
<1> QED
  BY <1>3, <1>5, <1>6 DEF Inv

LEMMA InvNext == ASSUME SizesAssumed, Inv, [Next]_btVars PROVE Inv'
<1>1. CASE UNCHANGED btVars
  BY <1>1 DEF btVars, Inv, Typed, InOrder, ForClient, Unsent
<1>2. CASE Next
  BY <1>2, InvQuiet, InvDrops, InvReceive, InvTakeDone, InvSppWrite, InvWrite
     DEF Next, TxStep, AppReturns
<1> QED
  BY <1>1, <1>2

\* The buffers and queues keep their sizes, and each variable its kind of value.
THEOREM SpecTypeOK == ASSUME SizesAssumed PROVE Spec => []TypeOK
<1>1. Inv => TypeOK
  BY DEF Inv, Typed, TypeOK
<1> QED
  BY InvInit, InvNext, <1>1, PTL DEF Spec

\* What the peers of a serial port read is in the order in which the program wrote it, and
\* for them, whatever fails, is congested or is ended between (_spp_tx_task).
THEOREM SpecPeersReadInOrder == ASSUME SizesAssumed PROVE Spec => []PeersReadInOrder
<1>1. Inv => PeersReadInOrder
  BY DEF Inv, InOrder, ForClient, PeersReadInOrder, Ascends, ToSet
<1> QED
  BY InvInit, InvNext, <1>1, PTL DEF Spec

\* What the events tell of connections, until a second one is attempted.
Linked ==
    /\ second => muddled
    /\ (\E h \in Handles : link[h] \in {"open", "closing"}) \/ unacked # 0 => "running" \in bits
    /\ ~muddled => /\ client # 0 => link[client] \in {"open", "closing"}
                   /\ Started => ("connected" \in bits <=> client # 0)

LEMMA LinkedInit == ASSUME SizesAssumed PROVE Init => Linked
BY DEF Init, Linked, Started, SizesAssumed

LEMMA LinkedNext == ASSUME SizesAssumed, Inv, Linked, [Next]_btVars PROVE Linked'
<1> USE DEF Linked, Started, SizesAssumed
<1>0. /\ link \in [Handles -> {"new", "open", "closing", "gone"}] /\ client \in Handles \cup {0}
      /\ 0 \notin Handles
  BY DEF Inv, Typed
<1>1. CASE UNCHANGED <<bits, linkVars, unacked>>
  BY <1>1 DEF linkVars
<1>2. CASE Begin
  <2>1. ~muddled => client = 0
    BY <1>0, <1>2 DEF Begin
  <2>2. bits = {} /\ bits' = Offline /\ UNCHANGED <<link, client, second, muddled, unacked>>
    BY <1>2 DEF Begin, linkVars, txVars
  <2> QED
    BY <1>0, <2>1, <2>2 DEF Offline
<1>3. CASE InitEvt
  BY <1>0, <1>3 DEF InitEvt, linkVars, txVars
<1>4. CASE End
  <2>1. \A h \in Handles : link'[h] \notin {"open", "closing"}
    BY <1>4 DEF End
  <2> QED
    BY <1>0, <1>4, <2>1 DEF End
<1>5. CASE CongEvt \/ WriteEvt
  <2>1. /\ "running" \in bits /\ UNCHANGED <<link, client, second, muddled>>
        /\ bits' = bits \cup {"free"} \/ bits' = bits \ {"free"} \/ bits' = bits
    BY <1>5 DEF CongEvt, WriteEvt, linkVars, txVars
  <2> QED
    BY <1>0, <2>1
<1>6. ASSUME NEW h \in Handles, CloseEvt(h) PROVE Linked'
  <2>1. /\ link[h] \in {"open", "closing"} /\ link' = [link EXCEPT ![h] = "gone"] /\ ~second'
        /\ UNCHANGED <<unacked, muddled>>
        /\ second => muddled /\ bits' = bits \ {"connected"}
        /\ ~second => client' = 0 /\ bits' = (bits \ {"connected"}) \cup Offline
    BY <1>6 DEF CloseEvt, txVars
  <2> QED
    BY <1>0, <2>1 DEF Offline
<1>7. ASSUME NEW h \in Handles, NEW served \in BOOLEAN, OpenEvt(h, served) PROVE Linked'
  <2>1. /\ "running" \in bits /\ UNCHANGED unacked
        /\ bits' = (bits \ {"disconnected"}) \cup {"connected"} \cup (IF served THEN {} ELSE {"free"})
        /\ \/ client = 0 /\ client' = h /\ link' = [link EXCEPT ![h] = "open"]
              /\ UNCHANGED <<second, muddled>>
           \/ muddled'
    BY <1>7 DEF OpenEvt
  <2> QED
    BY <1>0, <2>1
<1>8. CASE Flushed
  <2>1. /\ UNCHANGED <<bits, client, second, muddled, unacked>>
        /\ \/ link' = link
           \/ client # 0 /\ link[client] = "open" /\ link' = [link EXCEPT ![client] = "closing"]
    BY <1>8 DEF Flushed, txVars
  <2> QED
    BY <1>0, <2>1
<1>9. CASE SppWrite
  BY <1>0, <1>9 DEF SppWrite, linkVars
<1>10. CASE \/ Receive \/ Fails \/ TakeDone \/ Waited \/ UNCHANGED btVars
            \/ \E n \in 1 .. MaxBytes : Write(n)
            \/ \E connect \in BOOLEAN : Disconnect(connect)
  BY <1>1, <1>10 DEF Receive, Fails, TakeDone, Waited, Write, Disconnect, btVars, linkVars, txVars
<1> QED
  BY <1>2, <1>3, <1>4, <1>5, <1>6, <1>7, <1>8, <1>9, <1>10 DEF Next, TxStep, AppReturns

\* The bit SPP_CONNECTED and _spp_client agree, and name a connection that Bluedroid has,
\* until a second connection is attempted: the close that follows clears the wrong one.
THEOREM SpecConnectedIsTrue == ASSUME SizesAssumed PROVE Spec => []ConnectedIsTrue
<1>1. Init => Inv /\ Linked
  BY InvInit, LinkedInit
<1>2. Inv /\ Linked /\ [Next]_btVars => Inv' /\ Linked'
  BY InvNext, LinkedNext
<1>3. Inv /\ Linked => ConnectedIsTrue
  BY DEF Linked, ConnectedIsTrue
<1> QED
  BY <1>1, <1>2, <1>3, PTL DEF Spec
=============================================================================
