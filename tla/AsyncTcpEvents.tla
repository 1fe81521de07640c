--------------------------- MODULE AsyncTcpEvents ---------------------------
(***************************************************************************)
(* The event queue of AsyncTCP.cpp.  LwIP's callbacks run on the tcpip     *)
(* thread and only queue a packet; the async task is the single consumer   *)
(* and dispatches it to the AsyncClient named by its arg.  Closing a       *)
(* client queues a LWIP_TCP_CLEAR at the front, and the task that handles  *)
(* it rotates the whole queue once to free the packets of that client      *)
(* (_remove_events_with_arg) while the other threads go on sending.        *)
(*                                                                         *)
(* Every FreeRTOS queue call is one step, and so is every access to _pcb,  *)
(* which _close tests at its beginning, reads again for _tcp_close and     *)
(* forgets at its end, while _lwip_fin tests and forgets it on the tcpip   *)
(* thread: the threads interleave between any two of them.  A call that    *)
(* finds the queue full waits (portMAX_DELAY), and a tcpip_api_call waits  *)
(* for the tcpip thread to be out of its callbacks.                        *)
(***************************************************************************)
EXTENDS Naturals, Sequences, FiniteSets

CONSTANTS
  Clients,     \* the AsyncClient objects, one for each arg given to LwIP
  AppClosed,   \* those the loop task may close(); only the async task closes the rest
  NULL,        \* the arg of a pcb already detached from its client
  Server,      \* the AsyncServer, arg of the accept events
  Capacity,    \* packets the FreeRTOS queue holds: 32 in the code
  MaxEvents    \* bound: callbacks LwIP makes in a behaviour

ASSUME ClientsAssumption == AppClosed \subseteq Clients /\ NULL \notin Clients
                            /\ Server \notin Clients \cup {NULL}
ASSUME CapacityAssumption == Capacity \in Nat \ {0}
ASSUME MaxEventsAssumption == MaxEvents \in Nat

VARIABLES
  queue,    \* _async_queue: the packets, head first
  lwip,     \* the packet a callback on the tcpip thread is sending
  nulls,    \* _lwip_fin, before that packet is sent, has still to forget _pcb
  pc,       \* where the async task is
  cur,      \* the packet the async task is handling
  first,    \* first_packet of _remove_events_with_arg
  hand,     \* the packet the async task is sending (back) to the queue
  closing,  \* the client whose _close the async task is in, or NULL
  app,      \* the CLEAR the loop task is sending, or where its _close is
  open,     \* the clients a pcb of LwIP still has as its arg
  conn,     \* the clients whose _pcb is not NULL
  cleared,  \* the clients whose CLEAR has been handled
  late,     \* those whose _close found _pcb forgotten by _lwip_fin, which had not
            \* sent the FIN yet
  snap,     \* what was queued when the running removal began
  nextId    \* identity of the next packet: its address, never reused here

task == <<pc, cur, first, hand, closing, cleared, late, snap>>
vars == <<queue, lwip, nulls, task, app, open, conn, nextId>>

\* RECV stands for RECV, SENT, POLL and DNS: sent to the back, handled by a
\* callback.  ACCEPT stands for ACCEPT and CONNECTED: sent to the front.
BackKinds == {"RECV", "FIN", "ERROR"}
FrontKinds == {"ACCEPT", "CLEAR"}
Packets == [id : Nat \ {0}, event : BackKinds, arg : Clients \cup {NULL}]
           \cup [id : Nat \ {0}, event : {"ACCEPT"}, arg : {Server}]
           \cup [id : Nat \ {0}, event : {"CLEAR"}, arg : Clients]
NoPacket == [id |-> 0, event |-> "NONE", arg |-> NULL]

NewPacket(kind, arg) == [id |-> nextId, event |-> kind, arg |-> arg]
At(step, c) == [id |-> 0, event |-> step, arg |-> c]   \* where the loop task's _close is
AppPlaces == {At(step, c) : step \in {"CALL", "API", "NULL"}, c \in AppClosed}

\* (mutant) one packet more than xQueueCreate reserved
HasRoomOneMore == Len(queue) <= Capacity

HasRoom == Len(queue) < Capacity

Init ==
  /\ queue = <<>>
  /\ lwip = NoPacket /\ nulls = FALSE
  /\ pc = "get" /\ closing = NULL
  /\ cur = NoPacket /\ first = NoPacket /\ hand = NoPacket
  /\ app = NoPacket
  /\ open = Clients
  /\ conn = Clients
  /\ cleared = {} /\ late = {}
  /\ snap = <<>>
  /\ nextId = 1
-----------------------------------------------------------------------------
(***************************************************************************)
(* The tcpip thread.                                                       *)
(***************************************************************************)

\* A callback mallocs its packet.  After an error LwIP has freed the pcb, and
\* _lwip_fin, if it finds _pcb, sets the pcb's arg to NULL: no later callback names
\* the client.  _lwip_fin then forgets _pcb, an error only when its event is handled.
Callback(kind, c) ==
  /\ lwip = NoPacket
  /\ nextId <= MaxEvents
  /\ c \in open
  /\ kind \in BackKinds
  /\ lwip' = NewPacket(kind, c)
  /\ nulls' = (kind = "FIN" /\ c \in conn)
  /\ open' = IF kind = "ERROR" \/ nulls' THEN open \ {c} ELSE open
  /\ nextId' = nextId + 1
  /\ UNCHANGED <<queue, task, app, conn>>

LwipFinNull ==
  /\ nulls
  /\ nulls' = FALSE
  /\ conn' = conn \ {lwip.arg}
  /\ UNCHANGED <<queue, lwip, task, app, open, nextId>>

\* A pcb closed by _lwip_fin keeps its callbacks, with a NULL arg.
DetachedCallback ==
  /\ lwip = NoPacket
  /\ nextId <= MaxEvents
  /\ open # Clients
  /\ lwip' = NewPacket("RECV", NULL)
  /\ nextId' = nextId + 1
  /\ UNCHANGED <<queue, nulls, task, app, open, conn>>

\* A new connection is announced ahead of the data already queued.
AcceptCallback ==
  /\ lwip = NoPacket
  /\ nextId <= MaxEvents
  /\ lwip' = NewPacket("ACCEPT", Server)
  /\ nextId' = nextId + 1
  /\ UNCHANGED <<queue, nulls, task, app, open, conn>>

\* (mutant) xQueueSend without a timeout: a full queue drops the packet
CallbackSendNoWait ==
  /\ lwip # NoPacket /\ ~nulls
  /\ queue' = IF HasRoom THEN Append(queue, lwip) ELSE queue
  /\ lwip' = NoPacket
  /\ UNCHANGED <<nulls, task, app, open, conn, nextId>>

\* _send_async_event or _prepend_async_event returns once there is room.
CallbackSend ==
  /\ lwip # NoPacket /\ ~nulls
  /\ HasRoom
  /\ queue' = IF lwip.event \in FrontKinds THEN <<lwip>> \o queue
                                           ELSE Append(queue, lwip)
  /\ lwip' = NoPacket
  /\ UNCHANGED <<nulls, task, app, open, conn, nextId>>

Lwip == \/ \E c \in Clients, kind \in BackKinds : Callback(kind, c)
        \/ DetachedCallback
        \/ AcceptCallback
        \/ LwipFinNull
        \/ CallbackSend
-----------------------------------------------------------------------------
(***************************************************************************)
(* The async task: _async_service_task and _handle_async_event.            *)
(***************************************************************************)

Get ==
  /\ pc = "get"
  /\ queue # <<>>
  /\ cur' = Head(queue)
  /\ queue' = Tail(queue)
  /\ pc' = "handle"
  /\ UNCHANGED <<lwip, nulls, first, hand, closing, app, open, conn, cleared, late, snap, nextId>>

HandleNull ==
  /\ pc = "handle"
  /\ cur.arg = NULL
  /\ pc' = "get"
  /\ cur' = NoPacket
  /\ UNCHANGED <<queue, lwip, nulls, first, hand, closing, app, open, conn, cleared, late, snap, nextId>>

Handling(kinds) == pc = "handle" /\ cur.arg # NULL /\ cur.event \in kinds

\* _error forgets _pcb before it calls back.
ConnInCallback == IF cur.event = "ERROR" THEN conn \ {cur.arg} ELSE conn

\* A callback of the client or the server runs and returns without closing.
HandleCallback ==
  /\ Handling({"RECV", "ERROR", "ACCEPT"})
  /\ conn' = ConnInCallback
  /\ pc' = "get"
  /\ cur' = NoPacket
  /\ UNCHANGED <<queue, lwip, nulls, first, hand, closing, app, open, cleared, late, snap, nextId>>

\* The callback calls into LwIP (a write, an ack) and waits for the answer.
HandleCallbackApi ==
  /\ Handling({"RECV", "ERROR", "ACCEPT"})
  /\ conn' = ConnInCallback
  /\ pc' = "api"
  /\ UNCHANGED <<queue, lwip, nulls, cur, first, hand, closing, app, open, cleared, late, snap, nextId>>

\* The callback close()s a client that still has its pcb (line 801), which is
\* detached from the client; it keeps _pcb until the end of _close (line 813).
HandleCallbackClose(c) ==
  /\ Handling({"RECV", "ERROR", "ACCEPT"})
  /\ c \in ConnInCallback
  /\ open' = open \ {c}
  /\ conn' = ConnInCallback
  /\ hand' = NewPacket("CLEAR", c)
  /\ closing' = c
  /\ nextId' = nextId + 1
  /\ pc' = "prepend"
  /\ UNCHANGED <<queue, lwip, nulls, cur, first, app, cleared, late, snap>>

\* _fin: the tcpip thread has closed the pcb; purge what is still queued.
HandleFin ==
  /\ Handling({"FIN"})
  /\ hand' = NewPacket("CLEAR", cur.arg)
  /\ nextId' = nextId + 1
  /\ pc' = "prepend"
  /\ UNCHANGED <<queue, lwip, nulls, cur, first, closing, app, open, conn, cleared, late, snap>>

\* _tcp_clear_events.  _close goes on to _tcp_close, _fin to the callback.
Prepend ==
  /\ pc = "prepend"
  /\ HasRoom
  /\ queue' = <<hand>> \o queue
  /\ hand' = NoPacket
  /\ pc' = IF cur.event = "FIN" THEN "get" ELSE "call"
  /\ cur' = IF cur.event = "FIN" THEN NoPacket ELSE cur
  /\ UNCHANGED <<lwip, nulls, first, closing, app, open, conn, cleared, late, snap, nextId>>

\* _tcp_close(_pcb) returns at once when _lwip_fin has forgotten _pcb meanwhile
\* (lines 448-450), also while the tcpip thread still waits to send the FIN.
CloseCall ==
  /\ pc = "call"
  /\ IF closing \in conn
     THEN pc' = "api" /\ UNCHANGED <<cur, closing, late>>
     ELSE /\ pc' = "get" /\ cur' = NoPacket /\ closing' = NULL
          /\ late' = late \cup {c \in {closing} : lwip.event = "FIN" /\ lwip.arg = c}
  /\ UNCHANGED <<queue, lwip, nulls, first, hand, app, open, conn, cleared, snap, nextId>>

\* (mutant) the task calls tcp_close itself, not through the tcpip thread
ApiReturnDirect ==
  /\ pc = "api"
  /\ IF closing = NULL THEN pc' = "get" /\ cur' = NoPacket
                       ELSE pc' = "null" /\ UNCHANGED cur
  /\ UNCHANGED <<queue, lwip, nulls, first, hand, closing, app, open, conn, cleared, late, snap, nextId>>

\* tcpip_api_call returns: the tcpip thread was free to run the request.
ApiReturn ==
  /\ pc = "api"
  /\ lwip = NoPacket
  /\ IF closing = NULL THEN pc' = "get" /\ cur' = NoPacket
                       ELSE pc' = "null" /\ UNCHANGED cur
  /\ UNCHANGED <<queue, lwip, nulls, first, hand, closing, app, open, conn, cleared, late, snap, nextId>>

CloseNull ==
  /\ pc = "null"
  /\ conn' = conn \ {closing}
  /\ closing' = NULL
  /\ pc' = "get"
  /\ cur' = NoPacket
  /\ UNCHANGED <<queue, lwip, nulls, first, hand, app, open, cleared, late, snap, nextId>>
-----------------------------------------------------------------------------
(***************************************************************************)
(* The async task in _remove_events_with_arg.                              *)
(***************************************************************************)

HandleClear ==
  /\ Handling({"CLEAR"})
  /\ pc' = "first"
  /\ snap' = queue
  /\ UNCHANGED <<queue, lwip, nulls, cur, first, hand, closing, app, open, conn, cleared, late, nextId>>

\* The removal returns: the CLEAR is freed and the next packet fetched.
RemovalDone ==
  /\ pc' = "get"
  /\ cur' = NoPacket
  /\ first' = NoPacket
  /\ cleared' = cleared \cup {cur.arg}
  /\ snap' = <<>>

\* while(!first_packet): take packets until one is of another client.
FindFirst ==
  /\ pc = "first"
  /\ IF queue = <<>>
     THEN RemovalDone /\ UNCHANGED <<queue, hand>>
     ELSE /\ queue' = Tail(queue)
          /\ IF Head(queue).arg = cur.arg
             THEN UNCHANGED <<pc, hand>>
             ELSE pc' = "requeueFirst" /\ hand' = Head(queue)
          /\ UNCHANGED <<cur, first, cleared, snap>>
  /\ UNCHANGED <<lwip, nulls, closing, app, open, conn, late, nextId>>

\* xQueueSend of the packet in hand to the back, waiting for room.
SendBack ==
  /\ HasRoom
  /\ queue' = Append(queue, hand)
  /\ hand' = NoPacket
  /\ pc' = "scan"
  /\ UNCHANGED <<lwip, nulls, cur, closing, app, open, conn, cleared, late, snap, nextId>>

\* (mutant) the first packet goes back to the head
RequeueFirstAtHead ==
  /\ pc = "requeueFirst"
  /\ HasRoom
  /\ first' = hand
  /\ queue' = <<hand>> \o queue
  /\ hand' = NoPacket
  /\ pc' = "scan"
  /\ UNCHANGED <<lwip, nulls, cur, closing, app, open, conn, cleared, late, snap, nextId>>

\* (mutant) first_packet is never assigned: the rotation has no end
RequeueFirstForgotten ==
  /\ pc = "requeueFirst"
  /\ UNCHANGED first
  /\ SendBack

RequeueFirst ==
  /\ pc = "requeueFirst"
  /\ first' = hand
  /\ SendBack

\* xQueuePeek: stop when the first packet is at the head again.
Scan ==
  /\ pc = "scan"
  /\ IF queue = <<>> \/ Head(queue) = first
     THEN RemovalDone
     ELSE pc' = "take" /\ UNCHANGED <<cur, first, cleared, snap>>
  /\ UNCHANGED <<queue, lwip, nulls, hand, closing, app, open, conn, late, nextId>>

\* (mutant) the packet is peeked at, not received, and sent back
TakePeeks ==
  /\ pc = "take"
  /\ queue # <<>>
  /\ pc' = "requeue"
  /\ hand' = Head(queue)
  /\ UNCHANGED <<queue, lwip, nulls, app, open, conn, nextId, cur, first, closing, cleared, late, snap>>

\* xQueueReceive: what another thread has put at the head since the peek
\* is taken instead.
Take ==
  /\ pc = "take"
  /\ IF queue = <<>>
     THEN RemovalDone /\ UNCHANGED <<queue, hand>>
     ELSE /\ queue' = Tail(queue)
          /\ IF Head(queue).arg = cur.arg
             THEN pc' = "scan" /\ UNCHANGED hand
             ELSE pc' = "requeue" /\ hand' = Head(queue)
          /\ UNCHANGED <<cur, first, cleared, snap>>
  /\ UNCHANGED <<lwip, nulls, closing, app, open, conn, late, nextId>>

Requeue ==
  /\ pc = "requeue"
  /\ UNCHANGED first
  /\ SendBack

Removal == HandleClear \/ FindFirst \/ RequeueFirst \/ Scan \/ Take \/ Requeue

AsyncTask ==
  \/ Get \/ HandleNull \/ HandleCallback \/ HandleCallbackApi
  \/ \E c \in Clients : HandleCallbackClose(c)
  \/ HandleFin \/ Prepend \/ CloseCall \/ ApiReturn \/ CloseNull
  \/ Removal
-----------------------------------------------------------------------------
(***************************************************************************)
(* The loop task: close() called outside the async task.                   *)
(***************************************************************************)

AppClose(c) ==
  /\ app = NoPacket
  /\ c \in AppClosed \cap conn
  /\ open' = open \ {c}
  /\ app' = NewPacket("CLEAR", c)
  /\ nextId' = nextId + 1
  /\ UNCHANGED <<queue, lwip, nulls, task, conn>>

AppPrepend ==
  /\ app.event = "CLEAR"
  /\ HasRoom
  /\ queue' = <<app>> \o queue
  /\ app' = At("CALL", app.arg)
  /\ UNCHANGED <<lwip, nulls, task, open, conn, nextId>>

AppCall ==
  /\ app.event = "CALL"
  /\ app' = IF app.arg \in conn THEN At("API", app.arg) ELSE NoPacket
  /\ UNCHANGED <<queue, lwip, nulls, task, open, conn, nextId>>

AppApiReturn ==
  /\ app.event = "API"
  /\ lwip = NoPacket
  /\ app' = At("NULL", app.arg)
  /\ UNCHANGED <<queue, lwip, nulls, task, open, conn, nextId>>

AppNull ==
  /\ app.event = "NULL"
  /\ conn' = conn \ {app.arg}
  /\ app' = NoPacket
  /\ UNCHANGED <<queue, lwip, nulls, task, open, nextId>>

AppReturns == AppPrepend \/ AppCall \/ AppApiReturn \/ AppNull
App == (\E c \in Clients : AppClose(c)) \/ AppReturns
-----------------------------------------------------------------------------
Next == Lwip \/ AsyncTask \/ App

Spec == Init /\ [][Next]_vars

\* The scheduler runs a ready task and serves the waiters of a queue; nothing
\* forces the network to call back or the sketch to close a client.
Fairness == /\ WF_vars(AsyncTask)
            /\ WF_vars(LwipFinNull \/ CallbackSend)
            /\ WF_vars(AppReturns)

FairSpec == Spec /\ Fairness
-----------------------------------------------------------------------------
(***************************************************************************)
(* Properties.                                                             *)
(***************************************************************************)

Slot == Packets \cup {NoPacket}

\* The type invariant; the queue never outgrows what xQueueCreate reserved.
TypeOK ==
  /\ queue \in Seq(Packets) /\ Len(queue) <= Capacity
  /\ lwip \in Slot /\ nulls \in BOOLEAN
  /\ pc \in {"get", "handle", "prepend", "call", "api", "null",
             "first", "requeueFirst", "scan", "take", "requeue"}
  /\ cur \in Slot /\ first \in Slot /\ hand \in Slot
  /\ closing \in Clients \cup {NULL}
  /\ app \in Packets \cup {NoPacket} \cup AppPlaces
  /\ open \subseteq Clients /\ conn \subseteq Clients
  /\ cleared \subseteq Clients /\ late \subseteq Clients
  /\ snap \in Seq(Packets)
  /\ nextId \in Nat \ {0}

Elems(q) == {q[i] : i \in 1..Len(q)}
Distinct(q) == \A i, j \in 1..Len(q) : q[i].id = q[j].id => i = j

\* While _remove_events_with_arg looks for the packet it started from, that
\* packet is in the queue, whatever the other threads put there: the loop of
\* lines 139-150 always meets it again and never runs out of packets.
FirstStaysQueued ==
  pc \in {"scan", "take", "requeue"} => first \in Elems(queue)

\* A packet belongs to one place: two places that hold the same one would
\* free() it twice (lines 131, 146, 185 and the sender's own free).
PacketOwnedOnce ==
  /\ Distinct(queue)
  /\ \A p \in Elems(queue) : p.id \notin {lwip.id, app.id, cur.id, hand.id}
  /\ lwip.id # 0 => lwip.id \notin {app.id, cur.id, hand.id}
  /\ app.id # 0 => app.id \notin {cur.id, hand.id}
  /\ cur.id # 0 => cur.id # hand.id

\* "so we can keep the order" (line 125): a removal leaves, of the packets
\* queued when it began, exactly those of other clients, in their order,
\* although the other threads were sending all along.
Ahead(q, p, r) == \E i, j \in 1..Len(q) : i < j /\ q[i] = p /\ q[j] = r
OfOthers == {p \in Elems(snap) : p.arg # cur.arg}
RemovalEnds == pc \in {"first", "scan", "take"} /\ pc' = "get"
RemovalIsExact ==
  [][RemovalEnds => /\ Elems(snap) \cap Elems(queue') = OfOthers
                    /\ \A p, r \in OfOthers : Ahead(snap, p, r) => Ahead(queue', p, r)]_vars

\* Once the CLEAR of a client that only the async task closes has been
\* handled, no event is dispatched to it, which the callback that deletes the
\* client object in its disconnect handler relies on (lines 815, 907) -- but for
\* the FIN, and the CLEAR _fin then makes, of a client whose _close the peer's
\* end overtook between line 801 and _tcp_close: then _close did not wait for the
\* tcpip thread, and its CLEAR may be handled before the FIN is sent.
NoDispatchAfterClear ==
  pc = "handle" /\ cur.arg \in cleared \ AppClosed =>
    cur.arg \in late /\ cur.event \in {"FIN", "CLEAR"}

\* The queue, its rotation and the three threads implement EventDelivery: a
\* packet is never lost, duplicated or purged for another client (lines
\* 106-186).  A packet is pending until the task takes it to handle it.
Pending == Elems(queue) \cup {p \in {lwip, app, hand} : p.id # 0}
Delivery == INSTANCE EventDelivery WITH Args <- Clients \cup {Server, NULL},
              pending <- Pending, current <- cur, made <- nextId - 1
DeliversEvents == Delivery!Spec

\* Every packet a thread has made is dispatched or freed in the end, unless the
\* async task ends up waiting for room in the full queue it alone empties: to send
\* its own packet (lines 135, 147, 237), or for the tcpip thread that waits there.
InTransit(id) == \/ \E p \in Elems(queue) : p.id = id
                 \/ id \in {lwip.id, app.id, cur.id, hand.id}
TaskWaits ==
  ~HasRoom /\ (pc \in {"prepend", "requeueFirst", "requeue"} \/ (pc = "api" /\ lwip # NoPacket))
EveryPacketLeaves ==
  []<>~TaskWaits =>
    \A id \in 1..(MaxEvents + 2 * Cardinality(Clients) + Cardinality(AppClosed)) : InTransit(id) ~> ~InTransit(id)
=============================================================================
