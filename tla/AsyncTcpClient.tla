--------------------------- MODULE AsyncTcpClient ---------------------------
(***************************************************************************)
(* The life of the AsyncClient objects a server accepts (AsyncTCP.cpp):    *)
(* the pcb LwIP owns, the closed slot that is to guard calls on it, the    *)
(* events on their way from the tcpip thread to the async task, close(),   *)
(* abort(), the disconnect callback and the deletion it does.              *)
(*                                                                         *)
(* The tcpip thread and the async task run on two cores: every access to   *)
(* state they share is a step of its own.  A tcpip_api_call is served when *)
(* the tcpip thread is between two callbacks.  The queue is that of        *)
(* AsyncTcpEvents without its limit: here it never fills up.               *)
(***************************************************************************)
EXTENDS Naturals, Sequences, FiniteSets, Functions, TLC

CONSTANTS
  Clients,    \* addresses an AsyncClient can be allocated at
  Pcbs,       \* addresses of LwIP's pcbs
  NumSlots,   \* CONFIG_LWIP_MAX_ACTIVE_TCP
  NULL,
  Closes,     \* TRUE when the application closes and aborts connections
  Resets,     \* TRUE when connections may end with an error of LwIP
  Reuse,      \* TRUE when the heap may hand out the address of a deleted client
  MaxConns,   \* bound: connections accepted
  MaxData     \* bound: data, ack and poll callbacks; a chain of data is two pbufs at most

NoSlot == NumSlots          \* _closed_slot = -1
Slots == 0..(NumSlots - 1)

ASSUME NumSlotsAssumption == NumSlots \in Nat \ {0}
ASSUME BoundsAssumption == MaxConns \in Nat /\ MaxData \in Nat
ASSUME NullAssumption == NULL \notin Clients \cup Pcbs
ASSUME SwitchesAssumption == {Closes, Resets, Reuse} \subseteq BOOLEAN

VARIABLES
  obj,      \* the objects: live, callbacks installed, _pcb, _closed_slot, connection, and
            \* (history) whether another client has reached its pcb
  pcb,      \* LwIP's pcbs: state, arg and connection
  slots,    \* _closed_slots: 0 while a client holds the slot
  index,    \* _closed_index
  queue,    \* the events, with the connection they were made for
  lwip,     \* where the tcpip thread is in a callback
  task,     \* where the async task is
  told,     \* the connections whose disconnect callback has run
  conns,    \* connections accepted so far
  data      \* data callbacks so far

shared == <<obj, pcb, slots, index>>
vars == <<shared, queue, lwip, task, told, conns, data>>

Events == {"ACCEPT", "RECV", "FIN", "ERROR", "CLEAR"}
Event(kind, c, n) == [event |-> kind, arg |-> c, conn |-> n, id |-> 0]
NoEvent == Event("NONE", NULL, 0)

FreePcb == [state |-> "free", arg |-> NULL, conn |-> 0]
LwipIdle == [at |-> "idle", ev |-> NoEvent, pcb |-> NULL, tmp |-> 0]
TaskIdle == [at |-> "get", ev |-> NoEvent, op |-> "none", more |-> FALSE, read |-> {},
             pcb |-> NULL, slot |-> NoSlot, tmp |-> 0, first |-> NoEvent]

Init ==
  /\ obj = [c \in Clients |-> [live |-> FALSE, ready |-> FALSE, pcb |-> NULL, slot |-> NoSlot,
                           conn |-> 0, hit |-> FALSE]]
  /\ pcb = [p \in Pcbs |-> FreePcb]
  /\ slots = [s \in Slots |-> 1]
  /\ index = 1
  /\ queue = <<>>
  /\ lwip = LwipIdle
  /\ task = TaskIdle
  /\ told = {}
  /\ conns = 0 /\ data = 0
-----------------------------------------------------------------------------
(***************************************************************************)
(* The closed slots.                                                       *)
(***************************************************************************)

\* _allocate_closed_slot: of the slots not held, the one closed longest ago,
\* the last one among equals; none when all are held.
OpenSlotsToo == Slots   \* mutant: the test for slots that are held is dropped
ClosedSlots == {s \in Slots : slots[s] # 0}
OldestSlot ==
  IF ClosedSlots = {} THEN NoSlot
  ELSE CHOOSE s \in ClosedSlots :
         \A t \in ClosedSlots : slots[s] < slots[t] \/ (slots[s] = slots[t] /\ t <= s)

\* _free_closed_slot, of the object c: the slot is given back (line 838), then
\* forgotten (839), then _closed_index is counted up, a load and a store (840).
GiveSlotBack(c) ==
  slots' = IF obj[c].slot = NoSlot THEN slots ELSE [slots EXCEPT ![obj[c].slot] = index]
ForgetSlot(c) == obj' = [obj EXCEPT ![c].slot = NoSlot]
-----------------------------------------------------------------------------
(***************************************************************************)
(* The tcpip thread.                                                       *)
(***************************************************************************)

\* AsyncServer::_accept: the client takes a slot, and the event overtakes
\* what is queued.
Accept(c, p) ==
  /\ lwip.at = "idle"
  /\ conns < MaxConns
  /\ ~obj[c].live /\ (Reuse \/ obj[c].conn = 0)
  /\ pcb[p].state = "free"
  /\ conns' = conns + 1
  /\ obj' = [obj EXCEPT ![c] = [live |-> TRUE, ready |-> FALSE, pcb |-> p,
                                slot |-> OldestSlot, conn |-> conns', hit |-> FALSE]]
  /\ slots' = IF OldestSlot = NoSlot THEN slots ELSE [slots EXCEPT ![OldestSlot] = 0]
  /\ pcb' = [pcb EXCEPT ![p] = [state |-> "open", arg |-> c, conn |-> conns']]
  /\ queue' = <<Event("ACCEPT", c, conns')>> \o queue
  /\ UNCHANGED <<index, lwip, task, told, data>>

\* A callback has read the pcb's arg; what it queues comes in a later step.
Callback(p) ==
  /\ lwip.at = "idle"
  /\ data < MaxData
  /\ pcb[p].state = "open" /\ pcb[p].arg # NULL
  /\ data' = data + 1
  /\ lwip' = [lwip EXCEPT !.at = "send",
                           !.ev = [Event("RECV", pcb[p].arg, pcb[p].conn) EXCEPT !.id = data']]
  /\ UNCHANGED <<shared, queue, task, told, conns>>

\* LwIP frees the pcb before it reports the error.
Reset(p) ==
  /\ Resets
  /\ lwip.at = "idle"
  /\ pcb[p].state # "free"
  /\ pcb' = [pcb EXCEPT ![p] = FreePcb]
  /\ lwip' = IF pcb[p].arg = NULL THEN lwip
             ELSE [lwip EXCEPT !.at = "send", !.ev = Event("ERROR", pcb[p].arg, pcb[p].conn)]
  /\ UNCHANGED <<obj, slots, index, queue, task, told, conns, data>>

\* mutant: tcp_arg(_pcb, NULL) is dropped
LwipFinStaysAttached ==
  /\ lwip.at = "fin"
  /\ IF obj[lwip.ev.arg].pcb # lwip.pcb
     THEN lwip' = [lwip EXCEPT !.at = "send", !.pcb = NULL] /\ UNCHANGED pcb
     ELSE /\ pcb' = [pcb EXCEPT ![lwip.pcb].state = "closed"]
          /\ lwip' = [lwip EXCEPT !.at = "freeSlot"]
  /\ UNCHANGED <<obj, slots, index, queue, task, told, conns, data>>
\* The peer's FIN: with no callback LwIP closes the pcb itself.
RemoteFin(p) ==
  /\ lwip.at = "idle"
  /\ pcb[p].state = "open"
  /\ IF pcb[p].arg = NULL
     THEN /\ pcb' = [pcb EXCEPT ![p].state = "closed"]
          /\ UNCHANGED lwip
     ELSE /\ lwip' = [lwip EXCEPT !.at = "fin", !.pcb = p,
                                  !.ev = Event("FIN", pcb[p].arg, pcb[p].conn)]
          /\ UNCHANGED pcb
  /\ UNCHANGED <<obj, slots, index, queue, task, told, conns, data>>

\* _lwip_fin returns early for a pcb its client has let go of.
LwipFinClose ==
  /\ lwip.at = "fin"
  /\ IF obj[lwip.ev.arg].pcb # lwip.pcb
     THEN lwip' = [lwip EXCEPT !.at = "send", !.pcb = NULL] /\ UNCHANGED pcb
     ELSE /\ pcb' = [pcb EXCEPT ![lwip.pcb].state = "closed", ![lwip.pcb].arg = NULL]
          /\ lwip' = [lwip EXCEPT !.at = "freeSlot", !.pcb = NULL]
  /\ UNCHANGED <<obj, slots, index, queue, task, told, conns, data>>

\* _free_closed_slot without the lock: the other core may do the same.
LwipFinFreeSlot ==
  /\ lwip.at = "freeSlot"
  /\ GiveSlotBack(lwip.ev.arg)
  /\ lwip' = [lwip EXCEPT !.at = IF obj[lwip.ev.arg].slot = NoSlot THEN "nullPcb" ELSE "forget"]
  /\ UNCHANGED <<obj, pcb, index, queue, task, told, conns, data>>

LwipFinForget ==
  /\ lwip.at = "forget"
  /\ ForgetSlot(lwip.ev.arg)
  /\ lwip' = [lwip EXCEPT !.at = "load"]
  /\ UNCHANGED <<pcb, slots, index, queue, task, told, conns, data>>

LwipFinLoad ==
  /\ lwip.at = "load"
  /\ lwip' = [lwip EXCEPT !.at = "count", !.tmp = index]
  /\ UNCHANGED <<shared, queue, task, told, conns, data>>

LwipFinCount ==
  /\ lwip.at = "count"
  /\ index' = lwip.tmp + 1
  /\ lwip' = [lwip EXCEPT !.at = "nullPcb", !.tmp = 0]
  /\ UNCHANGED <<obj, pcb, slots, queue, task, told, conns, data>>

LwipFinNullPcb ==
  /\ lwip.at = "nullPcb"
  /\ obj' = [obj EXCEPT ![lwip.ev.arg].pcb = NULL]
  /\ lwip' = [lwip EXCEPT !.at = "send"]
  /\ UNCHANGED <<pcb, slots, index, queue, task, told, conns, data>>

LwipSend ==
  /\ lwip.at = "send"
  /\ queue' = Append(queue, lwip.ev)
  /\ lwip' = LwipIdle
  /\ UNCHANGED <<shared, task, told, conns, data>>

\* A closed pcb goes back to LwIP's pool when the peer has answered.
PcbGone(p) ==
  /\ lwip.at = "idle"
  /\ pcb[p].state = "closed"
  /\ pcb' = [pcb EXCEPT ![p] = FreePcb]
  /\ UNCHANGED <<obj, slots, index, queue, lwip, task, told, conns, data>>
-----------------------------------------------------------------------------
(***************************************************************************)
(* The async task.  Its ev is the event it handles: the client at ev.arg   *)
(* is the "this" of what follows.                                          *)
(***************************************************************************)
This == obj[task.ev.arg]
Goto(at) ==
  task' = IF at = "get" THEN TaskIdle ELSE [TaskIdle EXCEPT !.at = at, !.ev = task.ev, !.op = task.op, !.more = task.more]
Call(op) == task' = [TaskIdle EXCEPT !.at = "call", !.ev = task.ev, !.op = op, !.more = task.more]
Prepend(ev) == queue' = <<ev>> \o queue

\* The task takes the next event.  A client the application has not been
\* handed yet has no callbacks: its data is acknowledged and dropped.
Handle ==
  /\ task.at = "get"
  /\ queue # <<>>
  /\ queue' = Tail(queue)
  /\ LET e == Head(queue) IN
       task' = [TaskIdle EXCEPT !.ev = e, !.more = (e.event = "RECV"),
                                !.at = CASE e.event = "ACCEPT" -> "accept"
                                         [] e.event = "RECV" -> "app"
                                         [] e.event = "FIN" -> "fin"
                                         [] e.event = "ERROR" -> "error"
                                         [] e.event = "CLEAR" -> "purge"]
  /\ UNCHANGED <<shared, lwip, told, conns, data>>

\* _remove_events_with_arg turns the queue round once, packet by packet, while
\* the tcpip thread may add to it.  An ACCEPT is the server's: its arg here is
\* the client it carries, and a purge does not match it.
Matches(e) == e.event # "ACCEPT" /\ e.arg = task.ev.arg
PurgeEnds == queue # <<>> => Head(queue) = task.first
PurgeTake ==
  /\ task.at = "purge" /\ ~PurgeEnds
  /\ LET e == Head(queue) IN
       IF Matches(e) THEN queue' = Tail(queue) /\ UNCHANGED task
       ELSE /\ queue' = Append(Tail(queue), e)
            /\ task' = [task EXCEPT !.first = IF @ = NoEvent THEN e ELSE @]
  /\ UNCHANGED <<shared, lwip, told, conns, data>>
PurgeReturn ==
  /\ task.at = "purge" /\ PurgeEnds
  /\ task' = TaskIdle
  /\ UNCHANGED <<shared, queue, lwip, told, conns, data>>

\* AsyncServer::_accepted: the application installs its callbacks.
Accepted ==
  /\ task.at = "accept"
  /\ obj' = [obj EXCEPT ![task.ev.arg].ready = TRUE]
  /\ Goto("app")
  /\ UNCHANGED <<pcb, slots, index, queue, lwip, told, conns, data>>

\* What the application does in a callback: a write (bound: one per callback),
\* close(), abort(), return.  _recv then reads the object again (lines 936, 937),
\* deleted or not, acknowledges the data unless the callback has put it off, and
\* goes on to the next pbuf.  (What the heap writes into a deleted object is left out.)
InApp == task.at \in {"app", "deleted"}
NextBuf ==
  \/ task' = TaskIdle
  \/ /\ task.more
     /\ task' = [TaskIdle EXCEPT !.at = IF task.at = "deleted" THEN "deleted" ELSE "app",
                                 !.ev = task.ev]
AppReturn ==
  /\ InApp
  /\ \/ NextBuf
     \/ task.ev.event = "RECV" /\ This.pcb # NULL /\ Call("recved")
  /\ UNCHANGED <<shared, queue, lwip, told, conns, data>>
AppCalls(op) ==
  /\ InApp /\ This.ready /\ This.pcb # NULL
  /\ Call(op)
  /\ UNCHANGED <<shared, queue, lwip, told, conns, data>>
AppWrite == task.op = "none" /\ AppCalls("write")
AppClose == Closes /\ AppCalls("recvedAndClose")
AppAbort == Closes /\ AppCalls("abort")

\* The arguments of _tcp_close(_pcb, _closed_slot): two reads, in either order.
ReadPcb ==
  /\ task.at = "call" /\ "pcb" \notin task.read
  /\ task' = [task EXCEPT !.pcb = This.pcb, !.read = @ \cup {"pcb"}]
  /\ UNCHANGED <<shared, queue, lwip, told, conns, data>>
ReadSlot ==
  /\ task.at = "call" /\ "slot" \notin task.read
  /\ task' = [task EXCEPT !.slot = This.slot, !.read = @ \cup {"slot"}]
  /\ UNCHANGED <<shared, queue, lwip, told, conns, data>>

\* The pcb p may be another connection's by now, and its client's: the property
\* StrayCallsExplained.
IsAnothers(p) == p # NULL /\ pcb[p].state # "free" /\ pcb[p].conn # This.conn
Hits(p) == [c \in Clients |-> [obj[c] EXCEPT !.hit = @ \/ (IsAnothers(p) /\ obj[c].conn = pcb[p].conn)]]

ClearPcb(o) == obj' = [o EXCEPT ![task.ev.arg].pcb = NULL]
\* What the code does with the result of a call, the objects being as in o.
AfterCall(ok, o) ==
  \/ task.op = "recved" /\ NextBuf /\ obj' = o
  \/ task.op = "write" /\ Goto("app") /\ obj' = o
  \/ task.op = "recvedAndClose" /\ Goto("close") /\ obj' = o
  \/ task.op = "close" /\ Goto(IF ok THEN "unlink" ELSE "abort") /\ obj' = o
  \/ task.op = "closeAbort" /\ Goto("unlink") /\ ClearPcb(o)
  \/ task.op = "abort" /\ Goto("app") /\ ClearPcb(o)

ArgumentsRead == task.at = "call" /\ task.read = {"pcb", "slot"}

\* A call with no pcb does not enter the tcpip thread.
CallNull ==
  /\ ArgumentsRead /\ task.pcb = NULL
  /\ AfterCall(FALSE, obj)
  /\ UNCHANGED <<pcb, slots, index, queue, lwip, told, conns, data>>

\* The guard of the _api functions.
SlotIgnored(s) == TRUE   \* mutant: the guard is dropped
SlotOpen(s) == s # NoSlot => slots[s] = 0
CallRefused ==
  /\ ArgumentsRead /\ task.pcb # NULL
  /\ lwip.at = "idle" /\ ~SlotOpen(task.slot)
  /\ AfterCall(FALSE, obj)
  /\ UNCHANGED <<pcb, slots, index, queue, lwip, told, conns, data>>

\* tcp_close may be out of memory; tcp_abort frees the pcb and reports the
\* error to its client.  Pcbs that are free are left as they are.
Serve(ok) ==
  /\ ArgumentsRead /\ task.pcb # NULL /\ SlotOpen(task.slot)
  /\ AfterCall(ok, Hits(task.pcb))
  /\ LET p == task.pcb IN
       CASE task.op = "close" /\ ok /\ pcb[p].state = "open" ->
              pcb' = [pcb EXCEPT ![p].state = "closed"] /\ UNCHANGED queue
         [] task.op \in {"abort", "closeAbort"} /\ pcb[p].state # "free" ->
              /\ pcb' = [pcb EXCEPT ![p] = FreePcb]
              /\ queue' = IF pcb[p].arg = NULL THEN queue
                          ELSE Append(queue, Event("ERROR", pcb[p].arg, pcb[p].conn))
         [] OTHER -> UNCHANGED <<pcb, queue>>
  /\ UNCHANGED <<slots, index, lwip, told, conns, data>>
CallServedByCaller(ok) == Serve(ok)   \* mutant: the call stays on the async task
CallServed(ok) == lwip.at = "idle" /\ Serve(ok)

\* AsyncClient::_close, step by step.
Close ==
  /\ task.at = "close"
  /\ Goto(IF This.pcb = NULL THEN "app" ELSE "detach")
  /\ UNCHANGED <<shared, queue, lwip, told, conns, data>>
\* mutant: _tcp_clear_events is dropped
CloseDetachOnly ==
  /\ task.at = "detach"
  /\ pcb' = IF This.pcb = NULL THEN pcb ELSE [pcb EXCEPT ![This.pcb].arg = NULL]
  /\ obj' = Hits(This.pcb)
  /\ Call("close")
  /\ UNCHANGED <<slots, index, queue, lwip, told, conns, data>>
CloseDetach ==
  /\ task.at = "detach"
  /\ pcb' = IF This.pcb = NULL THEN pcb ELSE [pcb EXCEPT ![This.pcb].arg = NULL]
  /\ Prepend(Event("CLEAR", task.ev.arg, task.ev.conn))
  /\ obj' = Hits(This.pcb)
  /\ Call("close")
  /\ UNCHANGED <<slots, index, lwip, told, conns, data>>
CloseAbort ==
  /\ task.at = "abort"
  /\ IF This.pcb # NULL THEN Call("closeAbort") ELSE Goto("unlink")
  /\ UNCHANGED <<shared, queue, lwip, told, conns, data>>

\* The disconnect callback deletes the client; without one nothing does.
Discarded ==
  IF This.ready THEN told' = told \cup {This.conn} /\ Goto("freeSlot")
  ELSE Goto("get") /\ UNCHANGED told

\* mutant: _pcb = NULL is dropped
CloseDiscardFirst ==
  /\ task.at = "unlink"
  /\ Discarded
  /\ UNCHANGED <<shared, queue, lwip, conns, data>>
CloseDiscard ==
  /\ task.at = "unlink"
  /\ ClearPcb(obj)
  /\ Discarded
  /\ UNCHANGED <<pcb, slots, index, queue, lwip, conns, data>>

\* AsyncClient::_fin
Fin ==
  /\ task.at = "fin"
  /\ Prepend(Event("CLEAR", task.ev.arg, task.ev.conn))
  /\ Discarded
  /\ UNCHANGED <<shared, lwip, conns, data>>

\* AsyncClient::_error: the pcb it detaches was freed before the event was
\* sent, and may be another connection's by now.
Error ==
  /\ task.at = "error"
  /\ pcb' = IF This.pcb = NULL THEN pcb ELSE [pcb EXCEPT ![This.pcb].arg = NULL]
  /\ ClearPcb(Hits(This.pcb))
  /\ Discarded
  /\ UNCHANGED <<slots, index, queue, lwip, conns, data>>

\* ~AsyncClient, its _pcb gone.
DeleteFreeSlot ==
  /\ task.at = "freeSlot"
  /\ GiveSlotBack(task.ev.arg)
  /\ Goto(IF This.slot = NoSlot THEN "delete" ELSE "forget")
  /\ UNCHANGED <<obj, pcb, index, queue, lwip, told, conns, data>>
DeleteForget ==
  /\ task.at = "forget"
  /\ ForgetSlot(task.ev.arg)
  /\ Goto("load")
  /\ UNCHANGED <<pcb, slots, index, queue, lwip, told, conns, data>>
DeleteLoad ==
  /\ task.at = "load"
  /\ task' = [task EXCEPT !.at = "count", !.tmp = index]
  /\ UNCHANGED <<shared, queue, lwip, told, conns, data>>
DeleteCount ==
  /\ task.at = "count"
  /\ index' = task.tmp + 1
  /\ Goto("delete")
  /\ UNCHANGED <<obj, pcb, slots, queue, lwip, told, conns, data>>
\* The disconnect callback returns, into _recv when that was closing the client.
Delete ==
  /\ task.at = "delete"
  /\ obj' = [obj EXCEPT ![task.ev.arg].live = FALSE, ![task.ev.arg].hit = FALSE]
  /\ Goto(IF task.ev.event = "RECV" THEN "deleted" ELSE "get")
  /\ UNCHANGED <<pcb, slots, index, queue, lwip, told, conns, data>>
-----------------------------------------------------------------------------
LwipStep ==
  \/ LwipFinClose \/ LwipFinFreeSlot \/ LwipFinForget \/ LwipFinLoad \/ LwipFinCount
  \/ LwipFinNullPcb \/ LwipSend
TaskStep ==
  \/ Handle \/ PurgeTake \/ PurgeReturn \/ Accepted \/ AppReturn \/ AppWrite \/ AppClose \/ AppAbort
  \/ ReadPcb \/ ReadSlot \/ CallNull \/ CallRefused \/ (\E ok \in BOOLEAN : CallServed(ok))
  \/ Close \/ CloseDetach \/ CloseAbort \/ CloseDiscard
  \/ Fin \/ Error \/ DeleteFreeSlot \/ DeleteForget \/ DeleteLoad \/ DeleteCount \/ Delete
Next ==
  \/ \E p \in Pcbs : (\E c \in Clients : Accept(c, p)) \/ Callback(p) \/ Reset(p)
                       \/ RemoteFin(p) \/ PcbGone(p)
  \/ LwipStep
  \/ TaskStep

\* Both threads go on with what they have begun; peers and the application
\* owe nothing.
Spec == Init /\ [][Next]_vars /\ WF_vars(LwipStep) /\ WF_vars(TaskStep)
-----------------------------------------------------------------------------
LwipPlaces == {"idle", "send", "fin", "freeSlot", "forget", "load", "count", "nullPcb"}
TaskPlaces == {"get", "purge", "accept", "app", "call", "close", "detach", "abort", "unlink",
               "fin", "error", "freeSlot", "forget", "load", "count", "delete", "deleted"}
AnEvent == [event : Events, arg : Clients, conn : 1..MaxConns, id : 0..MaxData]

\* Types; _closed_index never is 0, which would mark a freed slot as held.
TypeOK ==
  /\ obj \in [Clients -> [live : BOOLEAN, ready : BOOLEAN, pcb : Pcbs \cup {NULL},
                          slot : 0..NumSlots, conn : 0..MaxConns, hit : BOOLEAN]]
  /\ pcb \in [Pcbs -> [state : {"free", "open", "closed"}, arg : Clients \cup {NULL},
                       conn : 0..MaxConns]]
  /\ slots \in [Slots -> Nat] /\ index \in Nat \ {0}
  /\ queue \in Seq(AnEvent)
  /\ lwip.at \in LwipPlaces /\ (lwip.at # "idle" => lwip.ev \in AnEvent)
  /\ task.at \in TaskPlaces /\ (task.at # "get" => task.ev \in AnEvent)
  /\ told \subseteq 1..MaxConns /\ conns \in 0..MaxConns /\ data \in 0..MaxData

\* The client an event in the task's hands was made for.
Working == task.at \notin {"get", "purge"}
ClientGone == ~This.live \/ This.conn # task.ev.conn

\* With no reset the one event that outlives its client is a FIN that LwIP was
\* still to send when close() found _pcb already NULL, and so did not wait for
\* the tcpip thread.  A deleted client gets data only from the chain of pbufs that
\* _recv was handing over when the callback deleted it, and never an ACCEPT.
OnlyFinComesLate ==
  Working /\ ClientGone =>
    /\ task.ev.conn \in told
    /\ task.ev.event = "FIN" \/ (task.ev.event = "RECV" /\ task.at = "deleted")

\* _lwip_fin, on the tcpip thread, works on a client the async task has not
\* deleted under it.
LwipTouchesLive ==
  lwip.at \in {"fin", "freeSlot", "forget", "load", "count", "nullPcb"} =>
    obj[lwip.ev.arg].live /\ obj[lwip.ev.arg].conn = lwip.ev.conn

\* No slot guards two clients, and a slot is marked held exactly while a client
\* holds it, though frees are not locked -- but for a client that has given its slot
\* back and not forgotten it yet (between lines 838 and 839): then the slot may
\* already be held by a client accepted meanwhile.
Forgetting(c) == \/ lwip.at = "forget" /\ lwip.ev.arg = c
                 \/ task.at = "forget" /\ task.ev.arg = c
Holds(c, s) == obj[c].slot = s /\ ~Forgetting(c)
SlotsExclusive ==
  /\ \A c, d \in Clients : \A s \in Slots : Holds(c, s) /\ Holds(d, s) => c = d
  /\ \A s \in Slots : slots[s] = 0 <=> \E c \in Clients : Holds(c, s)

\* LwIP never holds the address of a deleted client: a pcb's arg is the live
\* client of the pcb's own connection, and that client has this very pcb.
ArgIsLiveOwner ==
  \A p \in Pcbs : pcb[p].arg # NULL =>
    LET c == obj[pcb[p].arg] IN c.live /\ c.conn = pcb[p].conn /\ c.pcb = p

\* The disconnect callback of a live client runs at most once, whichever of FIN,
\* error and close() come together; and a client is deleted with its _pcb gone: the
\* destructor does not close again, which would run the callback on a half-deleted
\* client.
ClientsEndOnce ==
  /\ task.at \in {"fin", "error", "unlink"} /\ This.ready /\ This.live => This.conn \notin told
  /\ task.at \in {"freeSlot", "delete"} => This.pcb = NULL

\* A call that passes the guard of the _api functions and hits the pcb of another
\* connection came through one of four known holes: the slot was read as -1 next
\* to an old _pcb; the slot was freed and given to another client meanwhile; _close
\* had detached the pcb, and LwIP closed and reused it by itself; or LwIP has freed
\* the pcb with an error the task has not handled yet, which closes no slot.  Or it is
\* the work of another client, which has called on this client's pcb through one of
\* these holes, or has detached it in its _error or _close: the client's own pcb was
\* hit.  Every other stale call is stopped by the guard.
SlotTaken == task.slot # This.slot /\ \E c \in Clients \ {task.ev.arg} : obj[c].slot = task.slot
ErrorOnItsWay ==
  \E e \in Range(queue) \cup {lwip.ev} : e.event = "ERROR" /\ e.conn = This.conn
StrayCallsExplained ==
  [][(\E ok \in BOOLEAN : CallServed(ok)) /\ IsAnothers(task.pcb) =>
       \/ task.slot = NoSlot \/ SlotTaken \/ ErrorOnItsWay
       \/ task.op \in {"close", "closeAbort"}
       \/ This.hit]_vars

\* A connection the peer ends is reported to the application, unless its ACCEPT was put
\* in front of a queue that a purge was turning, and its FIN overtook it so: the client
\* has no callbacks yet when the FIN is handled, is handed to the application after its
\* end, and never told.
FinBeforeAccept(n) == task.at = "fin" /\ task.ev.conn = n /\ ~This.ready
EndedIsTold ==
  \A n \in 1..MaxConns :
    (lwip.at = "fin" /\ lwip.ev.conn = n) ~> (n \in told \/ FinBeforeAccept(n))
-----------------------------------------------------------------------------
\* For the runs: addresses are interchangeable, nothing here orders or names them.
Addresses == Permutations(Clients) \cup Permutations(Pcbs)
=============================================================================
