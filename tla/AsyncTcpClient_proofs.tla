----------------------- MODULE AsyncTcpClient_proofs -----------------------
(***************************************************************************)
(* Proofs about the clients of AsyncTCP.cpp, for any numbers of clients,   *)
(* pcbs, slots and connections.  Two invariants: the first for connections *)
(* that end by the peer's FIN or by an error of the stack, and are not     *)
(* closed by the application, with addresses that are handed out again;    *)
(* the second for those the application closes and aborts too, while no    *)
(* address is handed out again.  With both, a FIN sent after close() has   *)
(* purged the queue reaches the next client at the address, and what is    *)
(* proved here is not true.  The second is strengthened once more, for the *)
(* calls that reach the pcb of another connection; and again, with no      *)
(* connection reset, for the order of the queue and what it leaves for     *)
(* clients that are deleted.                                               *)
(***************************************************************************)
EXTENDS AsyncTcpClient, DataInduction, WellFoundedInduction, TLAPS

(***************************************************************************)
(* The inductive invariant, in named parts.                                *)
(***************************************************************************)

AnyEvent == [event : Events \cup {"NONE"}, arg : Clients \cup {NULL},
             conn : 0..MaxConns, id : 0..MaxData]
Objects == [live : BOOLEAN, ready : BOOLEAN, pcb : Pcbs \cup {NULL}, slot : 0..NumSlots,
            conn : 0..MaxConns, hit : BOOLEAN]
PcbRecords == [state : {"free", "open", "closed"}, arg : Clients \cup {NULL}, conn : 0..MaxConns]
LwipRecords == [at : LwipPlaces, ev : AnyEvent, pcb : Pcbs \cup {NULL}, tmp : Nat]
\* Without close() and abort() the task is only at these places and calls.
Places == {"get", "purge", "accept", "app", "call", "fin", "error", "freeSlot", "forget", "load",
           "count", "delete"}
TaskRecords == [at : Places, ev : AnyEvent, op : {"none", "recved", "write"}, more : BOOLEAN,
                read : SUBSET {"pcb", "slot"}, pcb : Pcbs \cup {NULL}, slot : 0..NumSlots,
                tmp : Nat, first : AnyEvent]
Typed ==
  /\ obj \in [Clients -> Objects] /\ pcb \in [Pcbs -> PcbRecords]
  /\ slots \in [Slots -> Nat] /\ index \in Nat \ {0}
  /\ queue \in Seq(AnEvent) /\ lwip \in LwipRecords /\ task \in TaskRecords
  /\ told \subseteq 1..MaxConns /\ conns \in 0..MaxConns /\ data \in 0..MaxData

\* What the two threads hold at each of their places.
LwipFin == {"fin", "freeSlot", "forget", "load", "count", "nullPcb"}
Ending == {"fin", "error", "freeSlot", "forget", "load", "count", "delete"}
Ends(e) == e.event \in {"FIN", "ERROR"}
Held ==
  /\ lwip.at # "idle" => lwip.ev \in AnEvent
  /\ lwip.at \in LwipFin => lwip.ev.event = "FIN"
  /\ lwip.at = "fin" => lwip.pcb # NULL
  /\ task.at # "get" => task.ev \in AnEvent
  /\ task.at = "fin" => task.ev.event = "FIN"
  /\ task.at = "error" => task.ev.event = "ERROR"
  /\ task.at = "call" => task.op # "none"

\* A live client's connection is its own; what is told is over.
ConnsOwn ==
  /\ \A c \in Clients : /\ obj[c].conn <= conns
                        /\ obj[c].live => obj[c].conn > 0
  /\ \A c, d \in Clients : obj[c].live /\ obj[d].live /\ obj[c].conn = obj[d].conn => c = d
  /\ \A n \in told : n <= conns

\* The three bearers of a client's end, besides its pcb, which is still to bring it.
Elems(q) == {q[i] : i \in 1..Len(q)}
EndIn(q, c) == \E e \in Elems(q) : Ends(e) /\ e.arg = c
LwipEnds(c) == lwip.at # "idle" /\ Ends(lwip.ev) /\ lwip.ev.arg = c
QueueEnds(c) == EndIn(queue, c)
TaskEnds(c) == task.at \in Ending /\ task.ev.arg = c

\* An end is in one place only.
Once(q) == \A i, j \in 1..Len(q) : Ends(q[i]) /\ Ends(q[j]) /\ q[i].arg = q[j].arg => i = j
OneEnd ==
  /\ Once(queue)
  /\ \A p \in Pcbs : LET c == pcb[p].arg IN
       c # NULL => (LwipEnds(c) => lwip.at = "fin") /\ ~QueueEnds(c) /\ ~TaskEnds(c)
  /\ \A c \in Clients : /\ LwipEnds(c) => ~QueueEnds(c) /\ ~TaskEnds(c)
                        /\ QueueEnds(c) => ~TaskEnds(c)

\* It is the end of the client that lives there, and a FIN leaves it no pcb.
EndOfLive(e) ==
  Ends(e) => /\ obj[e.arg].live /\ obj[e.arg].conn = e.conn
LwipEndsLive ==
  /\ lwip.at # "idle" => EndOfLive(lwip.ev)
  /\ lwip.at = "fin" => obj[lwip.ev.arg].pcb = lwip.pcb
  /\ lwip.at \in {"load", "count", "nullPcb"} => obj[lwip.ev.arg].slot = NoSlot
  /\ lwip.at = "send" /\ lwip.ev.event = "FIN" => obj[lwip.ev.arg].pcb = NULL
QueueEndsLive ==
  \A e \in Elems(queue) : EndOfLive(e) /\ (e.event = "FIN" => obj[e.arg].pcb = NULL)
TaskEndsLive ==
  task.at \in Ending =>
    /\ Ends(task.ev) /\ This.live /\ This.conn = task.ev.conn
    /\ task.at # "error" => This.pcb = NULL
    /\ task.at \in {"load", "count", "delete"} => This.slot = NoSlot

\* A deleted client holds no slot, a free pcb no client.
GoneHoldNothing ==
  /\ \A c \in Clients : ~obj[c].live => obj[c].slot = NoSlot
  /\ \A p \in Pcbs : pcb[p].state = "free" => pcb[p].arg = NULL

\* A client whose disconnect callback has run is being deleted.
ToldIsOver ==
  \A c \in Clients : obj[c].live /\ obj[c].conn \in told =>
    task.at \in {"freeSlot", "forget", "load", "count", "delete"} /\ task.ev.arg = c

Inv == /\ Typed /\ Held /\ ConnsOwn /\ OneEnd
       /\ LwipEndsLive /\ QueueEndsLive /\ TaskEndsLive
       /\ GoneHoldNothing /\ ToldIsOver /\ SlotsExclusive /\ ArgIsLiveOwner
-----------------------------------------------------------------------------
(***************************************************************************)
(* What adding to the queue and taking from it do to the ends in it.       *)
(***************************************************************************)

\* An event put at the end of the queue.
LEMMA Appending ==
  ASSUME NEW q \in Seq(AnEvent), NEW e \in AnEvent
  PROVE  /\ Append(q, e) \in Seq(AnEvent) /\ Elems(Append(q, e)) = Elems(q) \cup {e}
         /\ Once(q) /\ (Ends(e) => ~EndIn(q, e.arg)) => Once(Append(q, e))
<1>1. Append(q, e) \in Seq(AnEvent) /\ Elems(Append(q, e)) = Elems(q) \cup {e}
  BY DEF Elems
<1>2. ASSUME Once(q), Ends(e) => ~EndIn(q, e.arg) PROVE Once(Append(q, e))
  BY <1>2 DEF Once, EndIn, Elems
<1> QED
  BY <1>1, <1>2

\* An event put at its front.
LEMMA Prepending ==
  ASSUME NEW q \in Seq(AnEvent), NEW e \in AnEvent
  PROVE  /\ <<e>> \o q \in Seq(AnEvent) /\ Elems(<<e>> \o q) = Elems(q) \cup {e}
         /\ Once(q) /\ ~Ends(e) => Once(<<e>> \o q)
<1> DEFINE r == <<e>> \o q
<1>1. r \in Seq(AnEvent) /\ Len(r) = Len(q) + 1 /\ r[1] = e
  OBVIOUS
<1>2. \A i \in 1..Len(q) : r[i + 1] = q[i]
  OBVIOUS
<1>3. \A i \in 1..Len(r) : i # 1 => i - 1 \in 1..Len(q) /\ r[i] = q[i - 1]
  BY <1>1, <1>2
<1> HIDE DEF r
<1>4. Elems(r) \subseteq Elems(q) \cup {e}
  BY <1>1, <1>3, SMTT(20) DEF Elems
<1>5. e \in Elems(r)
  BY <1>1 DEF Elems
<1>6. ASSUME NEW i \in 1..Len(q) PROVE q[i] \in Elems(r)
  <2>1. i + 1 \in 1..Len(r)
    BY <1>1
  <2> QED
    BY <1>2, <2>1 DEF Elems
<1>7. ASSUME Once(q), ~Ends(e) PROVE Once(r)
  <2> SUFFICES ASSUME NEW i \in 1..Len(r), NEW j \in 1..Len(r),
                      Ends(r[i]), Ends(r[j]), r[i].arg = r[j].arg
               PROVE  i = j
    BY DEF Once
  <2>1. i # 1 /\ j # 1
    BY <1>1, <1>7
  <2>2. i - 1 \in 1..Len(q) /\ r[i] = q[i - 1] /\ j - 1 \in 1..Len(q) /\ r[j] = q[j - 1]
    BY <1>3, <2>1
  <2>3. i - 1 = j - 1
    BY <1>7, <2>2 DEF Once
  <2> QED
    BY <2>3
<1> QED
  BY <1>1, <1>4, <1>5, <1>6, <1>7 DEF Elems, r

\* An event taken from it.
LEMMA Taking ==
  ASSUME NEW q \in Seq(AnEvent), q # <<>>
  PROVE  /\ Tail(q) \in Seq(AnEvent) /\ Head(q) \in AnEvent
         /\ Elems(q) = Elems(Tail(q)) \cup {Head(q)}
         /\ Once(q) => Once(Tail(q)) /\ (Ends(Head(q)) => ~EndIn(Tail(q), Head(q).arg))
<1> DEFINE r == Tail(q)
<1>1. r \in Seq(AnEvent) /\ Head(q) \in AnEvent /\ Head(q) = q[1] /\ Len(q) = Len(r) + 1
  OBVIOUS
<1>2. \A i \in 1..Len(r) : r[i] = q[i + 1] /\ i + 1 \in 1..Len(q)
  OBVIOUS
<1>3. \A i \in 1..Len(q) : i # 1 => i - 1 \in 1..Len(r) /\ q[i] = r[i - 1]
  BY <1>1, <1>2
<1> HIDE DEF r
<1>4. Elems(q) = Elems(r) \cup {q[1]}
  <2>1. Elems(q) \subseteq Elems(r) \cup {q[1]}
    BY <1>3 DEF Elems
  <2>2. Elems(r) \subseteq Elems(q) /\ q[1] \in Elems(q)
    BY <1>1, <1>2 DEF Elems
  <2> QED
    BY <2>1, <2>2
<1>5. ASSUME Once(q) PROVE Once(r)
  <2> SUFFICES ASSUME NEW i \in 1..Len(r), NEW j \in 1..Len(r),
                      Ends(r[i]), Ends(r[j]), r[i].arg = r[j].arg
               PROVE  i = j
    BY DEF Once
  <2>1. i + 1 \in 1..Len(q) /\ j + 1 \in 1..Len(q) /\ r[i] = q[i + 1] /\ r[j] = q[j + 1]
    BY <1>2
  <2>2. i + 1 = j + 1
    BY <2>1, <1>5 DEF Once
  <2> QED
    BY <2>2
<1>6. ASSUME Once(q), Ends(q[1]) PROVE ~EndIn(r, q[1].arg)
  <2> SUFFICES ASSUME NEW i \in 1..Len(r), Ends(r[i]), r[i].arg = q[1].arg PROVE FALSE
    BY DEF EndIn, Elems
  <2>1. i + 1 = 1
    BY <1>1, <1>2, <1>6 DEF Once
  <2> QED
    BY <2>1
<1> QED
  BY <1>1, <1>4, <1>5, <1>6 DEF r
-----------------------------------------------------------------------------
(***************************************************************************)
(* The slot that an accepted client takes.                                 *)
(***************************************************************************)

\* A set of numbers has a smallest one.
LEMMA SmallestOf ==
  ASSUME NEW T, T \subseteq Nat, T # {}
  PROVE  \E n \in T : \A m \in T : n <= m
<1> DEFINE R == {ss \in Nat \X Nat : ss[1] < ss[2]}
<1>1. IsWellFoundedOn(R, Nat)
  BY NatLessThanWellFounded DEF OpToRel
<1>2. PICK n \in T : \A m \in T : ~(<<m, n>> \in R)
  <2> HIDE DEF R
  <2> QED
    BY <1>1, WFMin
<1>3. \A m \in T : ~(m < n)
  BY <1>2
<1> QED
  BY <1>3

\* The slot _allocate_closed_slot finds is not held.
LEMMA OldestSlotIsClosed ==
  ASSUME slots \in [Slots -> Nat]
  PROVE  OldestSlot = NoSlot \/ (OldestSlot \in Slots /\ slots[OldestSlot] # 0)
<1> SUFFICES ASSUME ClosedSlots # {} PROVE OldestSlot \in ClosedSlots
  BY DEF OldestSlot, ClosedSlots
<1> DEFINE Ages == {slots[s] : s \in ClosedSlots}
<1>1. PICK n \in Ages : \A m \in Ages : n <= m
  <2>1. Ages \subseteq Nat /\ Ages # {}
    BY DEF ClosedSlots
  <2> HIDE DEF Ages
  <2> QED
    BY <2>1, SmallestOf
<1> DEFINE Oldest == {s \in ClosedSlots : slots[s] = n}
           Ranks == {NumSlots - s : s \in Oldest}
<1>2. PICK d \in Ranks : \A m \in Ranks : d <= m
  <2>1. Ranks \subseteq Nat /\ Ranks # {}
    BY NumSlotsAssumption DEF ClosedSlots, Slots
  <2> HIDE DEF Ranks
  <2> QED
    BY <2>1, SmallestOf
<1>3. PICK s \in Oldest : d = NumSlots - s
  OBVIOUS
<1>4. \A t \in ClosedSlots : slots[s] < slots[t] \/ (slots[s] = slots[t] /\ t <= s)
  <2> SUFFICES ASSUME NEW t \in ClosedSlots, slots[t] <= slots[s]
               PROVE  slots[s] = slots[t] /\ t <= s
    BY <1>3 DEF ClosedSlots, Slots
  <2>1. slots[t] \in Ages
    OBVIOUS
  <2>2. slots[s] = slots[t] /\ slots[t] = n
    <3>1. n <= slots[t]
      BY <1>1, <2>1
    <3> QED
      BY <1>3, <3>1 DEF ClosedSlots, Slots
  <2>3. NumSlots - t \in Ranks
    BY <2>2
  <2>4. d <= NumSlots - t
    BY <1>2, <2>3
  <2> QED
    BY <1>3, <2>2, <2>4, NumSlotsAssumption DEF ClosedSlots, Slots
<1> QED
  BY <1>3, <1>4 DEF OldestSlot
-----------------------------------------------------------------------------
(***************************************************************************)
(* The invariant is inductive: one lemma for each step, the quiet steps of *)
(* the task together.                                                      *)
(***************************************************************************)

\* A client keeps what it has when another reaches its pcb, and the reach is on record.
LEMMA HitsIs ==
  ASSUME obj \in [Clients -> Objects], NEW p
  PROVE  /\ Hits(p) \in [Clients -> Objects]
         /\ \A c \in Clients :
              /\ Hits(p)[c].live = obj[c].live /\ Hits(p)[c].conn = obj[c].conn
              /\ Hits(p)[c].pcb = obj[c].pcb /\ Hits(p)[c].slot = obj[c].slot
              /\ Hits(p)[c].ready = obj[c].ready
              /\ Hits(p)[c].hit = (obj[c].hit \/ (IsAnothers(p) /\ obj[c].conn = pcb[p].conn))
<1>1. IsAnothers(p) \in BOOLEAN
  BY DEF IsAnothers
<1> QED
  BY <1>1 DEF Hits, Objects

\* A step of the task that ends no client and touches no connection.
Quiet == /\ \A c \in Clients : /\ obj'[c].live = obj[c].live /\ obj'[c].conn = obj[c].conn
                               /\ obj'[c].pcb = obj[c].pcb /\ obj'[c].slot = obj[c].slot
         /\ UNCHANGED <<pcb, slots, index, queue, lwip, told, conns>>
         /\ task.at \notin Ending /\ task'.at \notin Ending

\* The types of what the other parts of the invariant speak of.
LEMMA Fields ==
  ASSUME Typed, Held
  PROVE  /\ \A c \in Clients : /\ obj[c].live \in BOOLEAN /\ obj[c].pcb \in Pcbs \cup {NULL}
                               /\ obj[c].slot \in 0..NumSlots /\ obj[c].conn \in 0..MaxConns
         /\ \A p \in Pcbs : /\ pcb[p].state \in {"free", "open", "closed"}
                            /\ pcb[p].arg \in Clients \cup {NULL} /\ pcb[p].conn \in 0..MaxConns
         /\ lwip.at \in LwipPlaces /\ lwip.pcb \in Pcbs \cup {NULL} /\ lwip.tmp \in Nat
         /\ lwip.at # "idle" => lwip.ev.arg \in Clients /\ lwip.ev.conn \in 1..MaxConns
         /\ task.at \in Places /\ task.pcb \in Pcbs \cup {NULL} /\ task.slot \in 0..NumSlots
         /\ task.at # "get" => task.ev.arg \in Clients /\ task.ev.conn \in 1..MaxConns
         /\ \A e \in Elems(queue) : e \in AnEvent /\ e.arg \in Clients
<1>1. \A c \in Clients : obj[c] \in Objects
  BY DEF Typed
<1>2. \A p \in Pcbs : pcb[p] \in PcbRecords
  BY DEF Typed
<1>3. \A e \in Elems(queue) : e \in AnEvent
  BY DEF Typed, Elems
<1> QED
  BY <1>1, <1>2, <1>3 DEF Typed, Held, Objects, PcbRecords, LwipRecords, TaskRecords, AnEvent

\* A quiet step keeps the invariant.
LEMMA QuietKeeps ==
  ASSUME Inv, Typed', Held', Quiet PROVE Inv'
<1> USE DEF Inv, Quiet
<1>1. ConnsOwn'
  BY DEF ConnsOwn
<1>2. OneEnd'
  BY DEF OneEnd, Once, LwipEnds, QueueEnds, TaskEnds, EndIn, Elems
<1>3. LwipEndsLive'
  BY Fields DEF LwipEndsLive, EndOfLive, Held, LwipFin, Ends
<1>4. QueueEndsLive'
  BY Fields DEF QueueEndsLive, EndOfLive, Elems
<1>5. TaskEndsLive'
  BY DEF TaskEndsLive
<1>6. GoneHoldNothing' /\ ToldIsOver'
  BY DEF GoneHoldNothing, ToldIsOver, Ending
<1>7. SlotsExclusive'
  BY DEF SlotsExclusive, Holds, Forgetting, Ending
<1>8. ArgIsLiveOwner'
  BY Fields DEF ArgIsLiveOwner
<1> QED
  BY <1>1, <1>2, <1>3, <1>4, <1>5, <1>6, <1>7, <1>8

\* The records the task's steps make are typed.
LEMMA TaskRecord ==
  NoEvent \in AnyEvent /\ NoSlot \in 0..NumSlots /\ TaskIdle \in TaskRecords
<1>1. NoEvent \in AnyEvent /\ NoSlot \in 0..NumSlots
  BY NumSlotsAssumption, BoundsAssumption DEF NoEvent, Event, AnyEvent, NoSlot
<1> QED
  BY <1>1 DEF TaskRecords, TaskIdle, Places

\* Where Goto leads.
LEMMA GotoIs ==
  ASSUME task \in TaskRecords, NEW at \in Places, Goto(at)
  PROVE  /\ task' \in TaskRecords /\ task'.at = at
         /\ at # "get" => task'.ev = task.ev /\ task'.op = task.op
  BY TaskRecord DEF Goto, TaskIdle, TaskRecords

\* What the accept callback changes of the clients: nothing that the invariants read.
LEMMA ReadyKeeps ==
  ASSUME obj \in [Clients -> Objects], Accepted
  PROVE  /\ obj' \in [Clients -> Objects]
         /\ \A c \in Clients : /\ obj'[c].live = obj[c].live /\ obj'[c].conn = obj[c].conn
                               /\ obj'[c].pcb = obj[c].pcb /\ obj'[c].slot = obj[c].slot
<1>1. \A o \in Objects : [o EXCEPT !.ready = TRUE] \in Objects
  BY DEF Objects
<1>2. obj' = [obj EXCEPT ![task.ev.arg].ready = TRUE]
  BY DEF Accepted
<1>3. ASSUME NEW c \in Clients
      PROVE  obj'[c] \in Objects /\ obj'[c].live = obj[c].live /\ obj'[c].conn = obj[c].conn
             /\ obj'[c].pcb = obj[c].pcb /\ obj'[c].slot = obj[c].slot
  <2>1. obj'[c] = obj[c] \/ obj'[c] = [obj[c] EXCEPT !.ready = TRUE]
    BY <1>2
  <2>2. obj[c] \in Objects
    OBVIOUS
  <2> QED
    BY <2>1, <2>2, <1>1 DEF Objects
<1>4. obj' = [c \in Clients |-> obj'[c]]
  BY <1>2
<1> QED
  BY <1>3, <1>4

\* The steps of the task that are quiet; a call of recved or write only reaches its pcb.
LEMMA QuietSteps ==
  ASSUME Inv, ~Closes, NEW ok \in BOOLEAN,
         \/ PurgeReturn \/ AppReturn \/ AppWrite \/ ReadPcb \/ ReadSlot \/ Accepted
         \/ CallNull \/ CallRefused \/ CallServed(ok)
  PROVE  Inv'
<1> SUFFICES Typed' /\ Held' /\ Quiet
  BY QuietKeeps
<1> USE DEF Inv
<1>0. /\ task \in TaskRecords /\ task.at \in Places
      /\ task.ev \in AnyEvent /\ task.op \in {"none", "recved", "write"}
  BY DEF Typed, TaskRecords
<1>g. "get" \in Places /\ "app" \in Places
  BY DEF Places
<1>c. ASSUME NEW op \in {"recved", "write"}, Call(op)
      PROVE  task' \in TaskRecords /\ task'.at = "call" /\ task'.ev = task.ev /\ task'.op = op
  BY <1>0, <1>c, TaskRecord DEF Call, TaskIdle, TaskRecords, Places
<1>1. CASE PurgeReturn
  <2>1. task' = TaskIdle /\ task'.at = "get"
    BY <1>1 DEF PurgeReturn, TaskIdle
  <2> QED
    BY <1>1, <2>1, TaskRecord DEF PurgeReturn, Typed, Held, Quiet, shared, Ending
<1>n. ASSUME NextBuf, task.at \in {"app", "call"}
      PROVE  task' \in TaskRecords /\ task'.at \in {"get", "app"}
             /\ (task'.at = "app" => task'.ev = task.ev)
  <2>1. CASE task' = TaskIdle
    BY <2>1, TaskRecord DEF TaskIdle
  <2>2. CASE task' = [TaskIdle EXCEPT !.at = "app", !.ev = task.ev]
    BY <2>2, <1>0, TaskRecord DEF TaskIdle, TaskRecords, Places
  <2> QED
    BY <1>n, <2>1, <2>2 DEF NextBuf
<1>2. CASE AppReturn
  <2>1. task.at = "app" /\ (NextBuf \/ Call("recved"))
    BY <1>2, <1>0 DEF AppReturn, InApp, Places
  <2> QED
    BY <1>2, <2>1, <1>n, <1>c DEF AppReturn, Typed, Held, Quiet, shared, Ending
<1>3. CASE AppWrite
  BY <1>3, <1>c, <1>0 DEF AppWrite, AppCalls, InApp, Places, Typed, Held, Quiet, shared, Ending
<1>4. CASE ReadPcb \/ ReadSlot
  <2>1. This.pcb \in Pcbs \cup {NULL} /\ This.slot \in 0..NumSlots
    BY <1>4, Fields DEF ReadPcb, ReadSlot, This
  <2>2. \A x \in Pcbs \cup {NULL} :
          [task EXCEPT !.pcb = x, !.read = task.read \cup {"pcb"}] \in TaskRecords
    BY <1>0 DEF TaskRecords
  <2>3. \A x \in 0..NumSlots :
          [task EXCEPT !.slot = x, !.read = task.read \cup {"slot"}] \in TaskRecords
    BY <1>0 DEF TaskRecords
  <2>4. task' \in TaskRecords /\ task'.at = task.at /\ task'.ev = task.ev /\ task'.op = task.op
    <3>1. CASE ReadPcb
      BY <3>1, <2>1, <2>2, <1>0 DEF ReadPcb, TaskRecords
    <3>2. CASE ReadSlot
      BY <3>2, <2>1, <2>3, <1>0 DEF ReadSlot, TaskRecords
    <3> QED
      BY <1>4, <3>1, <3>2
  <2> QED
    BY <1>4, <2>4 DEF ReadPcb, ReadSlot, Typed, Held, Quiet, shared, Ending
<1>5. CASE Accepted
  <2>1. obj' \in [Clients -> Objects]
        /\ \A c \in Clients : /\ obj'[c].live = obj[c].live /\ obj'[c].conn = obj[c].conn
                              /\ obj'[c].pcb = obj[c].pcb /\ obj'[c].slot = obj[c].slot
    BY <1>5, ReadyKeeps DEF Accepted, Typed
  <2> QED
    BY <1>5, <2>1, <1>0, <1>g, GotoIs DEF Accepted, Typed, Held, Quiet, Ending
<1>6. CASE CallNull \/ CallRefused \/ CallServed(ok)
  <2>1. task.at = "call" /\ task.op \in {"recved", "write"}
    BY <1>6, <1>0 DEF CallNull, CallRefused, CallServed, Serve, ArgumentsRead, Held
  <2>2. obj' \in {obj, Hits(task.pcb)} /\ (NextBuf \/ Goto("app"))
    BY <1>6, <2>1 DEF CallNull, CallRefused, CallServed, Serve, AfterCall
  <2>3. UNCHANGED <<pcb, slots, index, queue, lwip, told, conns, data>>
    BY <1>6, <2>1 DEF CallNull, CallRefused, CallServed, Serve
  <2>4. obj' \in [Clients -> Objects]
        /\ \A c \in Clients : /\ obj'[c].live = obj[c].live /\ obj'[c].conn = obj[c].conn
                              /\ obj'[c].pcb = obj[c].pcb /\ obj'[c].slot = obj[c].slot
    BY <2>2, HitsIs DEF Typed
  <2> QED
    BY <2>1, <2>2, <2>3, <2>4, <1>0, <1>g, <1>n, GotoIs DEF Typed, Held, Quiet, Ending
<1> QED
  BY <1>1, <1>2, <1>3, <1>4, <1>5, <1>6

\* The event of a callback is for the client the pcb belongs to.
LEMMA CallbackEvent ==
  ASSUME Inv, NEW p \in Pcbs, pcb[p].arg # NULL, NEW kind \in Events
  PROVE  /\ \A i \in 0..MaxData :
              [Event(kind, pcb[p].arg, pcb[p].conn) EXCEPT !.id = i] \in AnEvent
         /\ Event(kind, pcb[p].arg, pcb[p].conn) \in AnEvent
         /\ AnEvent \subseteq AnyEvent
<1>1. pcb[p].conn \in 1..MaxConns /\ pcb[p].arg \in Clients
  BY Fields DEF Inv, ArgIsLiveOwner, ConnsOwn
<1> QED
  BY <1>1, BoundsAssumption DEF Event, AnEvent, AnyEvent

\* A data callback holds no end.
LEMMA CallbackKeeps ==
  ASSUME Inv, NEW p \in Pcbs, Callback(p) PROVE Inv'
<1> USE DEF Inv
<1>1. /\ lwip' \in LwipRecords /\ lwip'.at = "send" /\ lwip'.ev \in AnEvent
      /\ lwip'.ev.event = "RECV"
  <2> DEFINE e == [Event("RECV", pcb[p].arg, pcb[p].conn) EXCEPT !.id = data']
  <2>1. data' \in 0..MaxData
    BY BoundsAssumption DEF Callback, Typed
  <2>2. e \in AnEvent /\ e \in AnyEvent
    BY <2>1, CallbackEvent DEF Callback, Events
  <2>3. e.event = "RECV"
    BY DEF Event
  <2>4. lwip' = [lwip EXCEPT !.at = "send", !.ev = e]
    BY DEF Callback
  <2> HIDE DEF e
  <2> QED
    BY <2>2, <2>3, <2>4 DEF Typed, LwipRecords, LwipPlaces
<1>2. UNCHANGED <<obj, pcb, slots, index, queue, task, told, conns>>
  BY DEF Callback, shared
<1>l. lwip.at = "idle"
  BY DEF Callback
<1>3. Typed'
  BY <1>1, <1>2, BoundsAssumption DEF Typed, Callback
<1>4. Held' /\ LwipEndsLive'
  BY <1>1, <1>2 DEF Held, LwipFin, LwipEndsLive, EndOfLive, Ends
<1>5. OneEnd'
  BY <1>1, <1>2 DEF OneEnd, LwipEnds, QueueEnds, TaskEnds, Ends
<1>6. ConnsOwn' /\ QueueEndsLive' /\ TaskEndsLive' /\ GoneHoldNothing' /\ ToldIsOver'
      /\ SlotsExclusive' /\ ArgIsLiveOwner'
  BY <1>1, <1>2, <1>l DEF ConnsOwn, QueueEndsLive, EndOfLive, TaskEndsLive, This, GoneHoldNothing,
              ToldIsOver, SlotsExclusive, Holds, Forgetting, ArgIsLiveOwner
<1> QED
  BY <1>3, <1>4, <1>5, <1>6

\* An error of the stack takes the end of the client from the pcb it frees.
LEMMA ResetKeeps ==
  ASSUME Inv, NEW p \in Pcbs, Reset(p) PROVE Inv'
<1> USE DEF Inv
<1>1. /\ lwip.at = "idle" /\ pcb' \in [Pcbs -> PcbRecords]
      /\ pcb'[p].state = "free" /\ pcb'[p].arg = NULL
      /\ \A q \in Pcbs : q # p => pcb'[q] = pcb[q]
  BY BoundsAssumption DEF Reset, FreePcb, Typed, PcbRecords
<1>2. UNCHANGED <<obj, slots, index, queue, task, told, conns, data>>
  BY DEF Reset
<1>l. lwip.at # "forget" /\ lwip'.at # "forget"
  BY <1>1 DEF Reset, Typed, LwipRecords, LwipIdle
<1>3. ConnsOwn' /\ QueueEndsLive' /\ TaskEndsLive' /\ GoneHoldNothing' /\ ToldIsOver'
      /\ SlotsExclusive' /\ ArgIsLiveOwner'
  BY <1>1, <1>2, <1>l DEF ConnsOwn, QueueEndsLive, EndOfLive, TaskEndsLive, This, GoneHoldNothing,
                    ToldIsOver, SlotsExclusive, Holds, Forgetting, ArgIsLiveOwner
<1>4. CASE pcb[p].arg = NULL
  <2>1. UNCHANGED lwip
    BY <1>4 DEF Reset
  <2> QED
    BY <1>1, <1>2, <1>3, <2>1 DEF Typed, Held, OneEnd, LwipEnds, QueueEnds, TaskEnds,
                                      LwipEndsLive, EndOfLive
<1>5. CASE pcb[p].arg # NULL
  <2> DEFINE e == Event("ERROR", pcb[p].arg, pcb[p].conn)
  <2>1. e \in AnEvent /\ e \in AnyEvent
    BY <1>5, CallbackEvent DEF Events
  <2>2. e.event = "ERROR" /\ e.arg = pcb[p].arg /\ e.conn = pcb[p].conn
    BY DEF Event
  <2>3. lwip' = [lwip EXCEPT !.at = "send", !.ev = e]
    BY <1>5 DEF Reset
  <2> HIDE DEF e
  <2>4. /\ lwip' \in LwipRecords /\ lwip'.at = "send" /\ lwip'.ev = e
    BY <2>1, <2>3 DEF Typed, LwipRecords, LwipPlaces
  <2>5. Typed' /\ Held'
    BY <1>1, <1>2, <2>1, <2>2, <2>4 DEF Typed, Held, LwipFin
  <2>6. LwipEndsLive'
    BY <1>2, <1>5, <2>2, <2>4 DEF LwipEndsLive, EndOfLive, ArgIsLiveOwner
  <2>7. OneEnd'
    <3>1. \A q \in Pcbs : q # p => pcb[q].arg # pcb[p].arg
      BY <1>5 DEF ArgIsLiveOwner
    <3> QED
      BY <1>1, <1>2, <1>5, <2>2, <2>4, <3>1 DEF OneEnd, LwipEnds, QueueEnds, TaskEnds
  <2> QED
    BY <1>3, <2>5, <2>6, <2>7
<1> QED
  BY <1>4, <1>5

\* The peer's FIN does the same, with the pcb still attached.
LEMMA RemoteFinKeeps ==
  ASSUME Inv, NEW p \in Pcbs, RemoteFin(p) PROVE Inv'
<1> USE DEF Inv
<1>1. UNCHANGED <<obj, slots, index, queue, task, told, conns, data>>
  BY DEF RemoteFin
<1>2. CASE pcb[p].arg = NULL
  <2>1. /\ UNCHANGED lwip /\ pcb' \in [Pcbs -> PcbRecords]
        /\ pcb'[p].state = "closed" /\ pcb'[p].arg = NULL
        /\ \A q \in Pcbs : q # p => pcb'[q] = pcb[q]
    <3>1. pcb' = [pcb EXCEPT ![p].state = "closed"] /\ UNCHANGED lwip
      BY <1>2 DEF RemoteFin
    <3>2. pcb[p] \in PcbRecords /\ pcb \in [Pcbs -> PcbRecords]
      BY DEF Typed
    <3> QED
      BY <1>2, <3>1, <3>2 DEF PcbRecords
  <2>2. Typed' /\ Held' /\ LwipEndsLive'
    BY <1>1, <2>1 DEF Typed, Held, LwipEndsLive, EndOfLive
  <2>3. OneEnd'
    BY <1>1, <2>1 DEF OneEnd, LwipEnds, QueueEnds, TaskEnds
  <2>4. ConnsOwn' /\ QueueEndsLive' /\ TaskEndsLive' /\ GoneHoldNothing' /\ ToldIsOver'
        /\ SlotsExclusive' /\ ArgIsLiveOwner'
    BY <1>1, <2>1 DEF ConnsOwn, QueueEndsLive, EndOfLive, TaskEndsLive, This, GoneHoldNothing,
                      ToldIsOver, SlotsExclusive, Holds, Forgetting, ArgIsLiveOwner
  <2> QED
    BY <2>2, <2>3, <2>4
<1>3. CASE pcb[p].arg # NULL
  <2> DEFINE e == Event("FIN", pcb[p].arg, pcb[p].conn)
  <2>1. e \in AnEvent /\ e \in AnyEvent
    BY <1>3, CallbackEvent DEF Events
  <2>2. e.event = "FIN" /\ e.arg = pcb[p].arg /\ e.conn = pcb[p].conn
    BY DEF Event
  <2>3. lwip' = [lwip EXCEPT !.at = "fin", !.pcb = p, !.ev = e] /\ UNCHANGED pcb
        /\ lwip.at = "idle"
    BY <1>3 DEF RemoteFin
  <2> HIDE DEF e
  <2>4. /\ lwip' \in LwipRecords /\ lwip'.at = "fin" /\ lwip'.ev = e /\ lwip'.pcb = p
    BY <2>1, <2>3 DEF Typed, LwipRecords, LwipPlaces
  <2>5. Typed' /\ Held'
    BY <1>1, <2>1, <2>2, <2>3, <2>4, NullAssumption DEF Typed, Held, LwipFin
  <2>6. LwipEndsLive'
    BY <1>1, <1>3, <2>2, <2>4 DEF LwipEndsLive, EndOfLive, ArgIsLiveOwner
  <2>7. OneEnd'
    BY <1>1, <1>3, <2>2, <2>3, <2>4 DEF OneEnd, LwipEnds, QueueEnds, TaskEnds
  <2>8. ConnsOwn' /\ QueueEndsLive' /\ TaskEndsLive' /\ GoneHoldNothing' /\ ToldIsOver'
        /\ SlotsExclusive' /\ ArgIsLiveOwner'
    BY <1>1, <2>2, <2>3, <2>4 DEF ConnsOwn, QueueEndsLive, EndOfLive, TaskEndsLive, This, GoneHoldNothing,
                      ToldIsOver, SlotsExclusive, Holds, Forgetting, ArgIsLiveOwner
  <2> QED
    BY <2>5, <2>6, <2>7, <2>8
<1> QED
  BY <1>2, <1>3

\* A closed pcb has no client.
LEMMA PcbGoneKeeps ==
  ASSUME Inv, NEW p \in Pcbs, PcbGone(p) PROVE Inv'
<1> USE DEF Inv
<1>1. /\ UNCHANGED <<obj, slots, index, queue, lwip, task, told, conns, data>>
      /\ lwip.at = "idle" /\ pcb' \in [Pcbs -> PcbRecords]
      /\ pcb'[p].state = "free" /\ pcb'[p].arg = NULL
      /\ \A q \in Pcbs : q # p => pcb'[q] = pcb[q]
  BY BoundsAssumption DEF PcbGone, FreePcb, Typed, PcbRecords
<1>2. Typed' /\ Held' /\ LwipEndsLive'
  BY <1>1 DEF Typed, Held, LwipEndsLive, EndOfLive
<1>3. OneEnd'
  BY <1>1 DEF OneEnd, LwipEnds, QueueEnds, TaskEnds
<1>4. ConnsOwn' /\ QueueEndsLive' /\ TaskEndsLive' /\ GoneHoldNothing' /\ ToldIsOver'
      /\ SlotsExclusive' /\ ArgIsLiveOwner'
  BY <1>1 DEF ConnsOwn, QueueEndsLive, EndOfLive, TaskEndsLive, This, GoneHoldNothing,
              ToldIsOver, SlotsExclusive, Holds, Forgetting, ArgIsLiveOwner
<1> QED
  BY <1>2, <1>3, <1>4

\* The address of a new client is not in any end: what is there ends a live client.
LEMMA AcceptKeeps ==
  ASSUME Inv, NEW a \in Clients, NEW p \in Pcbs, Accept(a, p) PROVE Inv'
<1> USE DEF Inv
<1> DEFINE e == Event("ACCEPT", a, conns')
           s == OldestSlot
<1>1. /\ conns \in Nat /\ conns' = conns + 1 /\ conns' \in 1..MaxConns /\ lwip.at = "idle"
      /\ told \subseteq Nat
      /\ UNCHANGED <<index, lwip, task, told, data>>
      /\ ~obj[a].live /\ pcb[p].arg = NULL
  BY BoundsAssumption DEF Accept, Typed, GoneHoldNothing
<1>2. s \in 0..NumSlots /\ (s # NoSlot => s \in Slots /\ slots[s] # 0)
  BY OldestSlotIsClosed, NumSlotsAssumption DEF Typed, Slots, NoSlot
<1>3. /\ queue' = <<e>> \o queue
      /\ slots' = IF s = NoSlot THEN slots ELSE [slots EXCEPT ![s] = 0]
      /\ pcb' = [pcb EXCEPT ![p] = [state |-> "open", arg |-> a, conn |-> conns']]
      /\ obj' = [obj EXCEPT ![a] = [live |-> TRUE, ready |-> FALSE, pcb |-> p,
                                    slot |-> s, conn |-> conns', hit |-> FALSE]]
  BY DEF Accept
<1>4. e \in AnEvent /\ e.event = "ACCEPT"
  BY <1>1, BoundsAssumption DEF Event, AnEvent, Events
<1> HIDE DEF e, s
<1>5. queue' \in Seq(AnEvent) /\ Elems(queue') = Elems(queue) \cup {e}
      /\ (Once(queue) => Once(queue'))
  BY <1>3, <1>4, Prepending DEF Typed, Ends
<1>6. /\ obj' \in [Clients -> Objects] /\ obj'[a].live /\ obj'[a].pcb = p
      /\ obj'[a].slot = s /\ obj'[a].conn = conns'
      /\ \A c \in Clients : c # a => obj'[c] = obj[c]
  BY <1>1, <1>2, <1>3 DEF Typed, Objects
<1>7. /\ pcb' \in [Pcbs -> PcbRecords] /\ pcb'[p].arg = a /\ pcb'[p].state = "open"
      /\ pcb'[p].conn = conns' /\ \A q \in Pcbs : q # p => pcb'[q] = pcb[q]
  BY <1>1, <1>3 DEF Typed, PcbRecords
<1>8. Typed' /\ Held' /\ LwipEndsLive'
  BY <1>1, <1>2, <1>3, <1>5, <1>6, <1>7 DEF Typed, Held, LwipEndsLive, LwipFin
<1>9. \A x \in Elems(queue) : Ends(x) => x.arg # a
  BY <1>1 DEF QueueEndsLive, EndOfLive
<1>10. task.at \in Ending => task.ev.arg # a
  BY <1>1 DEF TaskEndsLive, This
<1>11. ConnsOwn'
  <2>1. \A c \in Clients : obj[c].conn \in Nat /\ (c # a => obj'[c].conn < conns')
    BY <1>1, <1>6, Fields DEF ConnsOwn
  <2> QED
    BY <1>1, <1>6, <2>1 DEF ConnsOwn
<1>12. OneEnd'
  BY <1>1, <1>4, <1>5, <1>7, <1>9, <1>10 DEF OneEnd, LwipEnds, QueueEnds, EndIn, TaskEnds, Ends
<1>13. QueueEndsLive'
  BY <1>4, <1>5, <1>6, <1>9, Fields DEF QueueEndsLive, EndOfLive, Ends
<1>14. TaskEndsLive'
  BY <1>1, <1>6, <1>10, Fields DEF TaskEndsLive, This, Ending
<1>15. GoneHoldNothing' /\ ToldIsOver'
  <2>1. obj'[a].conn \notin told'
    BY <1>1, <1>6 DEF ConnsOwn
  <2> QED
    BY <1>1, <1>6, <1>7, <2>1 DEF GoneHoldNothing, ToldIsOver
<1>16. SlotsExclusive'
  <2>1. \A c \in Clients : c # a /\ s # NoSlot => ~Holds(c, s)
    BY <1>2 DEF SlotsExclusive
  <2>0. ~Forgetting(a)' /\ \A c \in Clients : Forgetting(c)' <=> Forgetting(c)
    <3>1. lwip.at # "forget" /\ (task.at = "forget" => task.ev.arg # a)
      BY <1>1, <1>10 DEF Ending
    <3> QED
      BY <1>1, <3>1 DEF Forgetting
  <2>2. obj[a].slot = NoSlot /\ (\A t \in Slots : t # NoSlot) /\ slots \in [Slots -> Nat]
    BY <1>1, NumSlotsAssumption DEF GoneHoldNothing, Slots, NoSlot, Typed
  <2> QED
    BY <1>2, <1>3, <1>6, <2>0, <2>1, <2>2 DEF SlotsExclusive, Holds
<1>17. ArgIsLiveOwner'
  BY <1>1, <1>6, <1>7, Fields DEF ArgIsLiveOwner
<1> QED
  BY <1>8, <1>11, <1>12, <1>13, <1>14, <1>15, <1>16, <1>17

\* _lwip_fin finds the pcb it was called for in its client, and detaches it.
LEMMA FinCloseKeeps ==
  ASSUME Inv, LwipFinClose PROVE Inv'
<1> USE DEF Inv
<1>1. /\ lwip.at = "fin" /\ lwip.ev \in AnEvent /\ lwip.pcb \in Pcbs /\ lwip.ev.event = "FIN"
      /\ obj[lwip.ev.arg].pcb = lwip.pcb
      /\ UNCHANGED <<obj, slots, index, queue, task, told, conns, data>>
  BY Fields DEF LwipFinClose, Held, LwipFin, LwipEndsLive
<1>2. /\ pcb' = [pcb EXCEPT ![lwip.pcb].state = "closed", ![lwip.pcb].arg = NULL]
      /\ lwip' = [lwip EXCEPT !.at = "freeSlot", !.pcb = NULL]
  BY <1>1 DEF LwipFinClose
<1>3. /\ lwip' \in LwipRecords /\ lwip'.at = "freeSlot" /\ lwip'.ev = lwip.ev
  BY <1>2 DEF Typed, LwipRecords, LwipPlaces
<1>4. /\ pcb' \in [Pcbs -> PcbRecords] /\ pcb'[lwip.pcb].arg = NULL
      /\ pcb'[lwip.pcb].state = "closed"
      /\ \A q \in Pcbs : q # lwip.pcb => pcb'[q] = pcb[q]
  BY <1>1, <1>2 DEF Typed, PcbRecords
<1>5. Typed' /\ Held' /\ LwipEndsLive'
  BY <1>1, <1>3, <1>4 DEF Typed, Held, LwipEndsLive, EndOfLive, LwipFin
<1>6. \A q \in Pcbs : q # lwip.pcb => pcb[q].arg # lwip.ev.arg
  BY <1>1, NullAssumption, Fields DEF ArgIsLiveOwner
<1>7. OneEnd'
  BY <1>1, <1>3, <1>4, <1>6 DEF OneEnd, LwipEnds, QueueEnds, TaskEnds
<1>8. ConnsOwn' /\ QueueEndsLive' /\ TaskEndsLive' /\ GoneHoldNothing' /\ ToldIsOver'
      /\ SlotsExclusive' /\ ArgIsLiveOwner'
  BY <1>1, <1>3, <1>4 DEF ConnsOwn, QueueEndsLive, EndOfLive, TaskEndsLive, This, GoneHoldNothing,
                    ToldIsOver, SlotsExclusive, Holds, Forgetting, ArgIsLiveOwner
<1> QED
  BY <1>5, <1>7, <1>8

\* What the parts of _free_closed_slot do to the slots, of a client that is not in the
\* hands of the other thread: giving its slot back ends its hold of it,
LEMMA SlotGiven ==
  ASSUME NEW a \in Clients, GiveSlotBack(a), SlotsExclusive, obj' = obj,
         obj \in [Clients -> Objects], slots \in [Slots -> Nat], index \in Nat \ {0},
         ~Forgetting(a), obj[a].slot # NoSlot => Forgetting(a)',
         \A c \in Clients : c # a => (Forgetting(c)' <=> Forgetting(c))
  PROVE  slots' \in [Slots -> Nat] /\ SlotsExclusive'
<1>1. slots' = IF obj[a].slot = NoSlot THEN slots ELSE [slots EXCEPT ![obj[a].slot] = index]
  BY DEF GiveSlotBack
<1>2. slots' \in [Slots -> Nat]
  BY <1>1
<1>3. obj[a].slot # NoSlot => obj[a].slot \in Slots
  <2>1. obj[a].slot \in 0..NumSlots
    BY DEF Objects
  <2> QED
    BY <2>1, NumSlotsAssumption DEF NoSlot, Slots
<1>4. \A s \in Slots : s # NoSlot
  BY NumSlotsAssumption DEF Slots, NoSlot
<1>5. \A c \in Clients : \A s \in Slots : Holds(c, s)' <=> Holds(c, s) /\ c # a
  BY <1>4 DEF Holds
<1>6. \A s \in Slots : Holds(a, s) <=> s = obj[a].slot
  BY DEF Holds
<1>7. \A s \in Slots : slots'[s] = 0 <=> slots[s] = 0 /\ s # obj[a].slot
  BY <1>1, <1>3, <1>4
<1>8. \A s \in Slots : (\E c \in Clients : Holds(c, s)') <=> (\E c \in Clients : Holds(c, s)) /\ s # obj[a].slot
  BY <1>5, <1>6 DEF SlotsExclusive
<1> QED
  BY <1>2, <1>5, <1>7, <1>8 DEF SlotsExclusive

\* and forgetting the slot changes the hold of none.
LEMMA SlotForgotten ==
  ASSUME NEW a \in Clients, ForgetSlot(a), SlotsExclusive, slots' = slots,
         obj \in [Clients -> Objects], Forgetting(a),
         \A c \in Clients : c # a => (Forgetting(c)' <=> Forgetting(c))
  PROVE  /\ obj' \in [Clients -> Objects]
         /\ \A c \in Clients : /\ obj'[c].live = obj[c].live /\ obj'[c].pcb = obj[c].pcb
                               /\ obj'[c].conn = obj[c].conn
                               /\ obj'[c].slot = IF c = a THEN NoSlot ELSE obj[c].slot
         /\ SlotsExclusive'
<1>1. obj' = [obj EXCEPT ![a].slot = NoSlot] /\ NoSlot \in 0..NumSlots
  BY TaskRecord DEF ForgetSlot
<1>2. /\ obj' \in [Clients -> Objects]
      /\ \A c \in Clients : /\ obj'[c].live = obj[c].live /\ obj'[c].pcb = obj[c].pcb
                            /\ obj'[c].conn = obj[c].conn
                            /\ obj'[c].slot = IF c = a THEN NoSlot ELSE obj[c].slot
  BY <1>1 DEF Objects
<1>3. \A s \in Slots : s # NoSlot
  BY NumSlotsAssumption DEF Slots, NoSlot
<1>4. \A c \in Clients : \A s \in Slots : Holds(c, s)' <=> Holds(c, s)
  BY <1>2, <1>3 DEF Holds
<1>5. SlotsExclusive'
  BY <1>4 DEF SlotsExclusive
<1> QED
  BY <1>2, <1>5

\* _lwip_fin gives the slot of a live client back.
LEMMA FinFreeSlotKeeps ==
  ASSUME Inv, LwipFinFreeSlot PROVE Inv'
<1> USE DEF Inv
<1> DEFINE a == lwip.ev.arg
<1>1. /\ lwip.at = "freeSlot" /\ lwip.ev \in AnEvent /\ lwip.ev.event = "FIN" /\ a \in Clients
      /\ GiveSlotBack(a)
      /\ UNCHANGED <<obj, pcb, index, queue, task, told, conns, data>>
  BY Fields DEF LwipFinFreeSlot, Held, LwipFin
<1>2. /\ lwip' \in LwipRecords /\ lwip'.ev = lwip.ev
      /\ lwip'.at = IF obj[a].slot = NoSlot THEN "nullPcb" ELSE "forget"
  BY DEF LwipFinFreeSlot, Typed, LwipRecords, LwipPlaces
<1>3. task.at \in Ending => task.ev.arg # a
  BY <1>1 DEF OneEnd, LwipEnds, TaskEnds, Ends
<1>4. slots' \in [Slots -> Nat] /\ SlotsExclusive'
  <2>1. PICK b \in Clients : a = b
    BY <1>1
  <2>2. /\ ~Forgetting(b) /\ (obj[b].slot # NoSlot => Forgetting(b)')
        /\ \A c \in Clients : c # b => (Forgetting(c)' <=> Forgetting(c))
    BY <1>1, <2>1, <1>2, <1>3 DEF Forgetting, Ending
  <2>3. GiveSlotBack(b)
    BY <1>1, <2>1
  <2> QED
    BY <1>1, <2>2, <2>3, SlotGiven DEF Typed
<1>5. Typed' /\ Held'
  BY <1>1, <1>2, <1>4 DEF Typed, Held, LwipFin
<1>6. LwipEndsLive'
  BY <1>1, <1>2 DEF LwipEndsLive, EndOfLive
<1>7. OneEnd'
  BY <1>1, <1>2 DEF OneEnd, LwipEnds, QueueEnds, TaskEnds
<1>8. ConnsOwn' /\ GoneHoldNothing' /\ ToldIsOver' /\ QueueEndsLive' /\ TaskEndsLive' /\ ArgIsLiveOwner'
  BY <1>1 DEF ConnsOwn, GoneHoldNothing, ToldIsOver, QueueEndsLive, EndOfLive, TaskEndsLive, This,
              ArgIsLiveOwner
<1> QED
  BY <1>4, <1>5, <1>6, <1>7, <1>8

\* The client forgets it.
LEMMA FinForgetKeeps ==
  ASSUME Inv, LwipFinForget PROVE Inv'
<1> USE DEF Inv
<1> DEFINE a == lwip.ev.arg
<1>1. /\ lwip.at = "forget" /\ lwip.ev \in AnEvent /\ lwip.ev.event = "FIN" /\ a \in Clients
      /\ ForgetSlot(a)
      /\ UNCHANGED <<pcb, slots, index, queue, task, told, conns, data>>
  BY Fields DEF LwipFinForget, Held, LwipFin
<1>2. /\ lwip' \in LwipRecords /\ lwip'.at = "load" /\ lwip'.ev = lwip.ev
  BY DEF LwipFinForget, Typed, LwipRecords, LwipPlaces
<1>3. obj[a].live /\ obj[a].conn = lwip.ev.conn
  BY <1>1 DEF LwipEndsLive, EndOfLive, Ends
<1>4. /\ obj' \in [Clients -> Objects] /\ SlotsExclusive'
      /\ \A c \in Clients : /\ obj'[c].live = obj[c].live /\ obj'[c].pcb = obj[c].pcb
                            /\ obj'[c].conn = obj[c].conn
                            /\ obj'[c].slot = IF c = a THEN NoSlot ELSE obj[c].slot
  <2>1. /\ Forgetting(a) /\ \A c \in Clients : c # a => (Forgetting(c)' <=> Forgetting(c))
    BY <1>1, <1>2 DEF Forgetting
  <2> HIDE DEF a
  <2> QED
    BY <1>1, <2>1, SlotForgotten DEF Typed
<1> HIDE DEF a
<1>5. Typed' /\ Held'
  BY <1>1, <1>2, <1>4 DEF Typed, Held, LwipFin
<1>6. LwipEndsLive'
  BY <1>1, <1>2, <1>3, <1>4 DEF LwipEndsLive, EndOfLive, a
<1>7. OneEnd'
  BY <1>1, <1>2 DEF OneEnd, LwipEnds, QueueEnds, TaskEnds
<1>8. ConnsOwn' /\ GoneHoldNothing' /\ ToldIsOver'
  BY <1>1, <1>4 DEF ConnsOwn, GoneHoldNothing, ToldIsOver
<1>9. QueueEndsLive' /\ TaskEndsLive' /\ ArgIsLiveOwner'
  BY <1>1, <1>4, Fields DEF QueueEndsLive, EndOfLive, TaskEndsLive, Ending, This, ArgIsLiveOwner
<1> QED
  BY <1>4, <1>5, <1>6, <1>7, <1>8, <1>9

\* It reads _closed_index.
LEMMA FinLoadKeeps ==
  ASSUME Inv, LwipFinLoad PROVE Inv'
<1> USE DEF Inv
<1>1. /\ lwip.at = "load"
      /\ lwip' \in LwipRecords /\ lwip'.at = "count" /\ lwip'.ev = lwip.ev
      /\ UNCHANGED <<obj, pcb, slots, index, queue, task, told, conns, data>>
  <2>1. lwip \in LwipRecords /\ index \in Nat
    BY DEF Typed
  <2>2. /\ lwip.at = "load" /\ lwip' = [lwip EXCEPT !.at = "count", !.tmp = index]
        /\ UNCHANGED <<obj, pcb, slots, index, queue, task, told, conns, data>>
    BY DEF LwipFinLoad, shared
  <2>3. lwip' \in LwipRecords /\ lwip'.at = "count" /\ lwip'.ev = lwip.ev
    BY <2>1, <2>2 DEF LwipRecords, LwipPlaces
  <2> QED
    BY <2>2, <2>3
<1>2. Typed' /\ Held' /\ LwipEndsLive'
  BY <1>1 DEF Typed, Held, LwipFin, LwipEndsLive, EndOfLive
<1>3. OneEnd'
  BY <1>1 DEF OneEnd, LwipEnds, QueueEnds, TaskEnds
<1>4. ConnsOwn' /\ QueueEndsLive' /\ TaskEndsLive' /\ GoneHoldNothing' /\ ToldIsOver'
      /\ SlotsExclusive' /\ ArgIsLiveOwner'
  BY <1>1 DEF ConnsOwn, QueueEndsLive, EndOfLive, TaskEndsLive, This, GoneHoldNothing,
              ToldIsOver, SlotsExclusive, Holds, Forgetting, ArgIsLiveOwner
<1> QED
  BY <1>2, <1>3, <1>4

\* It counts the slot as closed.
LEMMA FinCountKeeps ==
  ASSUME Inv, LwipFinCount PROVE Inv'
<1> USE DEF Inv
<1>1. /\ lwip.at = "count" /\ index' \in Nat \ {0}
      /\ lwip' \in LwipRecords /\ lwip'.at = "nullPcb" /\ lwip'.ev = lwip.ev
      /\ UNCHANGED <<obj, pcb, slots, queue, task, told, conns, data>>
  <2>1. lwip \in LwipRecords /\ lwip.tmp \in Nat
    BY Fields DEF Typed
  <2>2. /\ lwip.at = "count" /\ index' = lwip.tmp + 1
        /\ lwip' = [lwip EXCEPT !.at = "nullPcb", !.tmp = 0]
        /\ UNCHANGED <<obj, pcb, slots, queue, task, told, conns, data>>
    BY DEF LwipFinCount
  <2>3. lwip' \in LwipRecords /\ lwip'.at = "nullPcb" /\ lwip'.ev = lwip.ev
    BY <2>1, <2>2 DEF LwipRecords, LwipPlaces
  <2> QED
    BY <2>1, <2>2, <2>3
<1>2. Typed' /\ Held' /\ LwipEndsLive'
  BY <1>1 DEF Typed, Held, LwipFin, LwipEndsLive, EndOfLive
<1>3. OneEnd'
  BY <1>1 DEF OneEnd, LwipEnds, QueueEnds, TaskEnds
<1>4. ConnsOwn' /\ QueueEndsLive' /\ TaskEndsLive' /\ GoneHoldNothing' /\ ToldIsOver'
      /\ SlotsExclusive' /\ ArgIsLiveOwner'
  BY <1>1 DEF ConnsOwn, QueueEndsLive, EndOfLive, TaskEndsLive, This, GoneHoldNothing,
              ToldIsOver, SlotsExclusive, Holds, Forgetting, ArgIsLiveOwner
<1> QED
  BY <1>2, <1>3, <1>4

\* A client's _pcb becomes NULL; no pcb has the client any more.
LEMMA PcbForgotten ==
  ASSUME NEW a \in Clients, obj \in [Clients -> Objects], obj' = [obj EXCEPT ![a].pcb = NULL]
  PROVE  /\ obj' \in [Clients -> Objects]
         /\ \A c \in Clients : /\ obj'[c].live = obj[c].live /\ obj'[c].slot = obj[c].slot
                               /\ obj'[c].conn = obj[c].conn
                               /\ obj'[c].pcb = IF c = a THEN NULL ELSE obj[c].pcb
  BY DEF Objects

\* And when it may be another's pcb that the client has.
LEMMA PcbLost ==
  ASSUME NEW a \in Clients, NEW p, obj \in [Clients -> Objects],
         obj' = [Hits(p) EXCEPT ![a].pcb = NULL]
  PROVE  /\ obj' \in [Clients -> Objects]
         /\ \A c \in Clients : /\ obj'[c].live = obj[c].live /\ obj'[c].slot = obj[c].slot
                               /\ obj'[c].conn = obj[c].conn /\ obj'[c].hit = Hits(p)[c].hit
                               /\ obj'[c].ready = obj[c].ready
                               /\ obj'[c].pcb = IF c = a THEN NULL ELSE obj[c].pcb
<1>1. PICK h \in [Clients -> Objects] : h = Hits(p)
  BY HitsIs
<1>2. obj' = [h EXCEPT ![a].pcb = NULL]
  BY <1>1
<1>3. /\ obj' \in [Clients -> Objects]
      /\ \A c \in Clients : /\ obj'[c].live = h[c].live /\ obj'[c].slot = h[c].slot
                            /\ obj'[c].conn = h[c].conn /\ obj'[c].hit = h[c].hit
                            /\ obj'[c].ready = h[c].ready
                            /\ obj'[c].pcb = IF c = a THEN NULL ELSE h[c].pcb
  BY <1>1, <1>2 DEF Objects
<1> QED
  BY <1>1, <1>3, HitsIs

\* It clears _pcb, which no pcb of the stack leads to any more.
LEMMA FinNullPcbKeeps ==
  ASSUME Inv, LwipFinNullPcb PROVE Inv'
<1> USE DEF Inv
<1> DEFINE a == lwip.ev.arg
<1>1. /\ lwip.at = "nullPcb" /\ lwip.ev \in AnEvent /\ lwip.ev.event = "FIN" /\ a \in Clients
      /\ lwip' \in LwipRecords /\ lwip'.at = "send" /\ lwip'.ev = lwip.ev
      /\ UNCHANGED <<pcb, slots, index, queue, task, told, conns, data>>
      /\ obj[a].live /\ obj[a].conn = lwip.ev.conn /\ obj[a].slot = NoSlot
  <2>1. lwip.at = "nullPcb" /\ lwip.ev \in AnEvent /\ lwip.ev.event = "FIN" /\ a \in Clients
    BY Fields DEF LwipFinNullPcb, Held, LwipFin
  <2> QED
    BY <2>1 DEF LwipFinNullPcb, Typed, LwipRecords, LwipPlaces, LwipEndsLive, EndOfLive, Ends
<1>2. obj' = [obj EXCEPT ![a].pcb = NULL] /\ lwip'.ev.arg = a
  BY <1>1 DEF LwipFinNullPcb
<1> HIDE DEF a
<1>3. Typed' /\ Held'
  BY <1>1, <1>2, PcbForgotten DEF Typed, Held, LwipFin
<1>4. LwipEndsLive'
  <2>1. \A c \in Clients : /\ obj'[c].live = obj[c].live /\ obj'[c].conn = obj[c].conn
                           /\ obj'[c].pcb = IF c = a THEN NULL ELSE obj[c].pcb
    BY <1>1, <1>2, PcbForgotten DEF Typed
  <2>2. obj'[a].live /\ obj'[a].conn = lwip'.ev.conn /\ obj'[a].pcb = NULL
    BY <1>1, <2>1
  <2> QED
    BY <1>1, <1>2, <2>2 DEF LwipEndsLive, EndOfLive
<1>5. OneEnd'
  BY <1>1 DEF OneEnd, LwipEnds, QueueEnds, TaskEnds
<1>6. ConnsOwn' /\ GoneHoldNothing' /\ ToldIsOver' /\ SlotsExclusive'
  BY <1>1, <1>2, PcbForgotten DEF Typed, ConnsOwn, GoneHoldNothing, ToldIsOver, SlotsExclusive,
                                     Holds, Forgetting
<1>7. QueueEndsLive' /\ TaskEndsLive'
  BY <1>1, <1>2, PcbForgotten, Fields DEF Typed, QueueEndsLive, EndOfLive, TaskEndsLive, Ending, This
<1>8. \A q \in Pcbs : pcb[q].arg # a
  BY <1>1, NullAssumption DEF OneEnd, LwipEnds, Ends, a
<1>9. ArgIsLiveOwner'
  BY <1>1, <1>2, <1>8, PcbForgotten, Fields DEF Typed, ArgIsLiveOwner
<1> QED
  BY <1>3, <1>4, <1>5, <1>6, <1>7, <1>9

\* The end moves from the tcpip thread to the queue.
LEMMA LwipSendKeeps ==
  ASSUME Inv, LwipSend PROVE Inv'
<1> USE DEF Inv
<1> DEFINE e == lwip.ev
<1>1. /\ lwip.at = "send" /\ e \in AnEvent
      /\ lwip' \in LwipRecords /\ lwip'.at = "idle" /\ queue' = Append(queue, e)
      /\ UNCHANGED <<obj, pcb, slots, index, task, told, conns, data>>
  BY TaskRecord DEF LwipSend, Held, LwipIdle, LwipRecords, LwipPlaces, shared
<1>2. Ends(e) => ~QueueEnds(e.arg) /\ ~TaskEnds(e.arg) /\ \A p \in Pcbs : pcb[p].arg # e.arg
  BY <1>1, Fields, NullAssumption DEF OneEnd, LwipEnds, AnEvent
<1>3. EndOfLive(e) /\ (e.event = "FIN" => obj[e.arg].pcb = NULL)
  BY <1>1 DEF LwipEndsLive
<1> HIDE DEF e
<1>4. /\ queue' \in Seq(AnEvent) /\ Elems(queue') = Elems(queue) \cup {e} /\ Once(queue')
  BY <1>1, <1>2, Appending DEF OneEnd, QueueEnds, Typed
<1>5. Typed' /\ Held' /\ LwipEndsLive'
  BY <1>1, <1>4 DEF Typed, Held, LwipEndsLive, LwipFin
<1>6. OneEnd'
  BY <1>1, <1>2, <1>4 DEF OneEnd, LwipEnds, QueueEnds, EndIn, TaskEnds
<1>7. QueueEndsLive'
  BY <1>1, <1>3, <1>4 DEF QueueEndsLive, EndOfLive
<1>8. ConnsOwn' /\ TaskEndsLive' /\ GoneHoldNothing' /\ ToldIsOver'
      /\ SlotsExclusive' /\ ArgIsLiveOwner'
  BY <1>1 DEF ConnsOwn, TaskEndsLive, This, GoneHoldNothing, ToldIsOver, SlotsExclusive,
              Holds, Forgetting, ArgIsLiveOwner
<1> QED
  BY <1>5, <1>6, <1>7, <1>8

\* The end moves from the queue to the task.
LEMMA HandleKeeps ==
  ASSUME Inv, Handle PROVE Inv'
<1> USE DEF Inv
<1> DEFINE e == Head(queue)
<1>1. /\ task.at = "get" /\ queue # <<>> /\ queue' = Tail(queue)
      /\ UNCHANGED <<obj, pcb, slots, index, lwip, told, conns, data>>
  BY DEF Handle, shared
<1>2. /\ queue' \in Seq(AnEvent) /\ e \in AnEvent /\ Elems(queue) = Elems(queue') \cup {e}
      /\ Once(queue') /\ (Ends(e) => ~EndIn(queue', e.arg))
  BY <1>1, Taking DEF OneEnd, Typed
<1>3. /\ task' \in TaskRecords /\ task'.ev = e /\ task'.at # "call"
      /\ task'.at # "get"
      /\ task'.at \in Ending <=> Ends(e)
      /\ task'.at = "fin" <=> e.event = "FIN"
      /\ task'.at = "error" <=> e.event = "ERROR"
      /\ task'.at \notin {"freeSlot", "forget", "load", "count", "delete"}
  <2> DEFINE at == CASE e.event = "ACCEPT" -> "accept"
                     [] e.event = "RECV" -> "app"
                     [] e.event = "FIN" -> "fin"
                     [] e.event = "ERROR" -> "error"
                     [] e.event = "CLEAR" -> "purge"
             more == e.event = "RECV"
  <2>1. task' = [TaskIdle EXCEPT !.ev = e, !.more = more, !.at = at]
    BY DEF Handle
  <2>2. /\ at \in {"accept", "app", "fin", "error", "purge"}
        /\ at = "fin" <=> e.event = "FIN"
        /\ at = "error" <=> e.event = "ERROR"
    BY <1>2 DEF AnEvent, Events
  <2>5. more \in BOOLEAN
    OBVIOUS
  <2> HIDE DEF e, at, more
  <2>3. e \in AnyEvent
    BY <1>2 DEF AnyEvent, AnEvent
  <2>4. task' \in TaskRecords /\ task'.ev = e /\ task'.at = at
    BY <2>1, <2>2, <2>3, <2>5, TaskRecord DEF TaskRecords, Places
  <2> QED
    BY <2>2, <2>4 DEF Ending, Ends
<1> HIDE DEF e
<1>4. Typed' /\ Held' /\ LwipEndsLive'
  BY <1>1, <1>2, <1>3 DEF Typed, Held, LwipEndsLive, EndOfLive
<1>5. e \in Elems(queue) /\ (\A x \in Elems(queue') : x \in Elems(queue))
  BY <1>2
<1>6. OneEnd'
  BY <1>1, <1>2, <1>3, <1>5 DEF OneEnd, LwipEnds, QueueEnds, EndIn, TaskEnds
<1>7. QueueEndsLive'
  BY <1>1, <1>5 DEF QueueEndsLive, EndOfLive
<1>8. TaskEndsLive'
  BY <1>1, <1>3, <1>5 DEF TaskEndsLive, QueueEndsLive, EndOfLive, This, Ends
<1>9. ToldIsOver'
  BY <1>1 DEF ToldIsOver
<1>10. ConnsOwn' /\ GoneHoldNothing' /\ SlotsExclusive' /\ ArgIsLiveOwner'
  BY <1>1, <1>3 DEF ConnsOwn, GoneHoldNothing, SlotsExclusive, Holds, Forgetting, ArgIsLiveOwner
<1> QED
  BY <1>4, <1>6, <1>7, <1>8, <1>9, <1>10

\* A purge drops events or moves them back in the queue, and makes no end.
LEMMA PurgeTakeKeeps ==
  ASSUME Inv, PurgeTake PROVE Inv'
<1> USE DEF Inv
<1> DEFINE e == Head(queue)
<1>1. /\ task.at = "purge" /\ queue # <<>>
      /\ UNCHANGED <<obj, pcb, slots, index, lwip, told, conns, data>>
  BY DEF PurgeTake, PurgeEnds, shared
<1>2. /\ Tail(queue) \in Seq(AnEvent) /\ e \in AnEvent
      /\ Elems(queue) = Elems(Tail(queue)) \cup {e}
      /\ Once(Tail(queue)) /\ (Ends(e) => ~EndIn(Tail(queue), e.arg))
  BY <1>1, Taking DEF OneEnd, Typed
<1>3. /\ task' \in TaskRecords /\ task'.at = "purge" /\ task'.ev = task.ev
  <2>1. task' = task \/ task' = [task EXCEPT !.first = IF @ = NoEvent THEN e ELSE @]
    BY DEF PurgeTake
  <2> HIDE DEF e
  <2>2. e \in AnyEvent /\ task \in TaskRecords
    BY <1>2 DEF AnyEvent, AnEvent, Typed
  <2> QED
    BY <1>1, <2>1, <2>2 DEF TaskRecords
<1>4. queue' = Tail(queue) \/ queue' = Append(Tail(queue), e)
  BY DEF PurgeTake
<1> HIDE DEF e
<1>5. /\ queue' \in Seq(AnEvent) /\ Once(queue') /\ Elems(queue') \subseteq Elems(queue)
  BY <1>2, <1>4, Appending
<1>6. Typed' /\ Held' /\ LwipEndsLive'
  BY <1>1, <1>3, <1>5 DEF Typed, Held, LwipEndsLive, EndOfLive
<1>7. OneEnd'
  BY <1>1, <1>3, <1>5 DEF OneEnd, LwipEnds, QueueEnds, EndIn, TaskEnds, Ending
<1>8. QueueEndsLive'
  BY <1>1, <1>5 DEF QueueEndsLive, EndOfLive
<1>9. ConnsOwn' /\ TaskEndsLive' /\ ToldIsOver' /\ GoneHoldNothing'
      /\ SlotsExclusive' /\ ArgIsLiveOwner'
  BY <1>1, <1>3 DEF ConnsOwn, TaskEndsLive, Ending, ToldIsOver, GoneHoldNothing,
                    SlotsExclusive, Holds, Forgetting, ArgIsLiveOwner
<1> QED
  BY <1>6, <1>7, <1>8, <1>9

\* The disconnect callback: the client is being deleted, or is forgotten.
LEMMA DiscardedIs ==
  ASSUME Inv, task.at \in {"fin", "error"}, Discarded
  PROVE  /\ task' \in TaskRecords /\ told' \subseteq 1..MaxConns
         /\ \/ /\ task'.at = "freeSlot" /\ task'.ev = task.ev
               /\ told' = told \cup {This.conn}
            \/ task'.at = "get" /\ told' = told
         /\ \A n \in told' : n <= conns
<1> USE DEF Inv
<1>1. This.conn \in 1..MaxConns /\ This.conn <= conns
  BY Fields DEF TaskEndsLive, This, Ending, ConnsOwn
<1>2. CASE This.ready
  <2>1. told' = told \cup {This.conn} /\ Goto("freeSlot")
    BY <1>2 DEF Discarded
  <2>2. task' \in TaskRecords /\ task'.at = "freeSlot" /\ task'.ev = task.ev
    BY <2>1, GotoIs DEF Typed, Places
  <2> QED
    BY <1>1, <2>1, <2>2 DEF Typed, ConnsOwn
<1>3. CASE ~This.ready
  <2>1. told' = told /\ Goto("get")
    BY <1>3 DEF Discarded
  <2>2. task' \in TaskRecords /\ task'.at = "get"
    BY <2>1, GotoIs DEF Typed, Places
  <2> QED
    BY <2>1, <2>2 DEF Typed, ConnsOwn
<1> QED
  BY <1>2, <1>3

\* _fin tells a client that has not been told.
LEMMA FinKeeps ==
  ASSUME Inv, Fin PROVE Inv'
<1> USE DEF Inv
<1> DEFINE a == task.ev.arg
           e == Event("CLEAR", a, task.ev.conn)
<1>1. /\ task.at = "fin" /\ task.ev \in AnEvent /\ task.ev.event = "FIN" /\ a \in Clients
      /\ queue' = <<e>> \o queue /\ Discarded
      /\ UNCHANGED <<obj, pcb, slots, index, lwip, conns, data>>
  BY Fields DEF Fin, Prepend, Held, shared
<1>2. e \in AnEvent /\ e.event = "CLEAR"
  BY <1>1, BoundsAssumption DEF Event, AnEvent, Events
<1>3. obj[a].live /\ obj[a].conn = task.ev.conn /\ obj[a].pcb = NULL
  BY <1>1 DEF TaskEndsLive, This, Ending
<1>4. task.at \in Ending /\ task'.at # "fin" /\ task'.at # "error" /\ task'.at # "call"
      /\ (task'.at # "get" => task'.at = "freeSlot" /\ task'.ev = task.ev)
  BY <1>1, DiscardedIs DEF Ending
<1>5. ToldIsOver'
  <2> SUFFICES ASSUME NEW c \in Clients, obj[c].live, obj[c].conn \in told'
               PROVE  task'.at = "freeSlot" /\ task'.ev.arg = c
    BY <1>1 DEF ToldIsOver
  <2>1. obj[c].conn \notin told
    BY <1>1 DEF ToldIsOver
  <2>2. obj[c].conn = obj[a].conn
    BY <1>1, <2>1, DiscardedIs DEF This
  <2> QED
    BY <1>1, <1>3, <2>1, <2>2, DiscardedIs DEF ConnsOwn
<1> HIDE DEF a, e
<1>6. /\ queue' \in Seq(AnEvent) /\ Once(queue') /\ Elems(queue') = Elems(queue) \cup {e}
  BY <1>1, <1>2, Prepending DEF Ends, OneEnd, Typed
<1>7. Typed' /\ Held' /\ LwipEndsLive'
  BY <1>1, <1>4, <1>6, DiscardedIs DEF Typed, Held, LwipEndsLive, EndOfLive
<1>8. OneEnd'
  BY <1>1, <1>2, <1>4, <1>6 DEF OneEnd, LwipEnds, QueueEnds, EndIn, TaskEnds, Ends, Ending
<1>9. QueueEndsLive'
  BY <1>1, <1>2, <1>6 DEF QueueEndsLive, EndOfLive, Ends
<1>10. TaskEndsLive'
  BY <1>1, <1>3, <1>4 DEF TaskEndsLive, This, Ending, Ends, a
<1>11. ConnsOwn'
  BY <1>1, DiscardedIs DEF ConnsOwn
<1>12. GoneHoldNothing' /\ SlotsExclusive' /\ ArgIsLiveOwner'
  BY <1>1, <1>4 DEF GoneHoldNothing, SlotsExclusive, Holds, Forgetting, ArgIsLiveOwner
<1> QED
  BY <1>5, <1>7, <1>8, <1>9, <1>10, <1>11, <1>12

\* _error does, and may detach a pcb that has been given to another client.
LEMMA ErrorKeeps ==
  ASSUME Inv, Error PROVE Inv'
<1> USE DEF Inv
<1> DEFINE a == task.ev.arg
           p == obj[a].pcb
<1>1. /\ task.at = "error" /\ task.ev \in AnEvent /\ task.ev.event = "ERROR" /\ a \in Clients
      /\ obj' = [Hits(p) EXCEPT ![a].pcb = NULL] /\ Discarded
      /\ UNCHANGED <<slots, index, queue, lwip, conns, data>>
  BY Fields DEF Error, ClearPcb, Held, This
<1>2. obj[a].live /\ obj[a].conn = task.ev.conn
  BY <1>1 DEF TaskEndsLive, This, Ending
<1>3. task.at \in Ending /\ task'.at # "fin" /\ task'.at # "error" /\ task'.at # "call"
      /\ (task'.at # "get" => task'.at = "freeSlot" /\ task'.ev = task.ev)
  BY <1>1, DiscardedIs DEF Ending
<1>4. /\ pcb' \in [Pcbs -> PcbRecords]
      /\ \A q \in Pcbs : /\ pcb'[q].state = pcb[q].state /\ pcb'[q].conn = pcb[q].conn
                         /\ pcb'[q].arg = IF q = p THEN NULL ELSE pcb[q].arg
  <2>1. pcb' = IF p = NULL THEN pcb ELSE [pcb EXCEPT ![p].arg = NULL]
    BY DEF Error, This
  <2>2. p \in Pcbs \cup {NULL}
    BY <1>1, Fields
  <2> HIDE DEF p
  <2> QED
    BY <2>1, <2>2, NullAssumption DEF Typed, PcbRecords
<1> HIDE DEF p
<1>5. \A q \in Pcbs : pcb[q].arg # a
  BY <1>1, <1>3, NullAssumption DEF OneEnd, TaskEnds
<1>6. ToldIsOver'
  <2>0. \A c \in Clients : obj'[c].live = obj[c].live /\ obj'[c].conn = obj[c].conn
    BY <1>1, PcbLost DEF Typed
  <2> SUFFICES ASSUME NEW c \in Clients, obj[c].live, obj[c].conn \in told'
               PROVE  task'.at = "freeSlot" /\ task'.ev.arg = c
    BY <2>0 DEF ToldIsOver
  <2>1. obj[c].conn \notin told
    BY <1>1 DEF ToldIsOver
  <2>2. obj[c].conn = obj[a].conn
    BY <1>1, <2>1, DiscardedIs DEF This
  <2> QED
    BY <1>1, <1>2, <2>1, <2>2, DiscardedIs DEF ConnsOwn
<1> HIDE DEF a
<1>o. \A c \in Clients : /\ obj'[c].live = obj[c].live /\ obj'[c].slot = obj[c].slot
                         /\ obj'[c].conn = obj[c].conn
                         /\ obj'[c].pcb = IF c = a THEN NULL ELSE obj[c].pcb
  BY <1>1, PcbLost DEF Typed
<1>7. Typed' /\ Held'
  BY <1>1, <1>3, <1>4, DiscardedIs, PcbLost DEF Typed, Held
<1>8. LwipEndsLive'
  <2>1. lwip.at = "fin" => lwip.ev.arg # a
    BY <1>1, <1>3 DEF OneEnd, LwipEnds, TaskEnds, Held, LwipFin, Ends, a
  <2> QED
    BY <1>1, <1>o, <2>1, Fields DEF LwipEndsLive, EndOfLive
<1>9. OneEnd'
  <2>1. \A q \in Pcbs : pcb'[q].arg \in {NULL, pcb[q].arg}
    BY <1>4
  <2>2. \A c : TaskEnds(c)' => TaskEnds(c)
    BY <1>3 DEF TaskEnds, Ending
  <2> QED
    BY <1>1, <2>1, <2>2 DEF OneEnd, LwipEnds, QueueEnds
<1>10. QueueEndsLive'
  BY <1>1, <1>o, Fields DEF QueueEndsLive, EndOfLive
<1>11. TaskEndsLive'
  BY <1>1, <1>2, <1>3, <1>o DEF TaskEndsLive, This, Ending, Ends, a
<1>12. ConnsOwn'
  BY <1>1, <1>o, DiscardedIs DEF ConnsOwn
<1>13. GoneHoldNothing' /\ SlotsExclusive'
  BY <1>1, <1>3, <1>o, <1>4 DEF GoneHoldNothing, SlotsExclusive, Holds, Forgetting
<1>14. ArgIsLiveOwner'
  BY <1>4, <1>5, <1>o, Fields DEF ArgIsLiveOwner
<1> QED
  BY <1>6, <1>7, <1>8, <1>9, <1>10, <1>11, <1>12, <1>13, <1>14

\* The destructor gives the slot back, if _lwip_fin has not.
LEMMA DeleteFreeSlotKeeps ==
  ASSUME Inv, DeleteFreeSlot PROVE Inv'
<1> USE DEF Inv
<1> DEFINE a == task.ev.arg
<1>1. /\ task.at = "freeSlot" /\ task.ev \in AnEvent /\ a \in Clients /\ GiveSlotBack(a)
      /\ UNCHANGED <<obj, pcb, index, queue, lwip, told, conns, data>>
  BY Fields DEF DeleteFreeSlot, Held
<1>2. /\ task' \in TaskRecords /\ task'.ev = task.ev
      /\ task'.at = IF obj[a].slot = NoSlot THEN "delete" ELSE "forget"
  <2> DEFINE at == IF This.slot = NoSlot THEN "delete" ELSE "forget"
  <2>1. Goto(at) /\ at = IF obj[a].slot = NoSlot THEN "delete" ELSE "forget"
    BY DEF DeleteFreeSlot, This
  <2>2. at \in Places /\ at # "get"
    BY DEF Places
  <2> HIDE DEF at
  <2> QED
    BY <2>1, <2>2, GotoIs DEF Typed
<1>3. /\ task'.at \in {"delete", "forget"} /\ (task'.at = "delete" => obj[a].slot = NoSlot)
      /\ obj[a].live /\ obj[a].conn = task.ev.conn /\ obj[a].pcb = NULL /\ Ends(task.ev)
  BY <1>1, <1>2 DEF TaskEndsLive, This, Ending
<1>4. ~LwipEnds(a) /\ (lwip.at \in LwipFin => lwip.ev.arg # a)
  BY <1>1 DEF OneEnd, TaskEnds, Ending, LwipEnds, Held, LwipFin, Ends
<1>5. slots' \in [Slots -> Nat] /\ SlotsExclusive'
  <2>1. PICK b \in Clients : a = b
    BY <1>1
  <2>2. /\ ~Forgetting(b) /\ (obj[b].slot # NoSlot => Forgetting(b)')
        /\ \A c \in Clients : c # b => (Forgetting(c)' <=> Forgetting(c))
    BY <1>1, <2>1, <1>2, <1>4 DEF Forgetting, LwipFin
  <2>3. GiveSlotBack(b)
    BY <1>1, <2>1
  <2> QED
    BY <1>1, <2>2, <2>3, SlotGiven DEF Typed
<1>6. Typed' /\ Held'
  BY <1>1, <1>2, <1>3, <1>5 DEF Typed, Held
<1>7. LwipEndsLive' /\ QueueEndsLive'
  BY <1>1 DEF LwipEndsLive, QueueEndsLive, EndOfLive
<1>8. OneEnd'
  BY <1>1, <1>2, <1>3 DEF OneEnd, LwipEnds, QueueEnds, TaskEnds, Ending
<1>9. TaskEndsLive' /\ ToldIsOver'
  BY <1>1, <1>2, <1>3 DEF TaskEndsLive, This, Ending, ToldIsOver
<1>10. ConnsOwn' /\ GoneHoldNothing' /\ ArgIsLiveOwner'
  BY <1>1 DEF ConnsOwn, GoneHoldNothing, ArgIsLiveOwner
<1> QED
  BY <1>5, <1>6, <1>7, <1>8, <1>9, <1>10

\* The client that is being deleted forgets it.
LEMMA DeleteForgetKeeps ==
  ASSUME Inv, DeleteForget PROVE Inv'
<1> USE DEF Inv
<1> DEFINE a == task.ev.arg
<1>1. /\ task.at = "forget" /\ task.ev \in AnEvent /\ a \in Clients /\ ForgetSlot(a)
      /\ UNCHANGED <<pcb, slots, index, queue, lwip, told, conns, data>>
  BY Fields DEF DeleteForget, Held
<1>2. /\ task' \in TaskRecords /\ task'.at = "load" /\ task'.ev = task.ev
  BY GotoIs DEF DeleteForget, Typed, Places
<1>3. obj[a].live /\ obj[a].conn = task.ev.conn /\ obj[a].pcb = NULL /\ Ends(task.ev)
  BY <1>1 DEF TaskEndsLive, This, Ending
<1>4. /\ obj' \in [Clients -> Objects] /\ SlotsExclusive'
      /\ \A c \in Clients : /\ obj'[c].live = obj[c].live /\ obj'[c].pcb = obj[c].pcb
                            /\ obj'[c].conn = obj[c].conn
                            /\ obj'[c].slot = IF c = a THEN NoSlot ELSE obj[c].slot
  <2>1. /\ Forgetting(a) /\ \A c \in Clients : c # a => (Forgetting(c)' <=> Forgetting(c))
    BY <1>1, <1>2 DEF Forgetting
  <2> HIDE DEF a
  <2> QED
    BY <1>1, <2>1, SlotForgotten DEF Typed
<1> HIDE DEF a
<1>5. Typed' /\ Held'
  BY <1>1, <1>2, <1>4 DEF Typed, Held
<1>6. LwipEndsLive' /\ QueueEndsLive'
  BY <1>1, <1>4, Fields DEF LwipEndsLive, QueueEndsLive, EndOfLive
<1>7. OneEnd'
  BY <1>1, <1>2 DEF OneEnd, LwipEnds, QueueEnds, TaskEnds, Ending
<1>8. TaskEndsLive'
  BY <1>1, <1>2, <1>3, <1>4 DEF TaskEndsLive, This, Ending, a
<1>9. ConnsOwn' /\ GoneHoldNothing' /\ ToldIsOver'
  BY <1>1, <1>2, <1>4 DEF ConnsOwn, GoneHoldNothing, ToldIsOver
<1>10. ArgIsLiveOwner'
  BY <1>1, <1>4, Fields DEF ArgIsLiveOwner
<1> QED
  BY <1>4, <1>5, <1>6, <1>7, <1>8, <1>9, <1>10

\* The task reads _closed_index.
LEMMA DeleteLoadKeeps ==
  ASSUME Inv, DeleteLoad PROVE Inv'
<1> USE DEF Inv
<1>1. /\ task.at = "load" /\ task.ev \in AnEvent
      /\ task' \in TaskRecords /\ task'.at = "count" /\ task'.ev = task.ev
      /\ UNCHANGED <<obj, pcb, slots, index, queue, lwip, told, conns, data>>
  <2>1. task \in TaskRecords /\ index \in Nat
    BY DEF Typed
  <2>2. /\ task.at = "load" /\ task' = [task EXCEPT !.at = "count", !.tmp = index]
        /\ UNCHANGED <<obj, pcb, slots, index, queue, lwip, told, conns, data>>
    BY DEF DeleteLoad, shared
  <2>3. task' \in TaskRecords /\ task'.at = "count" /\ task'.ev = task.ev
    BY <2>1, <2>2 DEF TaskRecords, Places
  <2> QED
    BY <2>2, <2>3 DEF Held
<1>2. Typed' /\ Held'
  BY <1>1 DEF Typed, Held
<1>3. OneEnd'
  BY <1>1 DEF OneEnd, LwipEnds, QueueEnds, TaskEnds, Ending
<1>4. TaskEndsLive' /\ ToldIsOver'
  BY <1>1 DEF TaskEndsLive, This, Ending, ToldIsOver
<1>5. ConnsOwn' /\ LwipEndsLive' /\ QueueEndsLive' /\ GoneHoldNothing'
      /\ SlotsExclusive' /\ ArgIsLiveOwner'
  BY <1>1 DEF ConnsOwn, LwipEndsLive, QueueEndsLive, EndOfLive, GoneHoldNothing,
              SlotsExclusive, Holds, Forgetting, ArgIsLiveOwner
<1> QED
  BY <1>2, <1>3, <1>4, <1>5

\* It counts the slot as closed.
LEMMA DeleteCountKeeps ==
  ASSUME Inv, DeleteCount PROVE Inv'
<1> USE DEF Inv
<1>1. /\ task.at = "count" /\ index' \in Nat \ {0}
      /\ task' \in TaskRecords /\ task'.at = "delete" /\ task'.ev = task.ev /\ task.ev \in AnEvent
      /\ UNCHANGED <<obj, pcb, slots, queue, lwip, told, conns, data>>
  <2>1. task \in TaskRecords /\ task.tmp \in Nat
    BY DEF Typed, TaskRecords
  <2>2. /\ task.at = "count" /\ index' = task.tmp + 1 /\ Goto("delete")
        /\ UNCHANGED <<obj, pcb, slots, queue, lwip, told, conns, data>>
    BY DEF DeleteCount
  <2>3. task' \in TaskRecords /\ task'.at = "delete" /\ task'.ev = task.ev
    BY <2>1, <2>2, GotoIs DEF Places
  <2> QED
    BY <2>1, <2>2, <2>3 DEF Held
<1>2. Typed' /\ Held'
  BY <1>1 DEF Typed, Held
<1>3. OneEnd'
  BY <1>1 DEF OneEnd, LwipEnds, QueueEnds, TaskEnds, Ending
<1>4. TaskEndsLive' /\ ToldIsOver'
  BY <1>1 DEF TaskEndsLive, This, Ending, ToldIsOver
<1>5. ConnsOwn' /\ LwipEndsLive' /\ QueueEndsLive' /\ GoneHoldNothing'
      /\ SlotsExclusive' /\ ArgIsLiveOwner'
  BY <1>1 DEF ConnsOwn, LwipEndsLive, QueueEndsLive, EndOfLive, GoneHoldNothing,
              SlotsExclusive, Holds, Forgetting, ArgIsLiveOwner
<1> QED
  BY <1>2, <1>3, <1>4, <1>5

\* The address of the deleted client is in no end and no pcb.
LEMMA DeleteKeeps ==
  ASSUME Inv, Delete PROVE Inv'
<1> USE DEF Inv
<1> DEFINE a == task.ev.arg
<1>0. task.at = "delete" /\ task.ev.event # "RECV"
  BY DEF Delete, TaskEndsLive, Ending, Ends
<1>1. /\ task.at = "delete" /\ a \in Clients /\ task' = TaskIdle
      /\ UNCHANGED <<pcb, slots, index, queue, lwip, told, conns, data>>
      /\ obj[a].live /\ obj[a].pcb = NULL /\ obj[a].slot = NoSlot
  BY <1>0, Fields DEF Delete, Goto, TaskEndsLive, This, Ending
<1>2. task' \in TaskRecords /\ task'.at = "get"
  BY <1>1, TaskRecord DEF TaskIdle
<1>3. obj' = [obj EXCEPT ![a].live = FALSE, ![a].hit = FALSE]
  BY DEF Delete
<1>4. /\ obj' \in [Clients -> Objects]
      /\ ~obj'[a].live /\ obj'[a].slot = NoSlot /\ obj'[a].conn = obj[a].conn
      /\ \A c \in Clients : c # a => obj'[c] = obj[c]
  <2> DEFINE o == [obj EXCEPT ![a].live = FALSE]
             r == [o[a] EXCEPT !.hit = FALSE]
  <2>1. /\ o \in [Clients -> Objects] /\ ~o[a].live /\ o[a].slot = NoSlot
        /\ o[a].conn = obj[a].conn /\ \A c \in Clients : c # a => o[c] = obj[c]
    BY <1>1, ZenonT(30) DEF Typed, Objects
  <2>2. obj' = [o EXCEPT ![a] = r]
    BY <1>3
  <2> HIDE DEF o
  <2>3. /\ r \in Objects /\ r.live = o[a].live /\ r.slot = o[a].slot /\ r.conn = o[a].conn
    BY <1>1, <2>1 DEF Objects
  <2> HIDE DEF r
  <2> QED
    BY <1>1, <2>1, <2>2, <2>3
<1>5. \A p \in Pcbs : pcb[p].arg # a
  BY <1>1, NullAssumption DEF OneEnd, TaskEnds, Ending
<1>6. ~QueueEnds(a) /\ ~LwipEnds(a)
  BY <1>1 DEF OneEnd, TaskEnds, Ending
<1> HIDE DEF a
<1>7. Typed' /\ Held'
  BY <1>1, <1>2, <1>4 DEF Typed, Held
<1>8. ConnsOwn'
  BY <1>1, <1>4 DEF ConnsOwn
<1>9. OneEnd'
  BY <1>1, <1>2 DEF OneEnd, LwipEnds, QueueEnds, TaskEnds, Ending
<1>10. LwipEndsLive'
  <2>1. Ends(lwip.ev) /\ lwip.at # "idle" => lwip.ev.arg # a
    BY <1>6 DEF LwipEnds
  <2> QED
    BY <1>1, <1>4, <2>1, Fields DEF LwipEndsLive, EndOfLive, Held, LwipFin, Ends
<1>11. QueueEndsLive'
  <2>1. \A e \in Elems(queue) : Ends(e) => e.arg # a
    BY <1>6 DEF QueueEnds, EndIn
  <2> QED
    BY <1>1, <1>4, <2>1, Fields DEF QueueEndsLive, EndOfLive, Ends
<1>12. TaskEndsLive'
  BY <1>2 DEF TaskEndsLive, Ending
<1>13. GoneHoldNothing' /\ SlotsExclusive'
  BY <1>1, <1>2, <1>4 DEF GoneHoldNothing, SlotsExclusive, Holds, Forgetting
<1>14. ToldIsOver'
  BY <1>1, <1>4 DEF ToldIsOver, a
<1>15. ArgIsLiveOwner'
  BY <1>1, <1>4, <1>5, Fields DEF ArgIsLiveOwner
<1> QED
  BY <1>7, <1>8, <1>9, <1>10, <1>11, <1>12, <1>13, <1>14, <1>15
-----------------------------------------------------------------------------
\* The invariant holds when nothing is connected.
LEMMA InitInv == Init => Inv
<1> SUFFICES ASSUME Init PROVE Inv
  OBVIOUS
<1>1. /\ \A c \in Clients : ~obj[c].live /\ obj[c].slot = NoSlot /\ obj[c].conn = 0
      /\ \A p \in Pcbs : pcb[p] = FreePcb
      /\ \A s \in Slots : slots[s] = 1
      /\ queue = <<>> /\ lwip = LwipIdle /\ task = TaskIdle /\ told = {} /\ conns = 0
  BY DEF Init
<1>2. lwip.at = "idle" /\ task.at = "get"
  BY <1>1 DEF LwipIdle, TaskIdle
<1>3. obj \in [Clients -> Objects] /\ pcb \in [Pcbs -> PcbRecords]
  BY BoundsAssumption, TaskRecord DEF Init, Objects, PcbRecords, FreePcb
<1>4. LwipIdle \in LwipRecords
  BY TaskRecord DEF LwipIdle, LwipRecords, LwipPlaces
<1>5. Typed
  <2>1. slots \in [Slots -> Nat] /\ index \in Nat \ {0}
        /\ conns \in 0..MaxConns /\ data \in 0..MaxData
    BY BoundsAssumption DEF Init
  <2>2. queue \in Seq(AnEvent) /\ lwip \in LwipRecords
        /\ task \in TaskRecords /\ told \subseteq 1..MaxConns
    BY <1>1, <1>4, TaskRecord
  <2> QED
    BY <1>3, <2>1, <2>2 DEF Typed
<1>6. Elems(queue) = {} /\ Once(queue)
  BY <1>1 DEF Elems, Once
<1>7. Held /\ ConnsOwn /\ LwipEndsLive /\ QueueEndsLive /\ TaskEndsLive /\ ToldIsOver
  BY <1>1, <1>2, <1>6 DEF Held, LwipFin, ConnsOwn, LwipEndsLive, QueueEndsLive, TaskEndsLive,
                          Ending, ToldIsOver
<1>8. GoneHoldNothing /\ ArgIsLiveOwner
  BY <1>1 DEF GoneHoldNothing, ArgIsLiveOwner, FreePcb
<1>9. OneEnd
  BY <1>1, <1>2, <1>6 DEF OneEnd, FreePcb, LwipEnds, QueueEnds, EndIn, TaskEnds, Ending
<1>10. SlotsExclusive
  BY <1>1, NumSlotsAssumption DEF SlotsExclusive, Holds, Slots, NoSlot
<1> QED
  BY <1>5, <1>7, <1>8, <1>9, <1>10 DEF Inv

\* Every step of either thread keeps the invariant.
LEMMA NextInv ==
  ASSUME ~Closes, Inv, [Next]_vars PROVE Inv'
<1>1. CASE UNCHANGED vars
  BY <1>1 DEF vars, shared, Inv, Typed, Held, ConnsOwn, OneEnd, LwipEnds, QueueEnds, TaskEnds,
              LwipEndsLive, QueueEndsLive, EndOfLive, TaskEndsLive, This, GoneHoldNothing,
              ToldIsOver, SlotsExclusive, Holds, Forgetting, ArgIsLiveOwner
<1>2. ASSUME NEW p \in Pcbs, NEW c \in Clients, Accept(c, p) PROVE Inv'
  BY <1>2, AcceptKeeps
<1>3. ASSUME NEW p \in Pcbs, Callback(p) \/ Reset(p) \/ RemoteFin(p) \/ PcbGone(p) PROVE Inv'
  BY <1>3, CallbackKeeps, ResetKeeps, RemoteFinKeeps, PcbGoneKeeps
<1>4. CASE LwipStep
  BY <1>4, FinCloseKeeps, FinFreeSlotKeeps, FinForgetKeeps, FinLoadKeeps, FinCountKeeps,
          FinNullPcbKeeps, LwipSendKeeps
     DEF LwipStep
<1>5. CASE TaskStep
  <2>1. CASE \/ PurgeReturn \/ AppReturn \/ AppWrite \/ ReadPcb \/ ReadSlot \/ Accepted
             \/ CallNull \/ CallRefused \/ (\E ok \in BOOLEAN : CallServed(ok))
    BY <2>1, QuietSteps
  <2>2. CASE Handle \/ PurgeTake
    BY <2>2, HandleKeeps, PurgeTakeKeeps
  <2>3. CASE \/ Fin \/ Error \/ DeleteFreeSlot \/ DeleteForget \/ DeleteLoad
             \/ DeleteCount \/ Delete
    BY <2>3, FinKeeps, ErrorKeeps, DeleteFreeSlotKeeps, DeleteForgetKeeps, DeleteLoadKeeps,
       DeleteCountKeeps, DeleteKeeps
  <2>4. ~(AppClose \/ AppAbort \/ Close \/ CloseDetach \/ CloseAbort \/ CloseDiscard)
    <3>1. task.at \in Places
      BY Fields DEF Inv
    <3> QED
      BY <3>1 DEF AppClose, AppAbort, Close, CloseDetach, CloseAbort, CloseDiscard, Places
  <2> QED
    BY <1>5, <2>1, <2>2, <2>3, <2>4 DEF TaskStep
<1> QED
  BY <1>1, <1>2, <1>3, <1>4, <1>5 DEF Next

\* The invariant holds of every behaviour in which the application closes no connection.
THEOREM SpecInv == ASSUME ~Closes PROVE Spec => []Inv
<1>1. Inv /\ [Next]_vars => Inv'
  BY NextInv
<1> QED
  BY InitInv, <1>1, PTL DEF Spec

-----------------------------------------------------------------------------
(***************************************************************************)
(* The application closes and aborts connections too, while the address of *)
(* a deleted client is not handed out again.  Then a client has one        *)
(* connection only, and once LwIP has no pcb for it, it never has one      *)
(* again: what the threads do to a client they may delete, they do to one  *)
(* that is over.                                                           *)
(***************************************************************************)
Ops == {"none", "recved", "write", "recvedAndClose", "close", "closeAbort", "abort"}
TaskStates == [at : TaskPlaces, ev : AnyEvent, op : Ops, more : BOOLEAN, read : SUBSET {"pcb", "slot"},
               pcb : Pcbs \cup {NULL}, slot : 0..NumSlots, tmp : Nat, first : AnyEvent]
AllTyped ==
  /\ obj \in [Clients -> Objects] /\ pcb \in [Pcbs -> PcbRecords]
  /\ slots \in [Slots -> Nat] /\ index \in Nat \ {0}
  /\ queue \in Seq(AnEvent) /\ lwip \in LwipRecords /\ task \in TaskStates
  /\ told \subseteq 1..MaxConns /\ conns \in 0..MaxConns /\ data \in 0..MaxData

\* Each client has its own connection; one that has none yet holds nothing.
ConnsOnce ==
  /\ \A c \in Clients : /\ obj[c].conn <= conns
                        /\ obj[c].conn = 0 => ~obj[c].live /\ obj[c].slot = NoSlot
  /\ \A c, d \in Clients : obj[c].conn = obj[d].conn /\ obj[c].conn # 0 => c = d
  /\ \A n \in told : n <= conns

\* An event is its client's, an end that of a client that is over, and a FIN leaves
\* it no pcb.
Over(c) == obj[c].conn # 0 /\ \A p \in Pcbs : pcb[p].arg # c
Made(e) == obj[e.arg].conn = e.conn
OwnEvent(e) == /\ Made(e)
               /\ Ends(e) => Over(e.arg)
               /\ e.event = "FIN" => obj[e.arg].pcb = NULL
QueueOwn == \A e \in Elems(queue) : OwnEvent(e)
LwipOwn ==
  /\ lwip.at # "idle" => Made(lwip.ev)
  /\ lwip.at \in LwipFin \ {"fin"} => Over(lwip.ev.arg)
  /\ lwip.at = "send" => OwnEvent(lwip.ev)

\* What the task has read of a client is so still, unless the client is over.
Leaving == {"freeSlot", "forget", "load", "count", "delete"}
Parting == {"fin", "error", "abort", "unlink"} \cup Leaving
ReadsStay ==
  task.at = "call" /\ ~Over(task.ev.arg) => /\ "pcb" \in task.read => task.pcb = This.pcb
                                            /\ "slot" \in task.read => task.slot = This.slot
TaskOwn ==
  /\ task.at # "get" => Made(task.ev)
  /\ task.at \in Parting => Over(task.ev.arg)
  /\ task.at = "call" /\ task.op \in {"close", "closeAbort"} => Over(task.ev.arg)
  /\ task.at \in {"fin", "deleted"} \cup Leaving => This.pcb = NULL
  /\ ReadsStay

\* The task is about to end the client c, or to find it without a pcb.
Harms(c) == /\ task.ev.arg = c
            /\ task.at \in Parting \/ (task.at = "call" /\ "pcb" \in task.read /\ task.pcb = NULL)
\* Nobody is while _lwip_fin works on it.
LwipAlone ==
  lwip.at \in LwipFin => LET a == lwip.ev.arg IN
    /\ obj[a].live /\ obj[a].pcb # NULL /\ (lwip.at = "fin" => obj[a].pcb = lwip.pcb)
    /\ ~QueueEnds(a) /\ ~Harms(a)
FreeHoldsNone == \A p \in Pcbs : pcb[p].state = "free" => pcb[p].arg = NULL

OnceInv == /\ AllTyped /\ Held /\ ConnsOnce /\ QueueOwn /\ LwipOwn /\ TaskOwn /\ LwipAlone
           /\ FreeHoldsNone /\ ToldIsOver /\ SlotsExclusive /\ ArgIsLiveOwner

\* A step that gives no client a pcb, and takes from one what it has only if it is over.
Recedes ==
  /\ \A c \in Clients :
       /\ obj'[c].conn = obj[c].conn
       /\ obj'[c].live = obj[c].live \/ (Over(c)' /\ obj'[c].live = FALSE)
       /\ obj'[c].pcb = obj[c].pcb \/ (Over(c)' /\ obj'[c].pcb = NULL)
       /\ obj'[c].slot = obj[c].slot \/ (Over(c)' /\ obj'[c].slot = NoSlot)
  /\ \A p \in Pcbs :
       /\ pcb'[p].arg = NULL \/ (pcb'[p].arg = pcb[p].arg /\ pcb'[p].conn = pcb[p].conn)
       /\ pcb'[p].state = "free" => pcb'[p].arg = NULL
  /\ conns' = conns /\ \A n \in told' : n <= conns
QueueGains == \A e \in Elems(queue') : e \in Elems(queue) \/ OwnEvent(e)'
\* A step of the task that leaves the client _lwip_fin works on alone.
Spares ==
  lwip.at \in LwipFin => LET a == lwip.ev.arg IN
    obj'[a].live = obj[a].live /\ obj'[a].pcb = obj[a].pcb /\ ~QueueEnds(a)' /\ ~Harms(a)'

\* The types of what the other parts speak of.
LEMMA AllFields ==
  ASSUME AllTyped, Held
  PROVE  /\ \A c \in Clients : /\ obj[c].live \in BOOLEAN /\ obj[c].pcb \in Pcbs \cup {NULL}
                               /\ obj[c].slot \in 0..NumSlots /\ obj[c].conn \in 0..MaxConns
         /\ \A p \in Pcbs : /\ pcb[p].state \in {"free", "open", "closed"}
                            /\ pcb[p].arg \in Clients \cup {NULL} /\ pcb[p].conn \in 0..MaxConns
         /\ lwip.at \in LwipPlaces /\ lwip.pcb \in Pcbs \cup {NULL} /\ lwip.tmp \in Nat
         /\ lwip.at # "idle" => lwip.ev.arg \in Clients /\ lwip.ev.conn \in 1..MaxConns
         /\ task.at \in TaskPlaces /\ task.pcb \in Pcbs \cup {NULL} /\ task.slot \in 0..NumSlots
         /\ task.op \in Ops /\ task.read \subseteq {"pcb", "slot"}
         /\ task.at # "get" => task.ev.arg \in Clients /\ task.ev.conn \in 1..MaxConns
         /\ \A e \in Elems(queue) : e \in AnEvent /\ e.arg \in Clients /\ e.conn \in 1..MaxConns
<1>1. \A c \in Clients : obj[c] \in Objects
  BY DEF AllTyped
<1>2. \A p \in Pcbs : pcb[p] \in PcbRecords
  BY DEF AllTyped
<1>3. \A e \in Elems(queue) : e \in AnEvent
  BY DEF AllTyped, Elems
<1> QED
  BY <1>1, <1>2, <1>3 DEF AllTyped, Held, Objects, PcbRecords, LwipRecords, TaskStates, AnEvent

\* What a receding step leaves as it is.
LEMMA RecedingKeeps ==
  ASSUME OnceInv, Recedes
  PROVE  /\ ConnsOnce' /\ FreeHoldsNone' /\ ArgIsLiveOwner'
         /\ \A c \in Clients : Over(c) => Over(c)'
         /\ \A e : e.arg \in Clients /\ OwnEvent(e) => OwnEvent(e)'
<1> USE DEF OnceInv
<1>1. \A c \in Clients : Over(c) => Over(c)'
  BY NullAssumption DEF Recedes, Over
<1>2. ASSUME NEW e, e.arg \in Clients, OwnEvent(e) PROVE OwnEvent(e)'
  BY <1>1, <1>2 DEF Recedes, OwnEvent, Made
<1>3. ConnsOnce'
  BY DEF Recedes, ConnsOnce
<1>4. FreeHoldsNone'
  BY DEF Recedes, FreeHoldsNone
<1>5. ArgIsLiveOwner'
  <2> SUFFICES ASSUME NEW p \in Pcbs, pcb'[p].arg # NULL
               PROVE  /\ obj'[pcb'[p].arg].live /\ obj'[pcb'[p].arg].conn = pcb'[p].conn
                      /\ obj'[pcb'[p].arg].pcb = p
    BY DEF ArgIsLiveOwner
  <2> DEFINE c == pcb[p].arg
  <2>1. pcb'[p].arg = c /\ pcb'[p].conn = pcb[p].conn /\ c \in Clients
    BY AllFields DEF Recedes
  <2>2. obj[c].live /\ obj[c].conn = pcb[p].conn /\ obj[c].pcb = p
    BY <2>1 DEF ArgIsLiveOwner
  <2>3. ~Over(c)'
    BY <2>1 DEF Over
  <2> QED
    BY <2>1, <2>2, <2>3 DEF Recedes
<1> QED
  BY <1>1, <1>2, <1>3, <1>4, <1>5

LEMMA QueueKeeps ==
  ASSUME OnceInv, Recedes, QueueGains PROVE QueueOwn'
<1>1. ASSUME NEW e \in Elems(queue) PROVE OwnEvent(e)'
  BY RecedingKeeps, AllFields DEF OnceInv, QueueOwn
<1> QED
  BY <1>1 DEF QueueGains, QueueOwn

\* A step of the task.
LEMMA TaskWorks ==
  ASSUME OnceInv, AllTyped', Held', Recedes, lwip' = lwip, QueueGains, Spares,
         TaskOwn', ToldIsOver', SlotsExclusive'
  PROVE  OnceInv'
<1> USE DEF OnceInv
<1>1. LwipOwn'
  <2>1. lwip.at # "idle" => lwip.ev.arg \in Clients
    BY AllFields
  <2>2. lwip.at # "idle" => Made(lwip.ev)'
    BY <2>1 DEF LwipOwn, Recedes, Made
  <2>3. lwip.at \in LwipFin \ {"fin"} => Over(lwip.ev.arg)'
    BY <2>1, RecedingKeeps DEF LwipOwn, LwipFin
  <2>4. lwip.at = "send" => OwnEvent(lwip.ev)'
    BY <2>1, RecedingKeeps DEF LwipOwn
  <2> QED
    BY <2>2, <2>3, <2>4 DEF LwipOwn
<1>2. LwipAlone'
  BY DEF LwipAlone, Spares
<1> QED
  BY <1>1, <1>2, RecedingKeeps, QueueKeeps

\* A step of the tcpip thread.
LEMMA LwipWorks ==
  ASSUME OnceInv, AllTyped', Held', Recedes, task' = task, told' = told, QueueGains,
         LwipOwn', LwipAlone', SlotsExclusive'
  PROVE  OnceInv'
<1> USE DEF OnceInv
<1>1. task.at # "get" => task.ev.arg \in Clients
  BY AllFields
<1>2. TaskOwn'
  <2>1. task.at # "get" => Made(task.ev)'
    BY <1>1 DEF TaskOwn, Recedes, Made
  <2>2. /\ task.at \in Parting => Over(task.ev.arg)'
        /\ task.at = "call" /\ task.op \in {"close", "closeAbort"} => Over(task.ev.arg)'
    BY <1>1, RecedingKeeps DEF TaskOwn, Parting, Leaving
  <2>3. task.at \in {"fin", "deleted"} \cup Leaving => This'.pcb = NULL
    BY <1>1 DEF TaskOwn, Recedes, This, Leaving
  <2>4. ReadsStay'
    <3> SUFFICES ASSUME task.at = "call", ~Over(task.ev.arg)' PROVE
                   /\ "pcb" \in task.read => task.pcb = This'.pcb
                   /\ "slot" \in task.read => task.slot = This'.slot
      BY DEF ReadsStay
    <3>1. ~Over(task.ev.arg)
      BY <1>1, RecedingKeeps
    <3>2. This'.pcb = This.pcb /\ This'.slot = This.slot
      BY <1>1 DEF Recedes, This
    <3> QED
      BY <3>1, <3>2 DEF TaskOwn, ReadsStay
  <2> QED
    BY <2>1, <2>2, <2>3, <2>4 DEF TaskOwn
<1>3. ToldIsOver'
  BY DEF ToldIsOver, Recedes
<1> QED
  BY <1>2, <1>3, RecedingKeeps, QueueKeeps

\* The event of a callback is its client's.
LEMMA OwnCallback ==
  ASSUME OnceInv, NEW p \in Pcbs, pcb[p].arg # NULL, NEW kind \in Events
  PROVE  /\ pcb[p].arg \in Clients /\ ~Over(pcb[p].arg)
         /\ \A i \in 0..MaxData :
              [Event(kind, pcb[p].arg, pcb[p].conn) EXCEPT !.id = i] \in AnEvent
         /\ Event(kind, pcb[p].arg, pcb[p].conn) \in AnEvent
         /\ AnEvent \subseteq AnyEvent
         /\ \A q \in Pcbs : pcb[q].arg = pcb[p].arg => q = p
<1>1. pcb[p].conn \in 1..MaxConns /\ pcb[p].arg \in Clients
  BY AllFields DEF OnceInv, ArgIsLiveOwner, ConnsOnce
<1>2. \A q \in Pcbs : pcb[q].arg = pcb[p].arg => q = p
  BY DEF OnceInv, ArgIsLiveOwner
<1> QED
  BY <1>1, <1>2, BoundsAssumption DEF Event, AnEvent, AnyEvent, Over

\* Callbacks without an end.
LEMMA OnceCallback ==
  ASSUME OnceInv, NEW p \in Pcbs, Callback(p) PROVE OnceInv'
<1> USE DEF OnceInv
<1>1. /\ lwip' \in LwipRecords /\ lwip'.at = "send" /\ lwip'.ev \in AnEvent
      /\ lwip'.ev.event = "RECV" /\ Made(lwip'.ev)
  <2> DEFINE e == [Event("RECV", pcb[p].arg, pcb[p].conn) EXCEPT !.id = data']
  <2>1. data' \in 0..MaxData
    BY BoundsAssumption DEF Callback, AllTyped
  <2>2. e \in AnEvent /\ e \in AnyEvent
    BY <2>1, OwnCallback DEF Callback, Events
  <2>3. e.event = "RECV" /\ Made(e)
    BY DEF Event, Made, Callback, ArgIsLiveOwner
  <2>4. lwip' = [lwip EXCEPT !.at = "send", !.ev = e]
    BY DEF Callback
  <2> HIDE DEF e
  <2> QED
    BY <2>2, <2>3, <2>4 DEF AllTyped, LwipRecords, LwipPlaces
<1>2. UNCHANGED <<obj, pcb, slots, index, queue, task, told, conns>>
  BY DEF Callback, shared
<1>l. lwip.at = "idle"
  BY DEF Callback
<1>3. AllTyped' /\ Held'
  BY <1>1, <1>2, BoundsAssumption DEF AllTyped, Callback, Held, LwipFin
<1>4. Recedes /\ QueueGains /\ SlotsExclusive'
  BY <1>1, <1>2, <1>l DEF Recedes, QueueGains, FreeHoldsNone, ConnsOnce, SlotsExclusive, Holds,
                 Forgetting
<1>5. LwipOwn' /\ LwipAlone'
  BY <1>1, <1>2 DEF LwipOwn, LwipAlone, LwipFin, OwnEvent, Made, Ends
<1> QED
  BY <1>2, <1>3, <1>4, <1>5, LwipWorks

\* A pcb that is freed or detached has no client, and its client is over.
LEMMA Detached ==
  ASSUME OnceInv, NEW p \in Pcbs, pcb' \in [Pcbs -> PcbRecords], pcb'[p].arg = NULL,
         \A q \in Pcbs : q # p => pcb'[q] = pcb[q],
         UNCHANGED <<obj, slots, conns>>, \A n \in told' : n <= conns,
         \A c \in Clients : Forgetting(c)' <=> Forgetting(c)
  PROVE  Recedes /\ (\A c \in Clients : pcb[p].arg = c => Over(c)') /\ SlotsExclusive'
<1>1. Recedes
  BY DEF OnceInv, Recedes, FreeHoldsNone
<1>2. ASSUME NEW c \in Clients, pcb[p].arg = c PROVE Over(c)'
  <2>1. \A q \in Pcbs : q # p => pcb[q].arg # c
    BY <1>2, NullAssumption, OwnCallback DEF Events
  <2>2. obj[c].conn # 0
    BY <1>2, NullAssumption DEF OnceInv, ArgIsLiveOwner, ConnsOnce
  <2> QED
    BY <2>1, <2>2, NullAssumption DEF Over
<1> QED
  BY <1>1, <1>2 DEF OnceInv, SlotsExclusive, Holds

LEMMA OnceReset ==
  ASSUME OnceInv, NEW p \in Pcbs, Reset(p) PROVE OnceInv'
<1> USE DEF OnceInv
<1>1. /\ lwip.at = "idle" /\ pcb' \in [Pcbs -> PcbRecords]
      /\ pcb'[p].state = "free" /\ pcb'[p].arg = NULL
      /\ \A q \in Pcbs : q # p => pcb'[q] = pcb[q]
  BY BoundsAssumption DEF Reset, FreePcb, AllTyped, PcbRecords
<1>2. UNCHANGED <<obj, slots, index, queue, task, told, conns, data>>
  BY DEF Reset
<1>f. lwip'.at # "forget"
  BY <1>1 DEF Reset, AllTyped, LwipRecords
<1>3. Recedes /\ QueueGains /\ SlotsExclusive' /\ (\A c \in Clients : pcb[p].arg = c => Over(c)')
  BY <1>1, <1>2, <1>f, Detached DEF QueueGains, ConnsOnce, Forgetting
<1>4. CASE pcb[p].arg = NULL
  <2>1. UNCHANGED lwip
    BY <1>4 DEF Reset
  <2>2. AllTyped' /\ Held' /\ LwipOwn' /\ LwipAlone'
    BY <1>1, <1>2, <2>1 DEF AllTyped, Held, LwipOwn, LwipAlone, LwipFin
  <2> QED
    BY <1>2, <1>3, <2>2, LwipWorks
<1>5. CASE pcb[p].arg # NULL
  <2>0. PICK e \in AnEvent : e = Event("ERROR", pcb[p].arg, pcb[p].conn)
    BY <1>5, OwnCallback DEF Events
  <2>1. e \in AnEvent /\ e \in AnyEvent
    BY <1>5, OwnCallback DEF Events
  <2>2. e.event = "ERROR" /\ e.arg = pcb[p].arg /\ e.conn = pcb[p].conn
    BY <2>0 DEF Event
  <2>3. lwip' = [lwip EXCEPT !.at = "send", !.ev = e]
    BY <2>0, <1>5 DEF Reset
  <2>4. /\ lwip' \in LwipRecords /\ lwip'.at = "send" /\ lwip'.ev = e
    BY <2>1, <2>3 DEF AllTyped, LwipRecords, LwipPlaces
  <2>5. AllTyped' /\ Held' /\ LwipAlone'
    BY <1>1, <1>2, <2>1, <2>2, <2>4 DEF AllTyped, Held, LwipFin, LwipAlone
  <2>6. LwipOwn'
    <3>1. Over(e.arg)' /\ Made(e)'
      BY <1>2, <1>3, <1>5, <2>1, <2>2 DEF AnEvent, Made, ArgIsLiveOwner
    <3> QED
      BY <2>2, <2>4, <3>1 DEF LwipOwn, OwnEvent, Made, Over
  <2> QED
    BY <1>2, <1>3, <2>5, <2>6, LwipWorks
<1> QED
  BY <1>4, <1>5

LEMMA OncePcbGone ==
  ASSUME OnceInv, NEW p \in Pcbs, PcbGone(p) PROVE OnceInv'
<1> USE DEF OnceInv
<1>1. /\ UNCHANGED <<obj, slots, index, queue, lwip, task, told, conns, data>>
      /\ lwip.at = "idle" /\ pcb' \in [Pcbs -> PcbRecords]
      /\ pcb'[p].state = "free" /\ pcb'[p].arg = NULL
      /\ \A q \in Pcbs : q # p => pcb'[q] = pcb[q]
  BY BoundsAssumption DEF PcbGone, FreePcb, AllTyped, PcbRecords
<1>2. Recedes /\ QueueGains /\ SlotsExclusive'
  BY <1>1, Detached DEF QueueGains, ConnsOnce, Forgetting
<1>3. AllTyped' /\ Held' /\ LwipOwn' /\ LwipAlone'
  BY <1>1 DEF AllTyped, Held, LwipOwn, LwipAlone, LwipFin
<1> QED
  BY <1>1, <1>2, <1>3, LwipWorks

\* The client whose FIN comes is not over, so nobody is about to end it.
LEMMA OnceRemoteFin ==
  ASSUME OnceInv, NEW p \in Pcbs, RemoteFin(p) PROVE OnceInv'
<1> USE DEF OnceInv
<1>1. UNCHANGED <<obj, slots, index, queue, task, told, conns, data>> /\ lwip.at = "idle"
  BY DEF RemoteFin
<1>2. CASE pcb[p].arg = NULL
  <2>1. /\ UNCHANGED lwip /\ pcb' \in [Pcbs -> PcbRecords] /\ pcb'[p].arg = NULL
        /\ \A q \in Pcbs : q # p => pcb'[q] = pcb[q]
    <3>1. pcb' = [pcb EXCEPT ![p].state = "closed"] /\ UNCHANGED lwip
      BY <1>2 DEF RemoteFin
    <3>2. pcb[p] \in PcbRecords /\ pcb \in [Pcbs -> PcbRecords]
      BY DEF AllTyped
    <3> QED
      BY <1>2, <3>1, <3>2 DEF PcbRecords
  <2>2. Recedes /\ QueueGains /\ SlotsExclusive'
    BY <1>1, <2>1, Detached DEF QueueGains, ConnsOnce, Forgetting
  <2>3. AllTyped' /\ Held' /\ LwipOwn' /\ LwipAlone'
    BY <1>1, <2>1 DEF AllTyped, Held, LwipOwn, LwipAlone, LwipFin
  <2> QED
    BY <1>1, <2>2, <2>3, LwipWorks
<1>3. CASE pcb[p].arg # NULL
  <2> DEFINE a == pcb[p].arg
             e == Event("FIN", a, pcb[p].conn)
  <2>1. e \in AnEvent /\ e \in AnyEvent /\ a \in Clients /\ ~Over(a)
    BY <1>3, OwnCallback DEF Events
  <2>2. e.event = "FIN" /\ e.arg = a /\ e.conn = pcb[p].conn
    BY DEF Event
  <2>3. lwip' = [lwip EXCEPT !.at = "fin", !.pcb = p, !.ev = e] /\ UNCHANGED pcb
    BY <1>3 DEF RemoteFin
  <2>o. obj[a].live /\ obj[a].conn = pcb[p].conn /\ obj[a].pcb = p
    BY <1>3 DEF ArgIsLiveOwner
  <2> HIDE DEF e, a
  <2>4. /\ lwip' \in LwipRecords /\ lwip'.at = "fin" /\ lwip'.ev = e /\ lwip'.pcb = p
    BY <2>1, <2>3 DEF AllTyped, LwipRecords, LwipPlaces
  <2>5. AllTyped' /\ Held'
    BY <1>1, <2>1, <2>2, <2>3, <2>4, NullAssumption DEF AllTyped, Held, LwipFin
  <2>6. ~QueueEnds(a)
    BY <2>1 DEF QueueEnds, EndIn, QueueOwn, OwnEvent
  <2>7. ~Harms(a)
    <3> SUFFICES ASSUME task.ev.arg = a, task.at = "call", "pcb" \in task.read, task.pcb = NULL
                 PROVE  FALSE
      BY <2>1 DEF Harms, TaskOwn
    <3>1. task.pcb = This.pcb
      BY <2>1 DEF TaskOwn, ReadsStay
    <3> QED
      BY <2>o, <3>1, NullAssumption DEF This
  <2>8. LwipOwn' /\ LwipAlone'
    <3>1. obj[a].pcb # NULL
      BY <2>o, NullAssumption
    <3> QED
      BY <1>1, <2>2, <2>3, <2>4, <2>6, <2>7, <2>o, <3>1 DEF LwipOwn, LwipAlone, LwipFin, Made,
         QueueEnds, Harms
  <2>9. Recedes /\ QueueGains /\ SlotsExclusive'
    BY <1>1, <2>3, <2>4 DEF Recedes, QueueGains, FreeHoldsNone, ConnsOnce, SlotsExclusive, Holds,
                            Forgetting
  <2> QED
    BY <1>1, <2>5, <2>8, <2>9, LwipWorks
<1> QED
  BY <1>2, <1>3

\* _lwip_fin finds the pcb it was called for in its client, and detaches it.
LEMMA OnceFinClose ==
  ASSUME OnceInv, LwipFinClose PROVE OnceInv'
<1> USE DEF OnceInv
<1>0. PICK a \in Clients : lwip.ev.arg = a
  BY AllFields DEF LwipFinClose
<1>1. /\ lwip.at = "fin" /\ lwip.ev \in AnEvent /\ lwip.pcb \in Pcbs /\ lwip.ev.event = "FIN"
      /\ obj[a].pcb = lwip.pcb /\ obj[a].conn = lwip.ev.conn /\ obj[a].conn # 0
      /\ UNCHANGED <<obj, slots, index, queue, task, told, conns, data>>
  <2>1. lwip.at = "fin"
    BY DEF LwipFinClose
  <2> QED
    BY <1>0, <2>1, AllFields DEF LwipFinClose, Held, LwipFin, LwipAlone, LwipOwn, Made
<1>2. /\ pcb' = [pcb EXCEPT ![lwip.pcb].state = "closed", ![lwip.pcb].arg = NULL]
      /\ lwip' = [lwip EXCEPT !.at = "freeSlot", !.pcb = NULL]
  BY <1>0, <1>1 DEF LwipFinClose
<1>3. /\ lwip' \in LwipRecords /\ lwip'.at = "freeSlot" /\ lwip'.ev = lwip.ev
  BY <1>2 DEF AllTyped, LwipRecords, LwipPlaces
<1>4. /\ pcb' \in [Pcbs -> PcbRecords] /\ pcb'[lwip.pcb].arg = NULL
      /\ \A q \in Pcbs : q # lwip.pcb => pcb'[q] = pcb[q]
  BY <1>1, <1>2 DEF AllTyped, PcbRecords
<1>5. AllTyped' /\ Held'
  BY <1>1, <1>3, <1>4 DEF AllTyped, Held, LwipFin
<1>6. Recedes /\ QueueGains /\ SlotsExclusive'
  BY <1>1, <1>3, <1>4, Detached DEF QueueGains, ConnsOnce, Forgetting
<1>7. Over(a)'
  <2>1. \A q \in Pcbs : pcb[q].arg = a => q = lwip.pcb
    BY <1>1, NullAssumption DEF ArgIsLiveOwner
  <2> QED
    BY <1>1, <1>4, <2>1, NullAssumption DEF Over
<1>8. LwipOwn' /\ LwipAlone'
  BY <1>0, <1>1, <1>3, <1>7 DEF LwipOwn, LwipAlone, LwipFin, Made, QueueEnds, Harms, Over
<1> QED
  BY <1>1, <1>5, <1>6, <1>8, LwipWorks

\* Either thread frees the slot of a client that is over.
LEMMA SlotRecedes ==
  ASSUME OnceInv, NEW a \in Clients, Over(a), ForgetSlot(a), Forgetting(a),
         \A c \in Clients : c # a => (Forgetting(c)' <=> Forgetting(c)),
         UNCHANGED <<pcb, slots, told, conns>>
  PROVE  /\ obj' \in [Clients -> Objects]
         /\ \A c \in Clients : /\ obj'[c].live = obj[c].live /\ obj'[c].pcb = obj[c].pcb
                               /\ obj'[c].conn = obj[c].conn
                               /\ obj'[c].slot = IF c = a THEN NoSlot ELSE obj[c].slot
         /\ SlotsExclusive' /\ Recedes
<1> USE DEF OnceInv
<1>1. /\ obj' \in [Clients -> Objects]
      /\ \A c \in Clients : /\ obj'[c].live = obj[c].live /\ obj'[c].pcb = obj[c].pcb
                            /\ obj'[c].conn = obj[c].conn
                            /\ obj'[c].slot = IF c = a THEN NoSlot ELSE obj[c].slot
      /\ SlotsExclusive'
  BY SlotForgotten DEF AllTyped
<1>2. Over(a)'
  BY <1>1 DEF Over
<1> QED
  BY <1>1, <1>2 DEF Recedes, FreeHoldsNone, ConnsOnce

LEMMA OnceFinFreeSlot ==
  ASSUME OnceInv, LwipFinFreeSlot PROVE OnceInv'
<1> USE DEF OnceInv
<1>0. PICK a \in Clients : lwip.ev.arg = a
  BY AllFields DEF LwipFinFreeSlot
<1>1. /\ lwip.at = "freeSlot" /\ lwip.ev \in AnEvent /\ lwip.ev.event = "FIN"
      /\ GiveSlotBack(a) /\ Over(a)
      /\ UNCHANGED <<obj, pcb, index, queue, task, told, conns, data>>
  BY <1>0 DEF LwipFinFreeSlot, Held, LwipFin, LwipOwn
<1>2. /\ lwip' \in LwipRecords /\ lwip'.ev = lwip.ev
      /\ lwip'.at = IF obj[a].slot = NoSlot THEN "nullPcb" ELSE "forget"
  BY <1>0 DEF LwipFinFreeSlot, AllTyped, LwipRecords, LwipPlaces
<1>3. slots' \in [Slots -> Nat] /\ SlotsExclusive'
  <2>1. task.at = "forget" => task.ev.arg # a
    BY <1>0, <1>1 DEF LwipAlone, LwipFin, Harms, Parting, Leaving
  <2>2. /\ ~Forgetting(a) /\ (obj[a].slot # NoSlot => Forgetting(a)')
        /\ \A c \in Clients : c # a => (Forgetting(c)' <=> Forgetting(c))
    BY <1>0, <1>1, <1>2, <2>1 DEF Forgetting
  <2> QED
    BY <1>1, <2>2, SlotGiven DEF AllTyped
<1>4. AllTyped' /\ Held'
  BY <1>1, <1>2, <1>3 DEF AllTyped, Held, LwipFin
<1>5. Recedes /\ QueueGains
  BY <1>1 DEF Recedes, FreeHoldsNone, ConnsOnce, QueueGains
<1>6. LwipOwn' /\ LwipAlone'
  BY <1>0, <1>1, <1>2 DEF LwipOwn, LwipAlone, LwipFin, Made, Over, QueueEnds, Harms
<1> QED
  BY <1>1, <1>3, <1>4, <1>5, <1>6, LwipWorks

LEMMA OnceFinForget ==
  ASSUME OnceInv, LwipFinForget PROVE OnceInv'
<1> USE DEF OnceInv
<1>0. PICK a \in Clients : lwip.ev.arg = a
  BY AllFields DEF LwipFinForget
<1>1. /\ lwip.at = "forget" /\ lwip.ev \in AnEvent /\ lwip.ev.event = "FIN"
      /\ ForgetSlot(a) /\ Over(a)
      /\ UNCHANGED <<pcb, slots, index, queue, task, told, conns, data>>
  BY <1>0 DEF LwipFinForget, Held, LwipFin, LwipOwn
<1>2. /\ lwip' \in LwipRecords /\ lwip'.at = "load" /\ lwip'.ev = lwip.ev
  BY DEF LwipFinForget, AllTyped, LwipRecords, LwipPlaces
<1>3. /\ obj' \in [Clients -> Objects] /\ SlotsExclusive' /\ Recedes /\ Over(a)'
      /\ obj'[a].live = obj[a].live /\ obj'[a].pcb = obj[a].pcb /\ obj'[a].conn = obj[a].conn
  <2>1. /\ Forgetting(a) /\ \A c \in Clients : c # a => (Forgetting(c)' <=> Forgetting(c))
    BY <1>0, <1>1, <1>2 DEF Forgetting
  <2> QED
    BY <1>1, <2>1, SlotRecedes, RecedingKeeps
<1>4. AllTyped' /\ Held'
  BY <1>1, <1>2, <1>3 DEF AllTyped, Held, LwipFin
<1>5. QueueGains
  BY <1>1 DEF QueueGains
<1>6. LwipOwn' /\ LwipAlone'
  BY <1>0, <1>1, <1>2, <1>3 DEF LwipOwn, LwipAlone, LwipFin, Made, QueueEnds, Harms
<1> QED
  BY <1>1, <1>3, <1>4, <1>5, <1>6, LwipWorks

LEMMA OnceFinLoad ==
  ASSUME OnceInv, LwipFinLoad PROVE OnceInv'
<1> USE DEF OnceInv
<1>1. /\ lwip.at = "load"
      /\ lwip' \in LwipRecords /\ lwip'.at = "count" /\ lwip'.ev = lwip.ev
      /\ UNCHANGED <<obj, pcb, slots, index, queue, task, told, conns, data>>
  <2>1. lwip \in LwipRecords /\ index \in Nat
    BY DEF AllTyped
  <2>2. /\ lwip.at = "load" /\ lwip' = [lwip EXCEPT !.at = "count", !.tmp = index]
        /\ UNCHANGED <<obj, pcb, slots, index, queue, task, told, conns, data>>
    BY DEF LwipFinLoad, shared
  <2>3. lwip' \in LwipRecords /\ lwip'.at = "count" /\ lwip'.ev = lwip.ev
    BY <2>1, <2>2 DEF LwipRecords, LwipPlaces
  <2> QED
    BY <2>2, <2>3
<1>2. AllTyped' /\ Held'
  BY <1>1 DEF AllTyped, Held, LwipFin
<1>3. Recedes /\ QueueGains /\ SlotsExclusive'
  BY <1>1 DEF Recedes, QueueGains, FreeHoldsNone, ConnsOnce, SlotsExclusive, Holds, Forgetting
<1>4. LwipOwn' /\ LwipAlone'
  BY <1>1 DEF LwipOwn, LwipAlone, LwipFin, Made, Over, QueueEnds, Harms
<1> QED
  BY <1>1, <1>2, <1>3, <1>4, LwipWorks

LEMMA OnceFinCount ==
  ASSUME OnceInv, LwipFinCount PROVE OnceInv'
<1> USE DEF OnceInv
<1>1. /\ lwip.at = "count" /\ index' \in Nat \ {0}
      /\ lwip' \in LwipRecords /\ lwip'.at = "nullPcb" /\ lwip'.ev = lwip.ev
      /\ UNCHANGED <<obj, pcb, slots, queue, task, told, conns, data>>
  <2>1. lwip \in LwipRecords /\ lwip.tmp \in Nat
    BY AllFields DEF AllTyped
  <2>2. /\ lwip.at = "count" /\ index' = lwip.tmp + 1
        /\ lwip' = [lwip EXCEPT !.at = "nullPcb", !.tmp = 0]
        /\ UNCHANGED <<obj, pcb, slots, queue, task, told, conns, data>>
    BY DEF LwipFinCount
  <2>3. lwip' \in LwipRecords /\ lwip'.at = "nullPcb" /\ lwip'.ev = lwip.ev
    BY <2>1, <2>2 DEF LwipRecords, LwipPlaces
  <2> QED
    BY <2>1, <2>2, <2>3
<1>2. AllTyped' /\ Held'
  BY <1>1 DEF AllTyped, Held, LwipFin
<1>3. Recedes /\ QueueGains /\ SlotsExclusive'
  BY <1>1 DEF Recedes, QueueGains, FreeHoldsNone, ConnsOnce, SlotsExclusive, Holds, Forgetting
<1>4. LwipOwn' /\ LwipAlone'
  BY <1>1 DEF LwipOwn, LwipAlone, LwipFin, Made, Over, QueueEnds, Harms
<1> QED
  BY <1>1, <1>2, <1>3, <1>4, LwipWorks

\* A client that is over loses its _pcb.
LEMMA PcbRecedes ==
  ASSUME OnceInv, NEW a \in Clients, Over(a), obj' = [obj EXCEPT ![a].pcb = NULL],
         UNCHANGED <<pcb, slots, told, conns>>, \A c \in Clients : Forgetting(c)' <=> Forgetting(c)
  PROVE  /\ obj' \in [Clients -> Objects]
         /\ \A c \in Clients : /\ obj'[c].live = obj[c].live /\ obj'[c].slot = obj[c].slot
                               /\ obj'[c].conn = obj[c].conn
                               /\ obj'[c].pcb = IF c = a THEN NULL ELSE obj[c].pcb
         /\ SlotsExclusive' /\ Recedes
<1> USE DEF OnceInv
<1>1. /\ obj' \in [Clients -> Objects]
      /\ \A c \in Clients : /\ obj'[c].live = obj[c].live /\ obj'[c].slot = obj[c].slot
                            /\ obj'[c].conn = obj[c].conn
                            /\ obj'[c].pcb = IF c = a THEN NULL ELSE obj[c].pcb
  BY PcbForgotten DEF AllTyped
<1>2. Over(a)'
  BY <1>1 DEF Over
<1>3. SlotsExclusive'
  BY <1>1 DEF SlotsExclusive, Holds
<1> QED
  BY <1>1, <1>2, <1>3 DEF Recedes, FreeHoldsNone, ConnsOnce

LEMMA OnceFinNullPcb ==
  ASSUME OnceInv, LwipFinNullPcb PROVE OnceInv'
<1> USE DEF OnceInv
<1>0. PICK a \in Clients : lwip.ev.arg = a
  BY AllFields DEF LwipFinNullPcb
<1>1. /\ lwip.at = "nullPcb" /\ lwip.ev \in AnEvent /\ lwip.ev.event = "FIN"
      /\ lwip' \in LwipRecords /\ lwip'.at = "send" /\ lwip'.ev = lwip.ev
      /\ UNCHANGED <<pcb, slots, index, queue, task, told, conns, data>>
      /\ Over(a) /\ obj[a].conn = lwip.ev.conn
  <2>1. lwip.at = "nullPcb"
    BY DEF LwipFinNullPcb
  <2>2. lwip' = [lwip EXCEPT !.at = "send"]
    BY DEF LwipFinNullPcb
  <2>3. lwip' \in LwipRecords /\ lwip'.at = "send" /\ lwip'.ev = lwip.ev
    BY <2>2 DEF AllTyped, LwipRecords, LwipPlaces
  <2> QED
    BY <1>0, <2>1, <2>3 DEF LwipFinNullPcb, Held, LwipFin, LwipOwn, Made
<1>2. obj' = [obj EXCEPT ![a].pcb = NULL]
  BY <1>0 DEF LwipFinNullPcb
<1>3. /\ obj' \in [Clients -> Objects] /\ obj'[a].pcb = NULL /\ obj'[a].conn = obj[a].conn
      /\ SlotsExclusive' /\ Recedes
  <2>1. \A c \in Clients : Forgetting(c)' <=> Forgetting(c)
    BY <1>1 DEF Forgetting
  <2> QED
    BY <1>1, <1>2, <2>1, PcbRecedes
<1>4. AllTyped' /\ Held'
  BY <1>1, <1>3 DEF AllTyped, Held, LwipFin
<1>5. QueueGains
  BY <1>1 DEF QueueGains
<1>6. Over(a)'
  BY <1>1, <1>3, RecedingKeeps
<1>7. LwipOwn' /\ LwipAlone'
  BY <1>0, <1>1, <1>3, <1>6 DEF LwipOwn, LwipAlone, LwipFin, OwnEvent, Made
<1> QED
  BY <1>1, <1>3, <1>4, <1>5, <1>7, LwipWorks

LEMMA OnceLwipSend ==
  ASSUME OnceInv, LwipSend PROVE OnceInv'
<1> USE DEF OnceInv
<1>0. PICK e \in AnEvent : lwip.ev = e
  BY DEF LwipSend, Held
<1>1. /\ lwip.at = "send"
      /\ lwip' \in LwipRecords /\ lwip'.at = "idle" /\ queue' = Append(queue, e)
      /\ UNCHANGED <<obj, pcb, slots, index, task, told, conns, data>>
  BY <1>0, TaskRecord DEF LwipSend, LwipIdle, LwipRecords, LwipPlaces, shared
<1>2. Recedes /\ SlotsExclusive'
  BY <1>1 DEF Recedes, FreeHoldsNone, ConnsOnce, SlotsExclusive, Holds, Forgetting
<1>3. queue' \in Seq(AnEvent) /\ Elems(queue') = Elems(queue) \cup {e}
  BY <1>1, Appending DEF AllTyped
<1>4. AllTyped' /\ Held'
  BY <1>1, <1>3 DEF AllTyped, Held, LwipFin
<1>5. QueueGains
  <2>1. OwnEvent(e)'
    BY <1>0, <1>1 DEF LwipOwn, OwnEvent, Made, Over
  <2> QED
    BY <1>3, <2>1 DEF QueueGains
<1>6. LwipOwn' /\ LwipAlone'
  BY <1>1 DEF LwipOwn, LwipAlone, LwipFin
<1> QED
  BY <1>1, <1>2, <1>4, <1>5, <1>6, LwipWorks

\* A client that is accepted had no connection before.
LEMMA OnceAccept ==
  ASSUME OnceInv, ~Reuse, NEW a \in Clients, NEW p \in Pcbs, Accept(a, p) PROVE OnceInv'
<1> USE DEF OnceInv
<1>0. conns' = conns + 1 /\ conns' \in 1..MaxConns /\ conns \in Nat /\ told \subseteq Nat
  BY BoundsAssumption DEF Accept, AllTyped
<1>e. PICK e \in AnEvent : e = Event("ACCEPT", a, conns')
  <2>1. Event("ACCEPT", a, conns') \in AnEvent
    BY <1>0, BoundsAssumption DEF Event, AnEvent, Events
  <2> QED
    BY <2>1
<1>s. PICK s \in 0..NumSlots : s = OldestSlot /\ (s # NoSlot => s \in Slots /\ slots[s] # 0)
  BY OldestSlotIsClosed, NumSlotsAssumption DEF AllTyped, Slots, NoSlot
<1>1. /\ lwip.at = "idle" /\ UNCHANGED <<index, lwip, task, told, data>>
      /\ obj[a].conn = 0 /\ ~obj[a].live /\ obj[a].slot = NoSlot /\ pcb[p].arg = NULL
  BY DEF Accept, FreeHoldsNone, ConnsOnce
<1>2. e.arg = a /\ e.event = "ACCEPT" /\ e.conn = conns'
  BY <1>e DEF Event
<1>3. /\ queue' = <<e>> \o queue
      /\ slots' = IF s = NoSlot THEN slots ELSE [slots EXCEPT ![s] = 0]
      /\ pcb' = [pcb EXCEPT ![p] = [state |-> "open", arg |-> a, conn |-> conns']]
      /\ obj' = [obj EXCEPT ![a] = [live |-> TRUE, ready |-> FALSE, pcb |-> p,
                                    slot |-> s, conn |-> conns', hit |-> FALSE]]
  BY <1>e, <1>s DEF Accept
<1>4. queue' \in Seq(AnEvent) /\ Elems(queue') = Elems(queue) \cup {e}
  BY <1>3, Prepending DEF AllTyped, Ends
<1>5. /\ obj' \in [Clients -> Objects] /\ obj'[a].live /\ obj'[a].pcb = p
      /\ obj'[a].slot = s /\ obj'[a].conn = conns'
      /\ \A c \in Clients : c # a => obj'[c] = obj[c]
  BY <1>0, <1>3 DEF AllTyped, Objects
<1>6. /\ pcb' \in [Pcbs -> PcbRecords] /\ pcb'[p].arg = a /\ pcb'[p].state = "open"
      /\ pcb'[p].conn = conns' /\ \A q \in Pcbs : q # p => pcb'[q] = pcb[q]
  BY <1>0, <1>3 DEF AllTyped, PcbRecords
<1>7. AllTyped' /\ Held'
  <2>1. slots' \in [Slots -> Nat]
    BY <1>3 DEF AllTyped
  <2> QED
    BY <1>0, <1>1, <1>4, <1>5, <1>6, <2>1 DEF AllTyped, Held, LwipFin
<1>8. \A c \in Clients : obj[c].conn # 0 => obj'[c] = obj[c] /\ c # a /\ (Over(c) <=> Over(c)')
  BY <1>1, <1>5, <1>6, NullAssumption DEF Over
<1>9. ASSUME NEW x, x.arg \in Clients, x.conn \in 1..MaxConns, Made(x)
      PROVE  obj[x.arg].conn # 0 /\ Made(x)' /\ (OwnEvent(x) => OwnEvent(x)')
  <2>1. obj[x.arg].conn # 0
    BY <1>9 DEF Made
  <2> QED
    BY <1>8, <1>9, <2>1 DEF Made, OwnEvent
<1>10. QueueOwn'
  <2>1. OwnEvent(e)'
    BY <1>2, <1>5 DEF OwnEvent, Made, Ends
  <2>2. \A x \in Elems(queue) : OwnEvent(x)'
    BY <1>9, AllFields DEF QueueOwn, OwnEvent
  <2> QED
    BY <1>4, <2>1, <2>2 DEF QueueOwn
<1>11. LwipOwn' /\ LwipAlone'
  BY <1>1 DEF LwipOwn, LwipAlone, LwipFin
<1>12. TaskOwn'
  <2>1. CASE task.at = "get"
    BY <1>1, <2>1 DEF TaskOwn, Parting, Leaving, ReadsStay
  <2>2. CASE task.at # "get"
    <3>1. PICK t \in Clients : task.ev.arg = t
      BY <2>2, AllFields
    <3>2. obj[t].conn = task.ev.conn /\ obj[t].conn # 0
      BY <2>2, <3>1, AllFields DEF TaskOwn, Made
    <3>3. obj'[t] = obj[t] /\ (Over(t) <=> Over(t)')
      BY <1>8, <3>2
    <3> QED
      BY <1>1, <2>2, <3>1, <3>2, <3>3 DEF TaskOwn, Made, This, ReadsStay
  <2> QED
    BY <2>1, <2>2
<1>13. ConnsOnce' /\ ToldIsOver'
  <2>1. \A c \in Clients : obj[c].conn \in Nat /\ (c # a => obj'[c].conn < conns')
    BY <1>0, <1>5, AllFields DEF ConnsOnce
  <2>2. conns' \notin told
    BY <1>0 DEF ConnsOnce
  <2>3. ConnsOnce'
    BY <1>0, <1>1, <1>5, <2>1 DEF ConnsOnce
  <2>4. ToldIsOver'
    BY <1>1, <1>5, <2>2 DEF ToldIsOver
  <2> QED
    BY <2>3, <2>4
<1>14. FreeHoldsNone'
  BY <1>6 DEF FreeHoldsNone
<1>15. SlotsExclusive'
  <2>0. ~Forgetting(a)' /\ \A c \in Clients : Forgetting(c)' <=> Forgetting(c)
    <3>1. task.at = "forget" => task.ev.arg # a
      BY <1>1, AllFields DEF TaskOwn, Made
    <3> QED
      BY <1>1, <3>1 DEF Forgetting
  <2>1. \A c \in Clients : c # a /\ s # NoSlot => ~Holds(c, s)
    BY <1>s DEF SlotsExclusive
  <2>2. (\A t \in Slots : t # NoSlot) /\ slots \in [Slots -> Nat]
    BY NumSlotsAssumption DEF Slots, NoSlot, AllTyped
  <2> QED
    BY <1>1, <1>s, <1>3, <1>5, <2>0, <2>1, <2>2 DEF SlotsExclusive, Holds
<1>16. ArgIsLiveOwner'
  BY <1>1, <1>5, <1>6, AllFields DEF ArgIsLiveOwner
<1> QED
  BY <1>7, <1>10, <1>11, <1>12, <1>13, <1>14, <1>15, <1>16

\* The records the steps of the task make.
LEMMA TaskStateIs ==
  NoEvent \in AnyEvent /\ NoSlot \in 0..NumSlots /\ TaskIdle \in TaskStates
<1>1. NoEvent \in AnyEvent /\ NoSlot \in 0..NumSlots
  BY TaskRecord
<1> QED
  BY <1>1 DEF TaskStates, TaskIdle, TaskPlaces, Ops

LEMMA GotoLeads ==
  ASSUME AllTyped, NEW at \in TaskPlaces, Goto(at)
  PROVE  /\ task' \in TaskStates /\ task'.at = at /\ (at # "get" => task'.ev = task.ev)
  BY TaskStateIs DEF AllTyped, Goto, TaskIdle, TaskStates

LEMMA CallLeads ==
  ASSUME AllTyped, NEW op \in Ops, Call(op)
  PROVE  /\ task' \in TaskStates /\ task'.at = "call" /\ task'.ev = task.ev /\ task'.op = op
         /\ task'.read = {}
  BY TaskStateIs DEF AllTyped, Call, TaskIdle, TaskStates, TaskPlaces

\* Where _recv goes on after a pbuf.
LEMMA NextBufLeads ==
  ASSUME AllTyped, NextBuf
  PROVE  /\ task' \in TaskStates /\ task'.at \in {"get", "app", "deleted"}
         /\ task'.at # "get" => /\ task'.ev = task.ev
                               /\ task'.at = IF task.at = "deleted" THEN "deleted" ELSE "app"
<1> DEFINE at == IF task.at = "deleted" THEN "deleted" ELSE "app"
<1>1. at \in {"app", "deleted"} /\ task.ev \in AnyEvent
  BY DEF AllTyped, TaskStates
<1>2. task' = TaskIdle \/ task' = [TaskIdle EXCEPT !.at = at, !.ev = task.ev]
  BY DEF NextBuf
<1>3. TaskIdle.at = "get"
  BY DEF TaskIdle
<1> HIDE DEF at
<1>4. CASE task' = [TaskIdle EXCEPT !.at = at, !.ev = task.ev]
  <2>1. task' \in TaskStates /\ task'.at = at /\ task'.ev = task.ev
    BY <1>1, <1>4, TaskStateIs DEF TaskStates, TaskPlaces
  <2> QED
    BY <1>1, <2>1 DEF at
<1> QED
  BY <1>2, <1>3, <1>4, TaskStateIs

\* A step of the task alone, which stays with its event or has none.
Alike == /\ \A c \in Clients : /\ obj'[c].live = obj[c].live /\ obj'[c].conn = obj[c].conn
                               /\ obj'[c].pcb = obj[c].pcb /\ obj'[c].slot = obj[c].slot
         /\ UNCHANGED <<pcb, slots, lwip, told, conns>>
         /\ Elems(queue') \subseteq Elems(queue)
LEMMA AlikeKeeps ==
  ASSUME OnceInv, AllTyped', Held', TaskOwn', Alike,
         task.at \in Leaving => task'.at \in Leaving /\ task'.ev.arg = task.ev.arg,
         "forget" \notin {task.at, task'.at}, lwip.at \in LwipFin => ~Harms(lwip.ev.arg)'
  PROVE  OnceInv'
<1> USE DEF OnceInv, Alike
<1>1. Recedes /\ QueueGains /\ SlotsExclusive'
  BY DEF Recedes, FreeHoldsNone, ConnsOnce, QueueGains, SlotsExclusive, Holds, Forgetting
<1>2. ToldIsOver'
  BY DEF ToldIsOver, Leaving
<1>3. Spares
  <2> SUFFICES ASSUME lwip.at \in LwipFin PROVE Spares
    BY DEF Spares
  <2>1. lwip.ev.arg \in Clients
    BY AllFields DEF LwipFin
  <2>2. ~QueueEnds(lwip.ev.arg)'
    BY DEF LwipAlone, QueueEnds, EndIn
  <2> QED
    BY <2>1, <2>2 DEF Spares
<1> QED
  BY <1>1, <1>2, <1>3, TaskWorks

Stays == /\ task'.at # "get" => task.at # "get" /\ task'.ev = task.ev
         /\ task'.at \in Parting => Over(task.ev.arg)
         /\ task'.at = "call" => /\ task'.op \in {"close", "closeAbort"} => Over(task.ev.arg)
                                 /\ task'.read = {}
         /\ task'.at \in {"fin", "deleted"} \cup Leaving => This.pcb = NULL
         /\ task'.at \in Parting => task.at \in Parting
         /\ task.at \in Leaving => task'.at \in Leaving
         /\ "forget" \notin {task.at, task'.at}
LEMMA StaysKeeps ==
  ASSUME OnceInv, AllTyped', Held', Alike, Stays PROVE OnceInv'
<1> USE DEF OnceInv
<1>1. TaskOwn'
  <2>1. CASE task'.at = "get"
    BY <2>1 DEF TaskOwn, Parting, Leaving, ReadsStay
  <2>2. CASE task'.at # "get"
    <3>1. PICK a \in Clients : task.ev.arg = a
      BY <2>2, AllFields DEF Stays
    <3>2. task'.ev = task.ev /\ Made(task.ev) /\ obj'[a].conn = obj[a].conn
          /\ obj'[a].pcb = obj[a].pcb /\ (Over(a) => Over(a)')
      BY <2>2, <3>1 DEF Stays, TaskOwn, Alike, Over
    <3> QED
      BY <2>2, <3>1, <3>2 DEF TaskOwn, Made, Stays, This, ReadsStay, Leaving, Parting
  <2> QED
    BY <2>1, <2>2
<1>2. lwip.at \in LwipFin => ~Harms(lwip.ev.arg)'
  BY DEF Alike, Stays, LwipAlone, Harms, Parting, Leaving
<1>3. task.at \in Leaving => task'.at \in Leaving /\ task'.ev.arg = task.ev.arg
  BY DEF Stays, Leaving
<1> QED
  BY <1>1, <1>2, <1>3, AlikeKeeps DEF Stays

LEMMA OnceStays ==
  ASSUME OnceInv,
         \/ PurgeReturn \/ Accepted \/ AppReturn \/ AppWrite \/ AppClose \/ AppAbort
         \/ Close \/ CloseAbort \/ DeleteLoad \/ DeleteCount \/ PurgeTake
  PROVE  OnceInv'
<1> SUFFICES AllTyped' /\ Held' /\ Alike /\ Stays
  BY StaysKeeps
<1> USE DEF OnceInv
<1>p. /\ {"get", "app", "close", "detach", "unlink", "delete"} \subseteq TaskPlaces
      /\ {"recved", "write", "recvedAndClose", "abort", "closeAbort"} \subseteq Ops
  BY DEF TaskPlaces, Ops
<1>h. ASSUME task' \in TaskStates, UNCHANGED lwip,
             task'.at # "get" => task.at # "get" /\ task'.ev = task.ev,
             task'.at \notin {"fin", "error"}, task'.at = "call" => task'.op # "none"
      PROVE  Held'
  BY <1>h DEF Held
<1>1. CASE PurgeReturn
  <2>1. task' = TaskIdle /\ task'.at = "get"
    BY <1>1 DEF PurgeReturn, TaskIdle
  <2> QED
    BY <1>1, <2>1, <1>h, TaskStateIs DEF PurgeReturn, AllTyped, Alike, Stays, shared, Parting,
       Leaving
<1>2. CASE Accepted
  <2>1. obj' \in [Clients -> Objects]
        /\ \A c \in Clients : /\ obj'[c].live = obj[c].live /\ obj'[c].conn = obj[c].conn
                              /\ obj'[c].pcb = obj[c].pcb /\ obj'[c].slot = obj[c].slot
    BY <1>2, ReadyKeeps DEF Accepted, AllTyped
  <2>2. task' \in TaskStates /\ task'.at = "app" /\ task'.ev = task.ev
    BY <1>2, <1>p, GotoLeads DEF Accepted
  <2> QED
    BY <1>2, <2>1, <2>2, <1>h DEF Accepted, AllTyped, Alike, Stays, Parting, Leaving
<1>3. CASE AppReturn
  <2>1. task.at \in {"app", "deleted"} /\ (NextBuf \/ Call("recved"))
    BY <1>3 DEF AppReturn, InApp
  <2>2. /\ task' \in TaskStates
        /\ \/ task'.at = "get"
           \/ /\ task'.at = "call" /\ task'.ev = task.ev /\ task'.op = "recved" /\ task'.read = {}
           \/ task'.at = task.at /\ task'.ev = task.ev
    <3>1. CASE NextBuf
      BY <2>1, <3>1, NextBufLeads
    <3>2. CASE Call("recved")
      BY <1>p, <3>2, CallLeads
    <3> QED
      BY <2>1, <3>1, <3>2
  <2>3. task.at = "deleted" => This.pcb = NULL
    BY DEF TaskOwn
  <2> QED
    BY <1>3, <2>1, <2>2, <2>3, <1>h DEF AppReturn, AllTyped, Alike, Stays, shared, Parting, Leaving
<1>4. CASE AppWrite \/ AppClose \/ AppAbort
  <2>1. PICK op \in {"write", "recvedAndClose", "abort"} : AppCalls(op)
    BY <1>4 DEF AppWrite, AppClose, AppAbort
  <2>2. task' \in TaskStates /\ task'.at = "call" /\ task'.ev = task.ev /\ task'.op = op
        /\ task'.read = {} /\ task.at = "app"
    BY <2>1, <1>p, CallLeads DEF AppCalls, InApp, TaskOwn
  <2> QED
    BY <2>1, <2>2, <1>h DEF AppCalls, AllTyped, Alike, Stays, shared, Parting, Leaving
<1>5. CASE Close
  <2>1. Goto("app") \/ Goto("detach")
    BY <1>5 DEF Close
  <2>2. task' \in TaskStates /\ task'.at \in {"app", "detach"} /\ task'.ev = task.ev
    BY <2>1, <1>p, GotoLeads
  <2> QED
    BY <1>5, <2>2, <1>h DEF Close, AllTyped, Alike, Stays, shared, Parting, Leaving
<1>6. CASE CloseAbort
  <2>1. task.at = "abort" /\ (Goto("unlink") \/ Call("closeAbort"))
    BY <1>6 DEF CloseAbort
  <2>2. /\ task' \in TaskStates /\ task'.ev = task.ev
        /\ task'.at = "unlink" \/ (/\ task'.at = "call" /\ task'.op = "closeAbort"
                                   /\ task'.read = {})
    BY <2>1, <1>p, GotoLeads, CallLeads
  <2>3. Over(task.ev.arg)
    BY <2>1 DEF TaskOwn, Parting
  <2> QED
    BY <1>6, <2>1, <2>2, <2>3, <1>h DEF CloseAbort, AllTyped, Alike, Stays, shared, Parting,
       Leaving
<1>7. CASE DeleteCount
  <2>1. task \in TaskStates /\ task.tmp \in Nat
    BY DEF AllTyped, TaskStates
  <2>2. /\ task.at = "count" /\ index' = task.tmp + 1 /\ Goto("delete")
        /\ UNCHANGED <<obj, pcb, slots, queue, lwip, told, conns, data>>
    BY <1>7 DEF DeleteCount
  <2>3. task' \in TaskStates /\ task'.at = "delete" /\ task'.ev = task.ev
    BY <2>2, <1>p, GotoLeads
  <2>4. index' \in Nat \ {0}
    BY <2>1, <2>2
  <2>5. Over(task.ev.arg) /\ This.pcb = NULL
    BY <2>2 DEF TaskOwn, Parting, Leaving
  <2> QED
    BY <2>2, <2>3, <2>4, <2>5, <1>h DEF AllTyped, Alike, Stays, Parting, Leaving
<1>9. CASE DeleteLoad
  <2>1. /\ task.at = "load" /\ task' = [task EXCEPT !.at = "count", !.tmp = index]
        /\ UNCHANGED <<obj, pcb, slots, index, queue, lwip, told, conns, data>>
    BY <1>9 DEF DeleteLoad, shared
  <2>2. task \in TaskStates /\ index \in Nat
    BY DEF AllTyped
  <2>3. task' \in TaskStates /\ task'.at = "count" /\ task'.ev = task.ev
    BY <2>1, <2>2 DEF TaskStates, TaskPlaces
  <2>4. Over(task.ev.arg) /\ This.pcb = NULL
    BY <2>1 DEF TaskOwn, Parting, Leaving
  <2> QED
    BY <2>1, <2>3, <2>4, <1>h DEF AllTyped, Alike, Stays, Parting, Leaving
<1>8. CASE PurgeTake
  <2> DEFINE e == Head(queue)
  <2>1. /\ task.at = "purge" /\ queue # <<>>
        /\ UNCHANGED <<obj, pcb, slots, index, lwip, told, conns, data>>
    BY <1>8 DEF PurgeTake, PurgeEnds, shared
  <2>2. /\ Tail(queue) \in Seq(AnEvent) /\ e \in AnEvent
        /\ Elems(queue) = Elems(Tail(queue)) \cup {e}
    BY <2>1, Taking DEF AllTyped
  <2>3. /\ task' \in TaskStates /\ task'.at = "purge" /\ task'.ev = task.ev
    <3>1. task' = task \/ task' = [task EXCEPT !.first = IF @ = NoEvent THEN e ELSE @]
      BY <1>8 DEF PurgeTake
    <3> HIDE DEF e
    <3>2. e \in AnyEvent /\ task \in TaskStates
      BY <2>2 DEF AnyEvent, AnEvent, AllTyped
    <3> QED
      BY <2>1, <3>1, <3>2 DEF TaskStates
  <2>4. queue' = Tail(queue) \/ queue' = Append(Tail(queue), e)
    BY <1>8 DEF PurgeTake
  <2> HIDE DEF e
  <2>5. queue' \in Seq(AnEvent) /\ Elems(queue') \subseteq Elems(queue)
    BY <2>2, <2>4, Appending
  <2> QED
    BY <2>1, <2>3, <2>5, <1>h DEF AllTyped, Alike, Stays, Parting, Leaving
<1> QED
  BY <1>1, <1>2, <1>3, <1>4, <1>5, <1>6, <1>7, <1>8, <1>9

\* The task takes an event: an end that is queued is that of a client that is over.
LEMMA OnceHandle ==
  ASSUME OnceInv, Handle PROVE OnceInv'
<1> USE DEF OnceInv
<1>1. /\ task.at = "get" /\ queue # <<>> /\ queue' = Tail(queue)
      /\ UNCHANGED <<obj, pcb, slots, index, lwip, told, conns, data>>
  BY DEF Handle, shared
<1>2. PICK e \in AnEvent : e = Head(queue)
  BY <1>1, Taking DEF AllTyped
<1>3. queue' \in Seq(AnEvent) /\ Elems(queue) = Elems(queue') \cup {e}
  BY <1>1, <1>2, Taking DEF AllTyped
<1>4. /\ task' \in TaskStates /\ task'.ev = e /\ task'.at # "get"
      /\ task'.at \in {"accept", "app", "fin", "error", "purge"}
      /\ task'.at = "fin" <=> e.event = "FIN"
      /\ task'.at = "error" <=> e.event = "ERROR"
  <2> DEFINE at == CASE e.event = "ACCEPT" -> "accept"
                     [] e.event = "RECV" -> "app"
                     [] e.event = "FIN" -> "fin"
                     [] e.event = "ERROR" -> "error"
                     [] e.event = "CLEAR" -> "purge"
             more == e.event = "RECV"
  <2>1. task' = [TaskIdle EXCEPT !.ev = e, !.more = more, !.at = at]
    BY <1>2 DEF Handle
  <2>2. /\ at \in {"accept", "app", "fin", "error", "purge"}
        /\ at = "fin" <=> e.event = "FIN"
        /\ at = "error" <=> e.event = "ERROR"
    BY DEF AnEvent, Events
  <2>4. more \in BOOLEAN
    OBVIOUS
  <2> HIDE DEF at, more
  <2>3. e \in AnyEvent
    BY DEF AnyEvent, AnEvent
  <2> QED
    BY <2>1, <2>2, <2>3, <2>4, TaskStateIs DEF TaskStates, TaskPlaces
<1>5. OwnEvent(e) /\ e.arg \in Clients
  BY <1>3 DEF QueueOwn, AnEvent
<1>6. AllTyped' /\ Held'
  BY <1>1, <1>3, <1>4 DEF AllTyped, Held
<1>7. Alike
  BY <1>1, <1>3 DEF Alike
<1>8. TaskOwn'
  BY <1>1, <1>4, <1>5 DEF TaskOwn, OwnEvent, Made, Over, Ends, Parting, Leaving, This, ReadsStay
<1>9. lwip.at \in LwipFin => ~Harms(lwip.ev.arg)'
  <2> SUFFICES ASSUME lwip.at \in LwipFin, Harms(lwip.ev.arg)' PROVE FALSE
    OBVIOUS
  <2>1. Ends(e) /\ e.arg = lwip.ev.arg
    BY <1>1, <1>4 DEF Harms, Parting, Leaving, Ends
  <2> QED
    BY <1>3, <2>1 DEF LwipAlone, QueueEnds, EndIn
<1> QED
  BY <1>1, <1>4, <1>6, <1>7, <1>8, <1>9, AlikeKeeps DEF Leaving

\* It reads an argument of a call.
LEMMA OnceReads ==
  ASSUME OnceInv, ReadPcb \/ ReadSlot PROVE OnceInv'
<1> USE DEF OnceInv
<1>0. PICK a \in Clients : task.ev.arg = a
  BY AllFields DEF ReadPcb, ReadSlot
<1>1. /\ task.at = "call" /\ task \in TaskStates
      /\ UNCHANGED <<obj, pcb, slots, index, queue, lwip, told, conns, data>>
  BY DEF ReadPcb, ReadSlot, shared, AllTyped
<1>2. obj[a].pcb \in Pcbs \cup {NULL} /\ obj[a].slot \in 0..NumSlots
  BY AllFields
<1>3. /\ task' \in TaskStates /\ task'.at = task.at /\ task'.ev = task.ev /\ task'.op = task.op
      /\ \/ /\ task'.read = task.read \cup {"pcb"} /\ task'.pcb = obj[a].pcb
            /\ task'.slot = task.slot
         \/ /\ task'.read = task.read \cup {"slot"} /\ task'.pcb = task.pcb
            /\ task'.slot = obj[a].slot
  <2>1. CASE ReadPcb
    <3>1. task' = [task EXCEPT !.pcb = obj[a].pcb, !.read = task.read \cup {"pcb"}]
      BY <1>0, <2>1 DEF ReadPcb, This
    <3> QED
      BY <1>1, <1>2, <3>1 DEF TaskStates
  <2>2. CASE ReadSlot
    <3>1. task' = [task EXCEPT !.slot = obj[a].slot, !.read = task.read \cup {"slot"}]
      BY <1>0, <2>2 DEF ReadSlot, This
    <3> QED
      BY <1>1, <1>2, <3>1 DEF TaskStates
  <2> QED
    BY <2>1, <2>2
<1>4. AllTyped' /\ Held' /\ Alike
  BY <1>1, <1>3 DEF AllTyped, Held, Alike
<1>5. TaskOwn'
  <2>1. ReadsStay'
    BY <1>0, <1>1, <1>3 DEF TaskOwn, ReadsStay, This, Over
  <2> QED
    BY <1>1, <1>3, <2>1 DEF TaskOwn, Made, Over, Parting, Leaving
<1>6. lwip.at \in LwipFin => ~Harms(lwip.ev.arg)'
  <2> SUFFICES ASSUME lwip.at \in LwipFin, Harms(lwip.ev.arg)' PROVE FALSE
    OBVIOUS
  <2>1. lwip.ev.arg = a /\ "pcb" \in task'.read /\ task'.pcb = NULL
    BY <1>0, <1>1, <1>3 DEF Harms, Parting, Leaving
  <2>2. obj[a].pcb # NULL /\ ~Harms(a)
    BY <2>1 DEF LwipAlone
  <2> QED
    BY <1>0, <1>1, <1>3, <2>1, <2>2 DEF Harms
<1> QED
  BY <1>1, <1>3, <1>4, <1>5, <1>6, AlikeKeeps DEF Leaving

\* What AfterCall does, from objects that are as before but for their history.
LEMMA AfterCallIs ==
  ASSUME OnceInv, NEW ok \in BOOLEAN, NEW o \in [Clients -> Objects], AfterCall(ok, o),
         ArgumentsRead, NEW a \in Clients, task.ev.arg = a,
         \A c \in Clients : /\ o[c].live = obj[c].live /\ o[c].conn = obj[c].conn
                            /\ o[c].pcb = obj[c].pcb /\ o[c].slot = obj[c].slot
  PROVE  /\ task' \in TaskStates /\ task'.at \in {"get", "app", "close", "unlink", "abort"}
         /\ task'.at # "get" => task'.ev = task.ev
         /\ task'.at \in {"unlink", "abort"} => Over(a)
         /\ obj' \in [Clients -> Objects]
         /\ \A c \in Clients :
              /\ obj'[c].live = obj[c].live /\ obj'[c].conn = obj[c].conn
              /\ obj'[c].slot = obj[c].slot
              /\ obj'[c].pcb = IF c = a /\ task.op \in {"closeAbort", "abort"} THEN NULL
                               ELSE obj[c].pcb
<1> USE DEF OnceInv
<1>1. {"get", "app", "close", "unlink", "abort"} \subseteq TaskPlaces /\ task.at = "call"
  BY DEF TaskPlaces, ArgumentsRead
<1>2. PICK at \in {"get", "app", "close", "unlink", "abort"} :
        /\ Goto(at) \/ (at = "app" /\ NextBuf)
        /\ at \in {"unlink", "abort"} => task.op \in {"close", "closeAbort"}
        /\ IF task.op \in {"closeAbort", "abort"} THEN ClearPcb(o) ELSE obj' = o
  BY DEF AfterCall
<1>3. /\ task' \in TaskStates /\ (task'.at = at \/ task'.at \in {"get", "app"})
      /\ task'.at # "get" => task'.ev = task.ev
  <2>1. CASE Goto(at)
    BY <1>1, <2>1, GotoLeads
  <2>2. CASE NextBuf
    BY <1>1, <2>2, NextBufLeads
  <2> QED
    BY <1>2, <2>1, <2>2
<1>4. at \in {"unlink", "abort"} => Over(a)
  BY <1>1, <1>2 DEF TaskOwn
<1>5. /\ obj' \in [Clients -> Objects]
      /\ \A c \in Clients :
           /\ obj'[c].live = obj[c].live /\ obj'[c].conn = obj[c].conn
           /\ obj'[c].slot = obj[c].slot
           /\ obj'[c].pcb = IF c = a /\ task.op \in {"closeAbort", "abort"} THEN NULL
                            ELSE obj[c].pcb
  <2>1. CASE task.op \in {"closeAbort", "abort"}
    <3>1. obj' = [o EXCEPT ![a].pcb = NULL]
      BY <1>2, <2>1 DEF ClearPcb
    <3>2. /\ obj' \in [Clients -> Objects]
          /\ \A c \in Clients : /\ obj'[c].live = o[c].live /\ obj'[c].slot = o[c].slot
                                /\ obj'[c].conn = o[c].conn
                                /\ obj'[c].pcb = IF c = a THEN NULL ELSE o[c].pcb
      BY <3>1 DEF Objects
    <3> QED
      BY <2>1, <3>2
  <2>2. CASE task.op \notin {"closeAbort", "abort"}
    BY <1>2, <2>2
  <2> QED
    BY <2>1, <2>2
<1> QED
  BY <1>3, <1>4, <1>5

\* After a call.
LEMMA CallReturns ==
  ASSUME OnceInv, ArgumentsRead, NEW a \in Clients, task.ev.arg = a, AllTyped', Recedes,
         QueueGains, task'.at \in {"get", "app", "close", "unlink", "abort"},
         task'.at # "get" => task'.ev = task.ev, task'.at \in {"unlink", "abort"} => Over(a),
         \A c \in Clients : /\ obj'[c].live = obj[c].live /\ obj'[c].slot = obj[c].slot
                            /\ obj'[c].pcb = obj[c].pcb \/ c = a,
         UNCHANGED <<slots, lwip, told>>, lwip.at = "idle" \/ (task.pcb = NULL /\ queue' = queue)
  PROVE  OnceInv'
<1> USE DEF OnceInv
<1>1. task.at = "call" /\ task.read = {"pcb", "slot"} /\ Made(task.ev)
  BY DEF ArgumentsRead, TaskOwn
<1>2. Held'
  BY <1>1 DEF Held
<1>3. TaskOwn'
  <2>1. obj'[a].conn = task.ev.conn /\ (Over(a) => Over(a)')
    BY <1>1, RecedingKeeps DEF Made, Recedes
  <2> QED
    BY <2>1 DEF TaskOwn, Parting, Leaving, ReadsStay, Made
<1>4. ToldIsOver'
  BY <1>1 DEF ToldIsOver, Recedes
<1>5. SlotsExclusive'
  BY <1>1 DEF SlotsExclusive, Holds, Forgetting
<1>6. Spares
  <2> SUFFICES ASSUME lwip.at \in LwipFin PROVE Spares
    BY DEF Spares
  <2>1. lwip.ev.arg \in Clients /\ task.pcb = NULL /\ queue' = queue
    BY AllFields DEF LwipFin
  <2>2. lwip.ev.arg # a
    BY <1>1, <2>1 DEF LwipAlone, Harms
  <2>3. ~Harms(lwip.ev.arg)'
    BY <2>2 DEF Harms, Parting, Leaving
  <2>4. ~QueueEnds(lwip.ev.arg)'
    BY <2>1 DEF LwipAlone, QueueEnds
  <2> QED
    BY <2>1, <2>2, <2>3, <2>4 DEF Spares
<1> QED
  BY <1>2, <1>3, <1>4, <1>5, <1>6, TaskWorks

\* A call that does not enter the tcpip thread, or is refused there, loses a client its
\* _pcb only when that is gone or the client is over.
LEMMA OnceNoCall ==
  ASSUME OnceInv, CallNull \/ CallRefused PROVE OnceInv'
<1> USE DEF OnceInv
<1>0. PICK a \in Clients : task.ev.arg = a
  BY AllFields DEF CallNull, CallRefused, ArgumentsRead
<1>1. /\ ArgumentsRead /\ AfterCall(FALSE, obj)
      /\ task.at = "call" /\ task.read = {"pcb", "slot"}
      /\ UNCHANGED <<pcb, slots, index, queue, lwip, told, conns, data>>
  BY DEF CallNull, CallRefused, ArgumentsRead
<1>2. obj \in [Clients -> Objects]
  BY DEF AllTyped
<1>3. /\ task' \in TaskStates /\ task'.at \in {"get", "app", "close", "unlink", "abort"}
      /\ task'.at # "get" => task'.ev = task.ev
      /\ task'.at \in {"unlink", "abort"} => Over(a)
      /\ obj' \in [Clients -> Objects]
      /\ \A c \in Clients :
           /\ obj'[c].live = obj[c].live /\ obj'[c].conn = obj[c].conn
           /\ obj'[c].slot = obj[c].slot
           /\ obj'[c].pcb = IF c = a /\ task.op \in {"closeAbort", "abort"} THEN NULL
                            ELSE obj[c].pcb
  BY <1>0, <1>1, <1>2, AfterCallIs
<1>4. Over(a) \/ obj[a].pcb = NULL
  <2> SUFFICES ASSUME ~Over(a) PROVE obj[a].pcb = NULL
    OBVIOUS
  <2>1. task.pcb = obj[a].pcb /\ task.slot = obj[a].slot
    BY <1>0, <1>1 DEF TaskOwn, ReadsStay, This
  <2>2. lwip.at = "idle" /\ task.slot \in Slots => slots[task.slot] = 0
    <3>1. CASE lwip.at = "idle" /\ task.slot \in Slots
      BY <1>1, <2>1, <3>1 DEF SlotsExclusive, Holds, Forgetting
    <3> QED
      BY <3>1
  <2>3. task.slot # NoSlot => task.slot \in Slots
    BY AllFields, NumSlotsAssumption DEF Slots, NoSlot
  <2>4. ~CallRefused
    BY <2>2, <2>3 DEF CallRefused, SlotOpen
  <2> QED
    BY <2>1, <2>4 DEF CallNull
<1>5. Recedes
  <2>1. Over(a) => Over(a)'
    BY <1>1, <1>3 DEF Over
  <2> QED
    BY <1>1, <1>3, <1>4, <2>1 DEF Recedes, FreeHoldsNone, ConnsOnce
<1>6. AllTyped' /\ QueueGains
  BY <1>1, <1>3 DEF AllTyped, QueueGains
<1>7. lwip.at = "idle" \/ (task.pcb = NULL /\ queue' = queue)
  BY <1>1 DEF CallNull, CallRefused
<1> QED
  BY <1>0, <1>1, <1>3, <1>5, <1>6, <1>7, CallReturns

\* What a call that is served does to its pcb; the error of an abort is the end of a client
\* that is over with it.
LEMMA ServeIs ==
  ASSUME OnceInv, NEW ok \in BOOLEAN, Serve(ok), task.pcb \in Pcbs,
         \A c \in Clients : obj'[c].conn = obj[c].conn,
         NEW a \in Clients, task.ev.arg = a
  PROVE  /\ pcb' \in [Pcbs -> PcbRecords] /\ queue' \in Seq(AnEvent)
         /\ \A p \in Pcbs :
              /\ pcb'[p].arg = NULL \/ (pcb'[p].arg = pcb[p].arg /\ pcb'[p].conn = pcb[p].conn)
              /\ pcb'[p].state = "free" => pcb'[p].arg = NULL
              /\ p = task.pcb /\ task.op = "abort" => pcb'[p].arg = NULL
         /\ QueueGains
<1> USE DEF OnceInv
<1> DEFINE p == task.pcb
<1>t. pcb \in [Pcbs -> PcbRecords] /\ queue \in Seq(AnEvent)
  BY DEF AllTyped
<1>1. CASE /\ task.op = "close" /\ pcb' = [pcb EXCEPT ![p].state = "closed"] /\ UNCHANGED queue
  <2>1. /\ pcb' \in [Pcbs -> PcbRecords]
        /\ \A q \in Pcbs : pcb'[q].arg = pcb[q].arg /\ pcb'[q].conn = pcb[q].conn
                           /\ pcb'[q].state \in {"closed", pcb[q].state}
    BY <1>1, <1>t DEF PcbRecords
  <2>2. \A q \in Pcbs : pcb'[q].state = "free" => pcb'[q].arg = NULL
    BY <2>1 DEF FreeHoldsNone
  <2> QED
    BY <1>1, <1>t, <2>1, <2>2 DEF QueueGains
<1>2. CASE /\ pcb' = [pcb EXCEPT ![p] = FreePcb]
           /\ queue' = IF pcb[p].arg = NULL THEN queue
                       ELSE Append(queue, Event("ERROR", pcb[p].arg, pcb[p].conn))
  <2>1. /\ pcb' \in [Pcbs -> PcbRecords] /\ pcb'[p].arg = NULL
        /\ \A q \in Pcbs : q # p => pcb'[q] = pcb[q]
    BY <1>2, <1>t, BoundsAssumption DEF PcbRecords, FreePcb
  <2>2. \A q \in Pcbs : pcb'[q].state = "free" => pcb'[q].arg = NULL
    BY <2>1 DEF FreeHoldsNone
  <2>3. CASE pcb[p].arg = NULL
    BY <1>2, <1>t, <2>1, <2>2, <2>3 DEF QueueGains
  <2>4. CASE pcb[p].arg # NULL
    <3>1. PICK e \in AnEvent : e = Event("ERROR", pcb[p].arg, pcb[p].conn)
      BY <2>4, OwnCallback DEF Events
    <3>2. PICK b \in Clients : b = pcb[p].arg
      BY <2>4, OwnCallback DEF Events
    <3>3. e.event = "ERROR" /\ e.arg = b /\ e.conn = pcb[p].conn
      BY <3>1, <3>2 DEF Event
    <3>4. queue' = Append(queue, e)
      BY <1>2, <2>4, <3>1
    <3>5. queue' \in Seq(AnEvent) /\ Elems(queue') = Elems(queue) \cup {e}
      BY <1>t, <3>4, Appending
    <3>6. OwnEvent(e)'
      <4>1. \A q \in Pcbs : q # p => pcb[q].arg # b
        BY <2>4, <3>2, OwnCallback DEF Events
      <4>2. obj[b].conn = e.conn /\ obj[b].conn # 0
        BY <2>4, <3>2, <3>3 DEF ArgIsLiveOwner, ConnsOnce
      <4>3. Over(b)'
        BY <2>1, <4>1, <4>2, NullAssumption DEF Over
      <4> QED
        BY <3>3, <4>2, <4>3 DEF OwnEvent, Made
    <3> QED
      BY <2>1, <2>2, <3>5, <3>6 DEF QueueGains
  <2> QED
    BY <2>3, <2>4
<1>3. CASE UNCHANGED <<pcb, queue>> /\ (task.op = "abort" => pcb[p].state = "free")
  BY <1>3, <1>t DEF FreeHoldsNone, QueueGains
<1> QED
  BY <1>1, <1>2, <1>3 DEF Serve

LEMMA OnceCallServed ==
  ASSUME OnceInv, NEW ok \in BOOLEAN, CallServed(ok) PROVE OnceInv'
<1> USE DEF OnceInv
<1>0. PICK a \in Clients : task.ev.arg = a
  BY AllFields DEF CallServed, Serve, ArgumentsRead
<1>1. /\ ArgumentsRead /\ AfterCall(ok, Hits(task.pcb)) /\ Serve(ok) /\ lwip.at = "idle"
      /\ task.at = "call" /\ task.read = {"pcb", "slot"} /\ task.pcb \in Pcbs
      /\ UNCHANGED <<slots, index, lwip, told, conns, data>>
  BY AllFields DEF CallServed, Serve, ArgumentsRead
<1>2. /\ task' \in TaskStates /\ task'.at \in {"get", "app", "close", "unlink", "abort"}
      /\ task'.at # "get" => task'.ev = task.ev
      /\ task'.at \in {"unlink", "abort"} => Over(a)
      /\ obj' \in [Clients -> Objects]
      /\ \A c \in Clients :
           /\ obj'[c].live = obj[c].live /\ obj'[c].conn = obj[c].conn
           /\ obj'[c].slot = obj[c].slot
           /\ obj'[c].pcb = IF c = a /\ task.op \in {"closeAbort", "abort"} THEN NULL
                            ELSE obj[c].pcb
  <2> DEFINE h == Hits(task.pcb)
  <2>1. /\ h \in [Clients -> Objects]
        /\ \A c \in Clients : /\ h[c].live = obj[c].live /\ h[c].conn = obj[c].conn
                              /\ h[c].pcb = obj[c].pcb /\ h[c].slot = obj[c].slot
    BY HitsIs DEF AllTyped
  <2>2. AfterCall(ok, h)
    BY <1>1
  <2> HIDE DEF h
  <2> QED
    BY <1>0, <1>1, <2>1, <2>2, AfterCallIs
<1>3. /\ pcb' \in [Pcbs -> PcbRecords] /\ queue' \in Seq(AnEvent)
      /\ \A p \in Pcbs :
           /\ pcb'[p].arg = NULL \/ (pcb'[p].arg = pcb[p].arg /\ pcb'[p].conn = pcb[p].conn)
           /\ pcb'[p].state = "free" => pcb'[p].arg = NULL
           /\ p = task.pcb /\ task.op = "abort" => pcb'[p].arg = NULL
      /\ QueueGains
  BY <1>0, <1>1, <1>2, ServeIs
<1>4. task.op \in {"closeAbort", "abort"} => Over(a)'
  <2>1. obj[a].conn # 0
    BY <1>0, <1>1, AllFields DEF TaskOwn, Made
  <2>2. Over(a) => Over(a)'
    BY <1>2, <1>3, NullAssumption DEF Over
  <2>3. CASE task.op = "closeAbort"
    BY <1>0, <1>1, <2>2, <2>3 DEF TaskOwn
  <2>4. CASE task.op = "abort" /\ ~Over(a)
    <3>1. task.pcb = obj[a].pcb
      BY <1>0, <1>1, <2>4 DEF TaskOwn, ReadsStay, This
    <3>2. \A q \in Pcbs : pcb[q].arg = a => q = task.pcb
      BY <3>1, NullAssumption DEF ArgIsLiveOwner
    <3> QED
      BY <1>2, <1>3, <2>1, <2>4, <3>2, NullAssumption DEF Over
  <2> QED
    BY <2>2, <2>3, <2>4
<1>5. Recedes
  BY <1>1, <1>2, <1>3, <1>4 DEF Recedes, ConnsOnce
<1>6. AllTyped'
  BY <1>1, <1>2, <1>3 DEF AllTyped
<1> QED
  BY <1>0, <1>1, <1>2, <1>3, <1>5, <1>6, CallReturns

\* _close takes its pcb away from LwIP: the client is over.
LEMMA OnceDetach ==
  ASSUME OnceInv, CloseDetach PROVE OnceInv'
<1> USE DEF OnceInv
<1>0. PICK a \in Clients : task.ev.arg = a
  BY AllFields DEF CloseDetach
<1>1. /\ task.at = "detach" /\ task.ev \in AnEvent /\ obj[a].conn = task.ev.conn
      /\ obj[a].conn # 0 /\ UNCHANGED <<slots, index, lwip, told, conns, data>>
  <2>1. task.at = "detach"
    BY DEF CloseDetach
  <2> QED
    BY <1>0, <2>1, AllFields DEF CloseDetach, Held, TaskOwn, Made
<1>o. /\ obj' \in [Clients -> Objects]
      /\ \A c \in Clients : /\ obj'[c].live = obj[c].live /\ obj'[c].conn = obj[c].conn
                            /\ obj'[c].pcb = obj[c].pcb /\ obj'[c].slot = obj[c].slot
  BY <1>0, HitsIs DEF CloseDetach, This, AllTyped
<1>2. PICK e \in AnEvent : e = Event("CLEAR", a, task.ev.conn)
  <2>1. Event("CLEAR", a, task.ev.conn) \in AnEvent
    BY <1>1, BoundsAssumption DEF Event, AnEvent, Events
  <2> QED
    BY <2>1
<1>3. e.event = "CLEAR" /\ e.arg = a /\ e.conn = task.ev.conn
  BY <1>2 DEF Event
<1>4. queue' \in Seq(AnEvent) /\ Elems(queue') = Elems(queue) \cup {e}
  <2>1. queue' = <<e>> \o queue
    BY <1>0, <1>2 DEF CloseDetach, Prepend
  <2> QED
    BY <2>1, Prepending DEF AllTyped
<1>5. /\ task' \in TaskStates /\ task'.at = "call" /\ task'.ev = task.ev /\ task'.op = "close"
      /\ task'.read = {}
  BY CallLeads DEF CloseDetach, Ops
<1>6. /\ pcb' \in [Pcbs -> PcbRecords]
      /\ \A q \in Pcbs : /\ pcb'[q].state = pcb[q].state /\ pcb'[q].conn = pcb[q].conn
                         /\ pcb'[q].arg = IF q = obj[a].pcb THEN NULL ELSE pcb[q].arg
  <2>1. pcb' = IF obj[a].pcb = NULL THEN pcb ELSE [pcb EXCEPT ![obj[a].pcb].arg = NULL]
    BY <1>0 DEF CloseDetach, This
  <2>2. obj[a].pcb \in Pcbs \cup {NULL}
    BY AllFields
  <2> QED
    BY <2>1, <2>2, NullAssumption DEF AllTyped, PcbRecords
<1>7. Over(a)'
  <2>1. \A q \in Pcbs : pcb[q].arg = a => q = obj[a].pcb
    BY NullAssumption DEF ArgIsLiveOwner
  <2> QED
    BY <1>1, <1>o, <1>6, <2>1, NullAssumption DEF Over
<1>b. SlotsExclusive'
  BY <1>1, <1>o, <1>5 DEF SlotsExclusive, Holds, Forgetting
<1>8. Recedes
  BY <1>1, <1>o, <1>6 DEF Recedes, FreeHoldsNone, ConnsOnce
<1>9. QueueGains
  BY <1>1, <1>o, <1>3, <1>4 DEF QueueGains, OwnEvent, Made, Ends
<1>10. AllTyped' /\ Held'
  BY <1>1, <1>o, <1>4, <1>5, <1>6 DEF AllTyped, Held
<1>11. TaskOwn' /\ ToldIsOver'
  BY <1>0, <1>1, <1>o, <1>5, <1>7 DEF TaskOwn, Made, Parting, Leaving, ReadsStay, ToldIsOver
<1>12. Spares
  <2> SUFFICES ASSUME lwip.at \in LwipFin PROVE Spares
    BY DEF Spares
  <2>1. ~QueueEnds(lwip.ev.arg)'
    BY <1>1, <1>3, <1>4 DEF LwipAlone, QueueEnds, EndIn, Ends
  <2>2. ~Harms(lwip.ev.arg)'
    BY <1>5 DEF Harms, Parting, Leaving
  <2> QED
    BY <1>1, <1>o, <2>1, <2>2, AllFields DEF Spares, LwipFin
<1> QED
  BY <1>1, <1>b, <1>8, <1>9, <1>10, <1>11, <1>12, TaskWorks

\* The disconnect callback of a client that is over, or none.
LEMMA DiscardedOnce ==
  ASSUME OnceInv, NEW a \in Clients, task.ev.arg = a, Discarded,
         task.at \in {"fin", "error", "unlink"}
  PROVE  /\ task' \in TaskStates /\ told' \subseteq 1..MaxConns /\ \A n \in told' : n <= conns
         /\ \/ /\ task'.at = "freeSlot" /\ task'.ev = task.ev /\ told' = told \cup {obj[a].conn}
            \/ task'.at = "get" /\ told' = told
<1> USE DEF OnceInv
<1>1. obj[a].conn \in 1..MaxConns /\ obj[a].conn <= conns
  BY AllFields DEF TaskOwn, Made, ConnsOnce
<1>2. CASE This.ready
  <2>1. told' = told \cup {obj[a].conn} /\ Goto("freeSlot")
    BY <1>2 DEF Discarded, This
  <2>2. task' \in TaskStates /\ task'.at = "freeSlot" /\ task'.ev = task.ev
    BY <2>1, GotoLeads DEF TaskPlaces
  <2> QED
    BY <1>1, <2>1, <2>2 DEF AllTyped, ConnsOnce
<1>3. CASE ~This.ready
  <2>1. told' = told /\ Goto("get")
    BY <1>3 DEF Discarded
  <2>2. task' \in TaskStates /\ task'.at = "get"
    BY <2>1, GotoLeads DEF TaskPlaces
  <2> QED
    BY <2>1, <2>2 DEF AllTyped, ConnsOnce
<1> QED
  BY <1>2, <1>3

\* The end of a client: of an event, or of close().
LEMMA EndKeeps ==
  ASSUME OnceInv, NEW a \in Clients, task.ev.arg = a, task.at \in {"fin", "error", "unlink"},
         Discarded, Recedes, QueueGains, UNCHANGED <<slots, index, lwip, data>>,
         obj' \in [Clients -> Objects], pcb' \in [Pcbs -> PcbRecords], queue' \in Seq(AnEvent),
         \A c \in Clients : /\ obj'[c].live = obj[c].live /\ obj'[c].slot = obj[c].slot
                            /\ obj'[c].pcb = IF c = a THEN NULL ELSE obj[c].pcb,
         \A e \in Elems(queue') : e \in Elems(queue) \/ ~Ends(e)
  PROVE  OnceInv'
<1> USE DEF OnceInv
<1>1. AllTyped' /\ Held'
  BY DiscardedOnce DEF AllTyped, Held, Recedes
<1>2. TaskOwn'
  <2>1. obj'[a].conn = task.ev.conn /\ obj'[a].pcb = NULL /\ Over(a)'
    BY RecedingKeeps DEF TaskOwn, Made, Recedes, Parting
  <2> QED
    BY <2>1, DiscardedOnce DEF TaskOwn, Made, Parting, Leaving, This, ReadsStay
<1>3. ToldIsOver'
  <2> SUFFICES ASSUME NEW c \in Clients, obj'[c].live, obj'[c].conn \in told'
               PROVE  task'.at \in Leaving /\ task'.ev.arg = c
    BY DEF ToldIsOver, Leaving
  <2>1. obj[c].live /\ obj[c].conn \in told'
    BY DEF Recedes
  <2>2. obj[c].conn \notin told
    BY <2>1 DEF ToldIsOver
  <2>3. obj[c].conn = obj[a].conn /\ task'.at = "freeSlot" /\ task'.ev = task.ev
    BY <2>1, <2>2, DiscardedOnce
  <2>4. obj[a].conn # 0
    BY DEF TaskOwn, Over, Parting
  <2> QED
    BY <2>3, <2>4 DEF ConnsOnce, Leaving
<1>4. SlotsExclusive'
  BY DiscardedOnce DEF SlotsExclusive, Holds, Forgetting
<1>5. Spares
  <2> SUFFICES ASSUME lwip.at \in LwipFin PROVE Spares
    BY DEF Spares
  <2>1. lwip.ev.arg # a /\ lwip.ev.arg \in Clients
    BY AllFields DEF LwipAlone, Harms, Parting, LwipFin
  <2>2. ~QueueEnds(lwip.ev.arg)'
    BY DEF LwipAlone, QueueEnds, EndIn
  <2>3. ~Harms(lwip.ev.arg)'
    BY <2>1, DiscardedOnce DEF Harms, Parting, Leaving
  <2> QED
    BY <2>1, <2>2, <2>3 DEF Spares
<1> QED
  BY <1>1, <1>2, <1>3, <1>4, <1>5, TaskWorks

LEMMA OnceFin ==
  ASSUME OnceInv, Fin PROVE OnceInv'
<1> USE DEF OnceInv
<1>0. PICK a \in Clients : task.ev.arg = a
  BY AllFields DEF Fin
<1>1. /\ task.at = "fin" /\ task.ev \in AnEvent /\ Discarded
      /\ UNCHANGED <<obj, pcb, slots, index, lwip, conns, data>>
      /\ obj[a].conn = task.ev.conn /\ obj[a].pcb = NULL
  BY <1>0 DEF Fin, Held, shared, TaskOwn, Made, This
<1>2. PICK e \in AnEvent : e = Event("CLEAR", a, task.ev.conn)
  <2>1. Event("CLEAR", a, task.ev.conn) \in AnEvent
    BY <1>1, BoundsAssumption DEF Event, AnEvent, Events
  <2> QED
    BY <2>1
<1>3. e.event = "CLEAR" /\ e.arg = a /\ e.conn = task.ev.conn
  BY <1>2 DEF Event
<1>4. queue' \in Seq(AnEvent) /\ Elems(queue') = Elems(queue) \cup {e}
  <2>1. queue' = <<e>> \o queue
    BY <1>0, <1>2 DEF Fin, Prepend
  <2> QED
    BY <2>1, Prepending DEF AllTyped
<1>5. Recedes
  BY <1>0, <1>1, DiscardedOnce DEF Recedes, FreeHoldsNone
<1>6. QueueGains /\ \A x \in Elems(queue') : x \in Elems(queue) \/ ~Ends(x)
  BY <1>1, <1>3, <1>4 DEF QueueGains, OwnEvent, Made, Ends
<1>7. obj \in [Clients -> Objects] /\ pcb \in [Pcbs -> PcbRecords]
  BY DEF AllTyped
<1> QED
  BY <1>0, <1>1, <1>4, <1>5, <1>6, <1>7, EndKeeps

LEMMA OnceDiscard ==
  ASSUME OnceInv, CloseDiscard PROVE OnceInv'
<1> USE DEF OnceInv
<1>0. PICK a \in Clients : task.ev.arg = a
  BY AllFields DEF CloseDiscard
<1>1. /\ task.at = "unlink" /\ Discarded /\ Over(a) /\ obj' = [obj EXCEPT ![a].pcb = NULL]
      /\ UNCHANGED <<pcb, slots, index, queue, lwip, conns, data>>
  BY <1>0 DEF CloseDiscard, ClearPcb, TaskOwn, Parting
<1>2. /\ obj' \in [Clients -> Objects]
      /\ \A c \in Clients : /\ obj'[c].live = obj[c].live /\ obj'[c].slot = obj[c].slot
                            /\ obj'[c].conn = obj[c].conn
                            /\ obj'[c].pcb = IF c = a THEN NULL ELSE obj[c].pcb
  BY <1>1, PcbForgotten DEF AllTyped
<1>3. Over(a)'
  BY <1>1, <1>2 DEF Over
<1>4. Recedes /\ QueueGains
  BY <1>0, <1>1, <1>2, <1>3, DiscardedOnce DEF Recedes, FreeHoldsNone, QueueGains
<1>5. pcb \in [Pcbs -> PcbRecords] /\ queue \in Seq(AnEvent)
  BY DEF AllTyped
<1> QED
  BY <1>0, <1>1, <1>2, <1>4, <1>5, EndKeeps

\* The pcb that _error detaches may be another client's by now.
LEMMA OnceError ==
  ASSUME OnceInv, Error PROVE OnceInv'
<1> USE DEF OnceInv
<1>0. PICK a \in Clients : task.ev.arg = a
  BY AllFields DEF Error
<1>1. /\ task.at = "error" /\ Discarded /\ Over(a)
      /\ obj' = [Hits(obj[a].pcb) EXCEPT ![a].pcb = NULL]
      /\ UNCHANGED <<slots, index, queue, lwip, conns, data>>
  BY <1>0 DEF Error, ClearPcb, TaskOwn, Parting, This
<1>2. /\ obj' \in [Clients -> Objects]
      /\ \A c \in Clients : /\ obj'[c].live = obj[c].live /\ obj'[c].slot = obj[c].slot
                            /\ obj'[c].conn = obj[c].conn
                            /\ obj'[c].pcb = IF c = a THEN NULL ELSE obj[c].pcb
  BY <1>1, PcbLost DEF AllTyped
<1>3. /\ pcb' \in [Pcbs -> PcbRecords]
      /\ \A q \in Pcbs : /\ pcb'[q].state = pcb[q].state /\ pcb'[q].conn = pcb[q].conn
                         /\ pcb'[q].arg = IF q = obj[a].pcb THEN NULL ELSE pcb[q].arg
  <2>1. pcb' = IF obj[a].pcb = NULL THEN pcb ELSE [pcb EXCEPT ![obj[a].pcb].arg = NULL]
    BY <1>0 DEF Error, This
  <2>2. obj[a].pcb \in Pcbs \cup {NULL}
    BY AllFields
  <2> QED
    BY <2>1, <2>2, NullAssumption DEF AllTyped, PcbRecords
<1>4. Over(a)'
  BY <1>1, <1>2, <1>3, NullAssumption DEF Over
<1>5. Recedes /\ QueueGains
  BY <1>0, <1>1, <1>2, <1>3, <1>4, DiscardedOnce DEF Recedes, FreeHoldsNone, QueueGains
<1>6. queue \in Seq(AnEvent)
  BY DEF AllTyped
<1> QED
  BY <1>0, <1>1, <1>2, <1>3, <1>5, <1>6, EndKeeps

\* The destructor frees the slot, if _lwip_fin has not, and the object is gone.
LEMMA OnceDeleteFreeSlot ==
  ASSUME OnceInv, DeleteFreeSlot PROVE OnceInv'
<1> USE DEF OnceInv
<1>0. PICK a \in Clients : task.ev.arg = a
  BY AllFields DEF DeleteFreeSlot
<1>1. /\ task.at = "freeSlot" /\ GiveSlotBack(a) /\ Over(a) /\ obj[a].pcb = NULL
      /\ obj[a].conn = task.ev.conn
      /\ UNCHANGED <<obj, pcb, index, queue, lwip, told, conns, data>>
  BY <1>0 DEF DeleteFreeSlot, TaskOwn, Parting, Leaving, This, Made
<1>2. /\ task' \in TaskStates /\ task'.at \in {"delete", "forget"} /\ task'.ev = task.ev
      /\ task'.at = IF obj[a].slot = NoSlot THEN "delete" ELSE "forget"
  <2> DEFINE at == IF This.slot = NoSlot THEN "delete" ELSE "forget"
  <2>1. Goto(at) /\ at = IF obj[a].slot = NoSlot THEN "delete" ELSE "forget"
    BY <1>0 DEF DeleteFreeSlot, This
  <2>2. at \in TaskPlaces /\ at \in {"delete", "forget"}
    BY DEF TaskPlaces
  <2> HIDE DEF at
  <2> QED
    BY <2>1, <2>2, GotoLeads
<1>3. lwip.at \in LwipFin => lwip.ev.arg # a /\ lwip.ev.arg \in Clients
  BY <1>0, <1>1, AllFields DEF LwipAlone, Harms, Parting, Leaving, LwipFin
<1>4. slots' \in [Slots -> Nat] /\ SlotsExclusive'
  <2>1. /\ ~Forgetting(a) /\ (obj[a].slot # NoSlot => Forgetting(a)')
        /\ \A c \in Clients : c # a => (Forgetting(c)' <=> Forgetting(c))
    BY <1>0, <1>1, <1>2, <1>3 DEF Forgetting, LwipFin
  <2> QED
    BY <1>1, <2>1, SlotGiven DEF AllTyped
<1>5. AllTyped' /\ Held' /\ Recedes /\ QueueGains
  BY <1>1, <1>2, <1>4 DEF AllTyped, Held, Recedes, FreeHoldsNone, ConnsOnce, QueueGains
<1>6. TaskOwn' /\ ToldIsOver'
  BY <1>0, <1>1, <1>2 DEF TaskOwn, Made, Over, Parting, Leaving, This, ReadsStay, ToldIsOver
<1>7. Spares
  <2> SUFFICES ASSUME lwip.at \in LwipFin PROVE Spares
    BY DEF Spares
  <2>1. ~QueueEnds(lwip.ev.arg)'
    BY <1>1 DEF LwipAlone, QueueEnds
  <2>2. ~Harms(lwip.ev.arg)'
    BY <1>0, <1>1, <1>2, <1>3 DEF Harms
  <2> QED
    BY <1>1, <2>1, <2>2 DEF Spares
<1> QED
  BY <1>1, <1>4, <1>5, <1>6, <1>7, TaskWorks

LEMMA OnceDeleteForget ==
  ASSUME OnceInv, DeleteForget PROVE OnceInv'
<1> USE DEF OnceInv
<1>0. PICK a \in Clients : task.ev.arg = a
  BY AllFields DEF DeleteForget
<1>1. /\ task.at = "forget" /\ ForgetSlot(a) /\ Over(a) /\ obj[a].pcb = NULL
      /\ obj[a].conn = task.ev.conn
      /\ UNCHANGED <<pcb, slots, index, queue, lwip, told, conns, data>>
  BY <1>0 DEF DeleteForget, TaskOwn, Parting, Leaving, This, Made
<1>2. task' \in TaskStates /\ task'.at = "load" /\ task'.ev = task.ev
  BY GotoLeads DEF DeleteForget, TaskPlaces
<1>3. /\ obj' \in [Clients -> Objects]
      /\ \A c \in Clients : /\ obj'[c].live = obj[c].live /\ obj'[c].pcb = obj[c].pcb
                            /\ obj'[c].conn = obj[c].conn
      /\ SlotsExclusive' /\ Recedes
  <2>1. /\ Forgetting(a) /\ \A c \in Clients : c # a => (Forgetting(c)' <=> Forgetting(c))
    BY <1>0, <1>1, <1>2 DEF Forgetting
  <2> QED
    BY <1>1, <2>1, SlotRecedes
<1>4. Over(a)'
  BY <1>1, <1>3, RecedingKeeps
<1>5. AllTyped' /\ Held' /\ QueueGains
  BY <1>1, <1>2, <1>3 DEF AllTyped, Held, QueueGains
<1>6. TaskOwn' /\ ToldIsOver'
  BY <1>0, <1>1, <1>2, <1>3, <1>4 DEF TaskOwn, Made, Parting, Leaving, This, ReadsStay, ToldIsOver
<1>7. Spares
  <2> SUFFICES ASSUME lwip.at \in LwipFin PROVE Spares
    BY DEF Spares
  <2>1. lwip.ev.arg # a /\ lwip.ev.arg \in Clients
    BY <1>0, <1>1, AllFields DEF LwipAlone, Harms, Parting, Leaving, LwipFin
  <2>2. ~QueueEnds(lwip.ev.arg)'
    BY <1>1 DEF LwipAlone, QueueEnds
  <2>3. ~Harms(lwip.ev.arg)'
    BY <1>0, <1>1, <1>2, <2>1 DEF Harms
  <2> QED
    BY <1>3, <2>1, <2>2, <2>3 DEF Spares
<1> QED
  BY <1>1, <1>3, <1>5, <1>6, <1>7, TaskWorks

LEMMA OnceDelete ==
  ASSUME OnceInv, Delete PROVE OnceInv'
<1> USE DEF OnceInv
<1>0. PICK a \in Clients : task.ev.arg = a
  BY AllFields DEF Delete
<1>1. /\ task.at = "delete" /\ (Goto("get") \/ Goto("deleted")) /\ Over(a) /\ obj[a].pcb = NULL
      /\ obj' = [obj EXCEPT ![a].live = FALSE, ![a].hit = FALSE]
      /\ UNCHANGED <<pcb, slots, index, queue, lwip, told, conns, data>>
  BY <1>0 DEF Delete, TaskOwn, Parting, Leaving, This
<1>2. /\ task' \in TaskStates /\ task'.at \in {"get", "deleted"}
      /\ task'.at # "get" => task'.ev = task.ev
  BY <1>1, GotoLeads DEF TaskPlaces
<1>3. /\ obj' \in [Clients -> Objects]
      /\ \A c \in Clients : /\ obj'[c].live = IF c = a THEN FALSE ELSE obj[c].live
                            /\ obj'[c].pcb = obj[c].pcb
                            /\ obj'[c].conn = obj[c].conn /\ obj'[c].slot = obj[c].slot
  <2> DEFINE r == [obj[a] EXCEPT !.live = FALSE, !.hit = FALSE]
  <2>1. obj' = [obj EXCEPT ![a] = r]
    BY <1>1, ZenonT(30) DEF AllTyped
  <2>2. obj[a] \in Objects /\ \A c \in Clients : obj[c].live \in BOOLEAN
    BY AllFields DEF AllTyped
  <2>3. /\ r \in Objects /\ r.live = FALSE /\ r.pcb = obj[a].pcb /\ r.conn = obj[a].conn
        /\ r.slot = obj[a].slot
    BY <2>2 DEF Objects
  <2> HIDE DEF r
  <2> QED
    BY <2>1, <2>2, <2>3 DEF AllTyped
<1>4. Over(a)'
  BY <1>1, <1>3 DEF Over
<1>5. Recedes /\ QueueGains /\ SlotsExclusive'
  <2>1. Recedes
    BY <1>1, <1>3, <1>4 DEF Recedes, FreeHoldsNone, ConnsOnce
  <2>2. SlotsExclusive'
    BY <1>1, <1>2, <1>3 DEF SlotsExclusive, Holds, Forgetting
  <2> QED
    BY <1>1, <2>1, <2>2 DEF QueueGains
<1>6. AllTyped' /\ Held'
  BY <1>1, <1>2, <1>3 DEF AllTyped, Held
<1>7. TaskOwn' /\ ToldIsOver'
  BY <1>0, <1>1, <1>2, <1>3 DEF TaskOwn, Made, This, Parting, Leaving, ReadsStay, ToldIsOver
<1>8. Spares
  <2> SUFFICES ASSUME lwip.at \in LwipFin PROVE Spares
    BY DEF Spares
  <2>1. lwip.ev.arg # a /\ lwip.ev.arg \in Clients
    BY <1>0, <1>1, AllFields DEF LwipAlone, Harms, Parting, Leaving, LwipFin
  <2>2. ~QueueEnds(lwip.ev.arg)' /\ ~Harms(lwip.ev.arg)'
    BY <1>1, <1>2 DEF LwipAlone, QueueEnds, Harms, Parting, Leaving
  <2> QED
    BY <1>3, <2>1, <2>2 DEF Spares
<1> QED
  BY <1>1, <1>5, <1>6, <1>7, <1>8, TaskWorks

LEMMA OnceInit == Init => OnceInv
<1> SUFFICES ASSUME Init PROVE OnceInv
  OBVIOUS
<1>1. /\ \A c \in Clients : ~obj[c].live /\ obj[c].slot = NoSlot /\ obj[c].conn = 0
      /\ \A p \in Pcbs : pcb[p].arg = NULL
      /\ queue = <<>> /\ lwip.at = "idle" /\ task.at = "get" /\ told = {} /\ conns = 0
      /\ \A s \in Slots : slots[s] = 1
  BY DEF Init, FreePcb, LwipIdle, TaskIdle
<1>2. Typed /\ Held
  BY InitInv DEF Inv
<1>3. AllTyped
  BY <1>2, TaskStateIs DEF Typed, AllTyped, Init
<1>4. Elems(queue) = {}
  BY <1>1 DEF Elems
<1>5. ConnsOnce /\ QueueOwn /\ LwipOwn /\ LwipAlone /\ FreeHoldsNone /\ ToldIsOver
  BY <1>1, <1>4 DEF ConnsOnce, QueueOwn, LwipOwn, LwipAlone, LwipFin, FreeHoldsNone, ToldIsOver
<1>6. TaskOwn
  BY <1>1 DEF TaskOwn, Parting, Leaving, ReadsStay
<1>7. SlotsExclusive /\ ArgIsLiveOwner
  BY InitInv DEF Inv
<1> QED
  BY <1>2, <1>3, <1>5, <1>6, <1>7 DEF OnceInv

\* Every step of either thread keeps the invariant.
LEMMA OnceNext ==
  ASSUME ~Reuse, OnceInv, [Next]_vars PROVE OnceInv'
<1>1. CASE UNCHANGED vars
  BY <1>1 DEF vars, shared, OnceInv, AllTyped, Held, ConnsOnce, QueueOwn, OwnEvent, Made, Over,
              LwipOwn, TaskOwn, This, ReadsStay, LwipAlone, QueueEnds, Harms, FreeHoldsNone,
              ToldIsOver, SlotsExclusive, Holds, Forgetting, ArgIsLiveOwner
<1>2. ASSUME NEW p \in Pcbs, NEW c \in Clients, Accept(c, p) PROVE OnceInv'
  BY <1>2, OnceAccept
<1>3. ASSUME NEW p \in Pcbs, Callback(p) \/ Reset(p) \/ RemoteFin(p) \/ PcbGone(p) PROVE OnceInv'
  BY <1>3, OnceCallback, OnceReset, OnceRemoteFin, OncePcbGone
<1>4. CASE LwipStep
  BY <1>4, OnceFinClose, OnceFinFreeSlot, OnceFinForget, OnceFinLoad, OnceFinCount, OnceFinNullPcb,
          OnceLwipSend
     DEF LwipStep
<1>5. CASE TaskStep
  BY <1>5, OnceHandle, OnceReads, OnceStays, OnceNoCall, OnceCallServed, OnceDetach, OnceDiscard,
     OnceFin, OnceError, OnceDeleteFreeSlot, OnceDeleteForget, OnceDelete DEF TaskStep
<1> QED
  BY <1>1, <1>2, <1>3, <1>4, <1>5 DEF Next

\* The invariant holds of every behaviour in which no address is handed out again.
THEOREM SpecOnceInv == ASSUME ~Reuse PROVE Spec => []OnceInv
<1>1. OnceInv /\ [Next]_vars => OnceInv'
  BY OnceNext
<1> QED
  BY OnceInit, <1>1, PTL DEF Spec
-----------------------------------------------------------------------------
(***************************************************************************)
(* Calls on the pcb of another connection.  A client that holds a slot and *)
(* is over, its _pcb not yet cleared, is one that such a call needs: each  *)
(* got there in a way that StrayCallsExplained names.                      *)
(***************************************************************************)

\* The task has detached the client's pcb in _close, or is to handle its error.
Parts(c) == /\ task.ev.arg = c
            /\ \/ task.at \in {"error", "abort", "unlink"}
               \/ task.at = "call" /\ task.op \in {"close", "closeAbort"}
ErrorOf(e, c) == e.event = "ERROR" /\ e.arg = c
ErrorComes(c) ==
  \/ \E e \in Elems(queue) : ErrorOf(e, c)
  \/ lwip.at = "send" /\ ErrorOf(lwip.ev, c)
Lost(c) == Over(c) /\ obj[c].slot # NoSlot /\ obj[c].pcb # NULL
Known(c) == \/ obj[c].hit \/ ErrorComes(c) \/ Parts(c)
            \/ lwip.at \in {"freeSlot", "forget"} /\ lwip.ev.arg = c
LostKnown == \A c \in Clients : Lost(c) => Known(c)
\* LwIP closes no pcb that has its client: a call of another client did.
ClosedHit == \A p \in Pcbs : pcb[p].state = "closed" /\ pcb[p].arg # NULL => obj[pcb[p].arg].hit
\* Errors are purged for clients without a _pcb only.
Cleared(e) == e.event = "CLEAR" => obj[e.arg].pcb = NULL \/ Parts(e.arg)
PurgesEnded ==
  /\ \A e \in Elems(queue) : Cleared(e)
  /\ lwip.at = "send" => lwip.ev.event # "CLEAR"
  /\ task.at = "purge" => This.pcb = NULL
\* The pcb a call has read is still the client's while that holds its slot; the one
\* _lwip_fin is called for has no other client.
PcbStays ==
  /\ task.at = "call" /\ "pcb" \in task.read /\ This.slot # NoSlot => task.pcb = This.pcb
  /\ lwip.at \in {"load", "count", "nullPcb"} => obj[lwip.ev.arg].slot = NoSlot
  /\ lwip.at = "fin" => pcb[lwip.pcb].arg \in {lwip.ev.arg, NULL}
StrayInv == OnceInv /\ LostKnown /\ ClosedHit /\ PurgesEnded /\ PcbStays

\* A step that gives no client a slot or a pcb, and forgets no reach of a pcb a client has.
Mild == \A c \in Clients : /\ obj'[c].conn = obj[c].conn
                           /\ obj'[c].slot = obj[c].slot \/ obj'[c].slot = NoSlot
                           /\ obj'[c].pcb = obj[c].pcb \/ obj'[c].pcb = NULL
                           /\ obj[c].hit => obj'[c].hit \/ obj'[c].pcb = NULL

\* What a step owes to the clients: one that it makes lost is known, and one that
\* was known still is.
Accounts ==
  \A c \in Clients : obj'[c].pcb # NULL /\ obj'[c].slot # NoSlot =>
    /\ Over(c)' /\ ~Over(c) => Known(c)'
    /\ ErrorComes(c) => Known(c)'
    /\ Parts(c) => Known(c)'
    /\ lwip.at \in {"freeSlot", "forget"} /\ lwip.ev.arg = c => Known(c)'
LEMMA AccountsKeep ==
  ASSUME LostKnown, Mild, Accounts PROVE LostKnown'
<1> SUFFICES ASSUME NEW c \in Clients, Lost(c)' PROVE Known(c)'
  BY DEF LostKnown
<1>1. obj'[c].pcb # NULL /\ obj'[c].slot # NoSlot /\ Over(c)'
  BY DEF Lost
<1>2. Over(c) => Known(c)
  BY <1>1 DEF Mild, LostKnown, Lost
<1>3. obj[c].hit => Known(c)'
  BY <1>1 DEF Mild, Known
<1> QED
  BY <1>1, <1>2, <1>3 DEF Accounts, Known

\* A step of the tcpip thread, which ends or purges nothing.
LEMMA LwipMild ==
  ASSUME StrayInv, Mild, Accounts, task' = task, lwip'.at = "send" => lwip'.ev.event # "CLEAR",
         \A e \in Elems(queue') : e \in Elems(queue) \/ e.event # "CLEAR",
         \A p \in Pcbs : pcb'[p].state = "closed" /\ pcb'[p].arg # NULL =>
           pcb[p].state = "closed" /\ pcb'[p].arg = pcb[p].arg /\ obj'[pcb[p].arg] = obj[pcb[p].arg],
         lwip'.at \in {"load", "count", "nullPcb"} => obj'[lwip'.ev.arg].slot = NoSlot,
         lwip'.at = "fin" => pcb'[lwip'.pcb].arg = lwip'.ev.arg,
         \A c \in Clients : obj'[c].slot # NoSlot => obj'[c].pcb = obj[c].pcb
  PROVE  LostKnown' /\ ClosedHit' /\ PurgesEnded' /\ PcbStays'
<1> USE DEF StrayInv
<1>1. LostKnown'
  BY AccountsKeep
<1>2. ClosedHit'
  BY DEF ClosedHit
<1>3. task.at # "get" => task.ev.arg \in Clients
  BY AllFields DEF OnceInv
<1>4. PurgesEnded'
  <2>1. ASSUME NEW e \in Elems(queue), e.arg \in Clients PROVE Cleared(e)'
    BY <2>1 DEF PurgesEnded, Cleared, Mild, Parts
  <2>2. \A e \in Elems(queue) : e.arg \in Clients
    BY AllFields DEF OnceInv
  <2>3. task.at = "purge" => This'.pcb = NULL
    BY <1>3 DEF PurgesEnded, Mild, This
  <2> QED
    BY <2>1, <2>2, <2>3 DEF PurgesEnded, Cleared
<1>5. PcbStays'
  BY <1>3 DEF PcbStays, Mild, This
<1> QED
  BY <1>1, <1>2, <1>4, <1>5

\* A step of the task.
LEMMA TaskMild ==
  ASSUME StrayInv, Mild, Accounts, lwip' = lwip,
         \A p \in Pcbs : pcb'[p].arg \in {pcb[p].arg, NULL},
         \A p \in Pcbs : pcb'[p].state = "closed" /\ pcb'[p].arg # NULL => obj'[pcb'[p].arg].hit,
         \A e \in Elems(queue') : e \in Elems(queue) \/ Cleared(e)',
         \A c \in Clients : Parts(c) => Parts(c)' \/ obj'[c].pcb = NULL,
         task'.at = "purge" => This'.pcb = NULL,
         task'.at = "call" /\ "pcb" \in task'.read /\ This'.slot # NoSlot => task'.pcb = This'.pcb
  PROVE  LostKnown' /\ ClosedHit' /\ PurgesEnded' /\ PcbStays'
<1> USE DEF StrayInv
<1>1. LostKnown'
  BY AccountsKeep
<1>2. ClosedHit'
  BY DEF ClosedHit
<1>3. PurgesEnded'
  <2>1. ASSUME NEW e \in Elems(queue), e.arg \in Clients PROVE Cleared(e)'
    BY <2>1 DEF PurgesEnded, Cleared, Mild
  <2>2. \A e \in Elems(queue) : e.arg \in Clients
    BY AllFields DEF OnceInv
  <2> QED
    BY <2>1, <2>2 DEF PurgesEnded
<1>4. PcbStays'
  <2>1. lwip.at # "idle" => lwip.ev.arg \in Clients
    BY AllFields DEF OnceInv
  <2>2. lwip.at = "fin" => lwip.pcb \in Pcbs
    BY AllFields DEF OnceInv, Held
  <2> QED
    BY <2>1, <2>2 DEF PcbStays, Mild
<1> QED
  BY <1>1, <1>2, <1>3, <1>4

\* Who loses the last pcb with that pcb.
LEMMA NewlyOver ==
  ASSUME NEW c \in Clients, obj'[c].conn = obj[c].conn, Over(c)', ~Over(c), NEW p,
         \A q \in Pcbs : q # p => pcb'[q].arg = pcb[q].arg
  PROVE  p \in Pcbs /\ pcb[p].arg = c
  BY DEF Over

LEMMA StrayCallback ==
  ASSUME StrayInv, NEW p \in Pcbs, Callback(p)
  PROVE  LostKnown' /\ ClosedHit' /\ PurgesEnded' /\ PcbStays'
<1>1. UNCHANGED <<obj, pcb, queue, task>> /\ lwip.at = "idle"
  BY DEF Callback, shared
<1>2. lwip'.at = "send" /\ lwip'.ev.event = "RECV"
  <2> DEFINE e == [Event("RECV", pcb[p].arg, pcb[p].conn) EXCEPT !.id = data']
  <2>1. e.event = "RECV"
    BY DEF Event
  <2>2. lwip' = [lwip EXCEPT !.at = "send", !.ev = e] /\ lwip \in LwipRecords
    BY DEF Callback, StrayInv, OnceInv, AllTyped
  <2> HIDE DEF e
  <2> QED
    BY <2>1, <2>2 DEF LwipRecords
<1>3. Mild /\ Accounts
  BY <1>1 DEF Mild, Accounts, Over, Known, ErrorComes, Parts
<1> QED
  BY <1>1, <1>2, <1>3, LwipMild

\* The error that the freed pcb's client gets is on its way.
LEMMA StrayReset ==
  ASSUME StrayInv, NEW p \in Pcbs, Reset(p)
  PROVE  LostKnown' /\ ClosedHit' /\ PurgesEnded' /\ PcbStays'
<1>1. /\ lwip.at = "idle" /\ pcb'[p].state = "free" /\ UNCHANGED <<obj, queue, task>>
      /\ \A q \in Pcbs : q # p => pcb'[q] = pcb[q]
  BY DEF Reset, FreePcb, StrayInv, OnceInv, AllTyped
<1>2. \/ pcb[p].arg = NULL /\ lwip' = lwip
      \/ lwip'.at = "send" /\ ErrorOf(lwip'.ev, pcb[p].arg)
  <2>1. CASE pcb[p].arg = NULL
    BY <2>1 DEF Reset
  <2>2. CASE pcb[p].arg # NULL
    <3> DEFINE e == Event("ERROR", pcb[p].arg, pcb[p].conn)
    <3>1. ErrorOf(e, pcb[p].arg)
      BY DEF Event, ErrorOf
    <3>2. lwip' = [lwip EXCEPT !.at = "send", !.ev = e] /\ lwip \in LwipRecords
      BY <2>2 DEF Reset, StrayInv, OnceInv, AllTyped
    <3> HIDE DEF e
    <3> QED
      BY <3>1, <3>2 DEF LwipRecords
  <2> QED
    BY <2>1, <2>2
<1>3. Mild
  BY <1>1 DEF Mild
<1>4. Accounts
  <2> SUFFICES ASSUME NEW c \in Clients, Over(c)', ~Over(c) PROVE Known(c)'
    BY <1>1 DEF Accounts, Known, ErrorComes, Parts
  <2>1. pcb[p].arg = c
    BY <1>1, NewlyOver
  <2> QED
    BY <1>2, <2>1, NullAssumption DEF Known, ErrorComes
<1> QED
  BY <1>1, <1>2, <1>3, <1>4, LwipMild DEF ErrorOf

LEMMA StrayRemoteFin ==
  ASSUME StrayInv, NEW p \in Pcbs, RemoteFin(p)
  PROVE  LostKnown' /\ ClosedHit' /\ PurgesEnded' /\ PcbStays'
<1>1. UNCHANGED <<obj, queue, task>> /\ lwip.at = "idle"
  BY DEF RemoteFin
<1>2. /\ lwip'.at = "idle" \/ (lwip'.at = "fin" /\ pcb'[lwip'.pcb].arg = lwip'.ev.arg)
      /\ \A q \in Pcbs : pcb'[q].arg = pcb[q].arg
      /\ \A q \in Pcbs : pcb'[q].arg # NULL => pcb'[q] = pcb[q]
  <2>1. CASE pcb[p].arg = NULL
    <3>1. pcb' = [pcb EXCEPT ![p].state = "closed"] /\ lwip' = lwip
      BY <2>1 DEF RemoteFin
    <3> QED
      BY <1>1, <2>1, <3>1 DEF StrayInv, OnceInv, AllTyped, PcbRecords
  <2>2. CASE pcb[p].arg # NULL
    <3> DEFINE e == Event("FIN", pcb[p].arg, pcb[p].conn)
    <3>0. e.arg = pcb[p].arg
      BY DEF Event
    <3>1. lwip' = [lwip EXCEPT !.at = "fin", !.pcb = p, !.ev = e]
      BY <2>2 DEF RemoteFin
    <3> HIDE DEF e
    <3>2. lwip \in LwipRecords /\ pcb' = pcb
      BY <2>2 DEF RemoteFin, StrayInv, OnceInv, AllTyped
    <3> QED
      BY <3>0, <3>1, <3>2 DEF LwipRecords
  <2> QED
    BY <2>1, <2>2
<1>3. Mild /\ Accounts
  BY <1>1, <1>2 DEF Mild, Accounts, Over, Known, ErrorComes, Parts
<1> QED
  BY <1>1, <1>2, <1>3, LwipMild

\* A closed pcb that has its client was hit.
LEMMA StrayPcbGone ==
  ASSUME StrayInv, NEW p \in Pcbs, PcbGone(p)
  PROVE  LostKnown' /\ ClosedHit' /\ PurgesEnded' /\ PcbStays'
<1>1. /\ lwip.at = "idle" /\ pcb'[p].state = "free" /\ pcb[p].state = "closed"
      /\ UNCHANGED <<obj, queue, task, lwip>> /\ \A q \in Pcbs : q # p => pcb'[q] = pcb[q]
  BY DEF PcbGone, FreePcb, StrayInv, OnceInv, AllTyped
<1>2. Mild
  BY <1>1 DEF Mild
<1>3. Accounts
  <2> SUFFICES ASSUME NEW c \in Clients, Over(c)', ~Over(c) PROVE Known(c)'
    BY <1>1 DEF Accounts, Known, ErrorComes, Parts
  <2>1. pcb[p].arg = c
    BY <1>1, NewlyOver
  <2> QED
    BY <1>1, <2>1, NullAssumption DEF Known, ClosedHit, StrayInv
<1> QED
  BY <1>1, <1>2, <1>3, LwipMild

LEMMA StrayFinClose ==
  ASSUME StrayInv, LwipFinClose
  PROVE  LostKnown' /\ ClosedHit' /\ PurgesEnded' /\ PcbStays'
<1>0. PICK a \in Clients : lwip.ev.arg = a
  BY AllFields DEF LwipFinClose, StrayInv, OnceInv
<1>1. /\ lwip.at = "fin" /\ UNCHANGED <<obj, queue, task>> /\ obj[a].pcb = lwip.pcb
      /\ lwip.pcb \in Pcbs
  <2>1. lwip.at = "fin"
    BY DEF LwipFinClose
  <2> QED
    BY <1>0, <2>1, AllFields DEF LwipFinClose, StrayInv, OnceInv, LwipAlone, LwipFin, Held
<1>2. /\ pcb' = [pcb EXCEPT ![lwip.pcb].state = "closed", ![lwip.pcb].arg = NULL]
      /\ lwip' = [lwip EXCEPT !.at = "freeSlot", !.pcb = NULL]
  BY <1>0, <1>1 DEF LwipFinClose
<1>3. lwip'.at = "freeSlot" /\ lwip'.ev = lwip.ev
  BY <1>2 DEF StrayInv, OnceInv, AllTyped, LwipRecords
<1>4. pcb'[lwip.pcb].arg = NULL /\ \A q \in Pcbs : q # lwip.pcb => pcb'[q] = pcb[q]
  BY <1>1, <1>2 DEF StrayInv, OnceInv, AllTyped, PcbRecords
<1>5. Mild
  BY <1>1 DEF Mild
<1>6. Accounts
  <2> SUFFICES ASSUME NEW c \in Clients, Over(c)', ~Over(c) PROVE Known(c)'
    BY <1>1 DEF Accounts, Known, ErrorComes, Parts
  <2>1. pcb[lwip.pcb].arg = c
    BY <1>1, <1>4, NewlyOver
  <2>2. c = a
    BY <1>0, <1>1, <2>1, NullAssumption DEF StrayInv, PcbStays
  <2> QED
    BY <1>0, <1>3, <2>2 DEF Known
<1> QED
  BY <1>1, <1>3, <1>4, <1>5, <1>6, LwipMild

\* The rest of _lwip_fin, and what is sent.
LEMMA StrayFinFreeSlot ==
  ASSUME StrayInv, LwipFinFreeSlot
  PROVE  LostKnown' /\ ClosedHit' /\ PurgesEnded' /\ PcbStays'
<1>0. PICK a \in Clients : lwip.ev.arg = a
  BY AllFields DEF LwipFinFreeSlot, StrayInv, OnceInv
<1>1. lwip.at = "freeSlot" /\ UNCHANGED <<obj, pcb, queue, task>>
  BY DEF LwipFinFreeSlot
<1>2. /\ lwip'.at = IF obj[a].slot = NoSlot THEN "nullPcb" ELSE "forget"
      /\ lwip'.ev = lwip.ev
  BY <1>0 DEF LwipFinFreeSlot, StrayInv, OnceInv, AllTyped, LwipRecords
<1>3. Mild
  BY <1>1 DEF Mild
<1>4. Accounts
  BY <1>0, <1>1, <1>2 DEF Accounts, Over, Known, ErrorComes, Parts
<1> QED
  BY <1>0, <1>1, <1>2, <1>3, <1>4, LwipMild

LEMMA StrayFinForget ==
  ASSUME StrayInv, LwipFinForget
  PROVE  LostKnown' /\ ClosedHit' /\ PurgesEnded' /\ PcbStays'
<1>0. PICK a \in Clients : lwip.ev.arg = a
  BY AllFields DEF LwipFinForget, StrayInv, OnceInv
<1>1. /\ lwip.at = "forget" /\ obj' = [obj EXCEPT ![a].slot = NoSlot]
      /\ UNCHANGED <<pcb, queue, task>>
  BY <1>0 DEF LwipFinForget, ForgetSlot
<1>2. lwip'.at = "load" /\ lwip'.ev = lwip.ev
  BY DEF LwipFinForget, StrayInv, OnceInv, AllTyped, LwipRecords
<1>3. \A c \in Clients : /\ obj'[c].conn = obj[c].conn /\ obj'[c].pcb = obj[c].pcb
                         /\ obj'[c].hit = obj[c].hit
                         /\ obj'[c].slot = IF c = a THEN NoSlot ELSE obj[c].slot
  BY <1>1 DEF StrayInv, OnceInv, AllTyped, Objects
<1>4. Mild
  BY <1>3 DEF Mild
<1>5. Accounts
  BY <1>0, <1>1, <1>2, <1>3 DEF Accounts, Over, Known, ErrorComes, Parts
<1>6. \A p \in Pcbs : pcb[p].arg # NULL => pcb[p].arg # a
  BY <1>0, <1>1 DEF StrayInv, OnceInv, LwipOwn, LwipFin, Over
<1>7. \A p \in Pcbs : pcb[p].arg # NULL => obj'[pcb[p].arg] = obj[pcb[p].arg]
  BY <1>1, <1>6, AllFields DEF StrayInv, OnceInv, AllTyped
<1> QED
  BY <1>0, <1>1, <1>2, <1>3, <1>4, <1>5, <1>7, LwipMild

LEMMA StrayFinLoad ==
  ASSUME StrayInv, LwipFinLoad
  PROVE  LostKnown' /\ ClosedHit' /\ PurgesEnded' /\ PcbStays'
<1>1. lwip.at = "load" /\ UNCHANGED <<obj, pcb, queue, task>>
  BY DEF LwipFinLoad, shared
<1>2. lwip'.at = "count" /\ lwip'.ev = lwip.ev
  BY DEF LwipFinLoad, StrayInv, OnceInv, AllTyped, LwipRecords
<1>3. Mild /\ Accounts
  BY <1>1, <1>2 DEF Mild, Accounts, Over, Known, ErrorComes, Parts
<1> QED
  BY <1>1, <1>2, <1>3, LwipMild DEF StrayInv, PcbStays

LEMMA StrayFinCount ==
  ASSUME StrayInv, LwipFinCount
  PROVE  LostKnown' /\ ClosedHit' /\ PurgesEnded' /\ PcbStays'
<1>1. lwip.at = "count" /\ UNCHANGED <<obj, pcb, queue, task>>
  BY DEF LwipFinCount
<1>2. lwip'.at = "nullPcb" /\ lwip'.ev = lwip.ev
  BY DEF LwipFinCount, StrayInv, OnceInv, AllTyped, LwipRecords
<1>3. Mild /\ Accounts
  BY <1>1, <1>2 DEF Mild, Accounts, Over, Known, ErrorComes, Parts
<1> QED
  BY <1>1, <1>2, <1>3, LwipMild DEF StrayInv, PcbStays

LEMMA StrayFinNullPcb ==
  ASSUME StrayInv, LwipFinNullPcb
  PROVE  LostKnown' /\ ClosedHit' /\ PurgesEnded' /\ PcbStays'
<1>0. PICK a \in Clients : lwip.ev.arg = a
  BY AllFields DEF LwipFinNullPcb, StrayInv, OnceInv
<1>1. /\ lwip.at = "nullPcb" /\ obj' = [obj EXCEPT ![a].pcb = NULL]
      /\ UNCHANGED <<pcb, queue, task>>
  BY <1>0 DEF LwipFinNullPcb
<1>2. lwip'.at = "send" /\ lwip'.ev = lwip.ev
  BY DEF LwipFinNullPcb, StrayInv, OnceInv, AllTyped, LwipRecords
<1>3. \A c \in Clients : /\ obj'[c].conn = obj[c].conn /\ obj'[c].slot = obj[c].slot
                         /\ obj'[c].hit = obj[c].hit
                         /\ obj'[c].pcb = IF c = a THEN NULL ELSE obj[c].pcb
  BY <1>1 DEF StrayInv, OnceInv, AllTyped, Objects
<1>4. obj[a].slot = NoSlot /\ lwip.ev.event # "CLEAR"
  BY <1>0, <1>1 DEF StrayInv, PcbStays, OnceInv, Held, LwipFin
<1>5. Mild
  BY <1>3 DEF Mild
<1>6. Accounts
  BY <1>1, <1>2, <1>3 DEF Accounts, Over, Known, ErrorComes, Parts
<1>7. \A p \in Pcbs : pcb[p].arg # NULL => pcb[p].arg # a
  BY <1>0, <1>1 DEF StrayInv, OnceInv, LwipOwn, LwipFin, Over
<1>8. \A p \in Pcbs : pcb[p].arg # NULL => obj'[pcb[p].arg] = obj[pcb[p].arg]
  BY <1>1, <1>7, AllFields DEF StrayInv, OnceInv, AllTyped
<1> QED
  BY <1>1, <1>2, <1>3, <1>4, <1>5, <1>6, <1>8, LwipMild

LEMMA StrayLwipSend ==
  ASSUME StrayInv, LwipSend
  PROVE  LostKnown' /\ ClosedHit' /\ PurgesEnded' /\ PcbStays'
<1>0. PICK e \in AnEvent : lwip.ev = e
  BY DEF LwipSend, StrayInv, OnceInv, Held
<1>1. lwip.at = "send" /\ lwip'.at = "idle" /\ UNCHANGED <<obj, pcb, task>>
  BY DEF LwipSend, LwipIdle, shared
<1>2. Elems(queue') = Elems(queue) \cup {e}
  BY <1>0, Appending DEF LwipSend, StrayInv, OnceInv, AllTyped
<1>3. e.event # "CLEAR"
  BY <1>0, <1>1 DEF StrayInv, PurgesEnded
<1>4. Mild
  BY <1>1 DEF Mild
<1>5. Accounts
  BY <1>0, <1>1, <1>2 DEF Accounts, Over, Known, ErrorComes, Parts
<1> QED
  BY <1>1, <1>2, <1>3, <1>4, <1>5, LwipMild

\* The client that is accepted has a pcb of its own, and no call, event or end is for it.
LEMMA StrayAccept ==
  ASSUME StrayInv, ~Reuse, NEW a \in Clients, NEW p \in Pcbs, Accept(a, p)
  PROVE  LostKnown' /\ ClosedHit' /\ PurgesEnded' /\ PcbStays'
<1> USE DEF StrayInv, OnceInv
<1>1. /\ lwip.at = "idle" /\ UNCHANGED <<lwip, task>> /\ obj[a].conn = 0
  BY DEF Accept
<1>2. /\ pcb'[p].arg = a /\ pcb'[p].state = "open"
      /\ \A q \in Pcbs : q # p => pcb'[q] = pcb[q]
  BY DEF Accept, AllTyped
<1>3. \A c \in Clients : c # a => obj'[c] = obj[c]
  BY DEF Accept, AllTyped
<1>4. \E e : e.event = "ACCEPT" /\ Elems(queue') = Elems(queue) \cup {e}
  <2> DEFINE e == Event("ACCEPT", a, conns')
  <2>0. conns' \in 1..MaxConns
    BY BoundsAssumption DEF Accept, AllTyped
  <2>1. e.event = "ACCEPT" /\ e \in AnEvent
    BY <2>0, BoundsAssumption DEF Event, AnEvent, Events
  <2>2. queue' = <<e>> \o queue
    BY DEF Accept
  <2> HIDE DEF e
  <2> QED
    BY <2>1, <2>2, Prepending DEF AllTyped
<1>5. \A e \in Elems(queue) : e.arg \in Clients /\ e.arg # a
  BY <1>1, AllFields DEF QueueOwn, OwnEvent, Made
<1>6. task.at # "get" => task.ev.arg \in Clients /\ task.ev.arg # a
  BY <1>1, AllFields DEF TaskOwn, Made
<1>7. \A c \in Clients : c # a => (ErrorComes(c) => ErrorComes(c)') /\ (Parts(c) => Parts(c)')
  BY <1>1, <1>4 DEF ErrorComes, Parts
<1>8. LostKnown'
  <2> SUFFICES ASSUME NEW c \in Clients, Lost(c)' PROVE Known(c)'
    BY DEF LostKnown
  <2>1. c # a
    BY <1>2 DEF Lost, Over
  <2>2. Lost(c)
    BY <1>1, <1>2, <1>3, <2>1, NullAssumption DEF Lost, Over, FreeHoldsNone, Accept
  <2> QED
    BY <1>1, <1>3, <1>7, <2>1, <2>2 DEF LostKnown, Known
<1>9. ClosedHit'
  <2> SUFFICES ASSUME NEW q \in Pcbs, pcb'[q].state = "closed", pcb'[q].arg # NULL
               PROVE  obj'[pcb'[q].arg].hit
    BY DEF ClosedHit
  <2>1. q # p /\ pcb'[q] = pcb[q] /\ pcb[q].arg \in Clients
    BY <1>2, AllFields
  <2>2. pcb[q].arg # a
    BY <1>1, <2>1 DEF ArgIsLiveOwner, ConnsOnce
  <2> QED
    BY <1>3, <2>1, <2>2 DEF ClosedHit
<1>10. PurgesEnded'
  <2>1. \A e \in Elems(queue) : Cleared(e)'
    BY <1>1, <1>3, <1>5 DEF PurgesEnded, Cleared, Parts
  <2> QED
    BY <1>1, <1>3, <1>4, <1>6, <2>1 DEF PurgesEnded, Cleared, This
<1>11. PcbStays'
  BY <1>1, <1>3, <1>6 DEF PcbStays, This
<1> QED
  BY <1>8, <1>9, <1>10, <1>11

\* The task goes on with its event, or has none.
LEMMA StrayStill ==
  ASSUME StrayInv, UNCHANGED <<pcb, queue, lwip>>,
         \A c \in Clients : /\ obj'[c].conn = obj[c].conn /\ obj'[c].slot = obj[c].slot
                            /\ obj'[c].pcb = obj[c].pcb /\ obj'[c].hit = obj[c].hit,
         \A c \in Clients : Parts(c) => Parts(c)' \/ obj[c].pcb = NULL,
         task'.at # "purge",
         task'.at = "call" /\ "pcb" \in task'.read /\ This'.slot # NoSlot => task'.pcb = This'.pcb
  PROVE  LostKnown' /\ ClosedHit' /\ PurgesEnded' /\ PcbStays'
<1>1. Mild
  BY DEF Mild
<1>2. Accounts
  BY DEF Accounts, Over, Known, ErrorComes
<1>3. \A p \in Pcbs : pcb[p].state = "closed" /\ pcb[p].arg # NULL => obj'[pcb[p].arg].hit
  BY AllFields DEF StrayInv, OnceInv, ClosedHit
<1> QED
  BY <1>1, <1>2, <1>3, TaskMild

LEMMA StrayQuiet ==
  ASSUME StrayInv, \/ PurgeReturn \/ Accepted \/ AppReturn \/ AppWrite \/ AppClose \/ AppAbort
                   \/ Close \/ CloseAbort \/ DeleteLoad \/ DeleteCount
  PROVE  LostKnown' /\ ClosedHit' /\ PurgesEnded' /\ PcbStays'
<1> USE DEF StrayInv, OnceInv
<1>p. /\ {"get", "app", "close", "detach", "unlink", "delete"} \subseteq TaskPlaces
      /\ {"recved", "write", "recvedAndClose", "abort", "closeAbort"} \subseteq Ops
  BY DEF TaskPlaces, Ops
<1>o. UNCHANGED <<pcb, queue, lwip>> /\ (obj' = obj \/ Accepted)
  BY DEF PurgeReturn, Accepted, AppReturn, AppWrite, AppClose, AppAbort, AppCalls, Close,
         CloseAbort, DeleteLoad, DeleteCount, shared
<1>1. \A c \in Clients : /\ obj'[c].conn = obj[c].conn /\ obj'[c].slot = obj[c].slot
                         /\ obj'[c].pcb = obj[c].pcb /\ obj'[c].hit = obj[c].hit
  <2>1. CASE Accepted
    <3>1. PICK a \in Clients : obj' = [obj EXCEPT ![a].ready = TRUE]
      BY <2>1, AllFields DEF Accepted
    <3> QED
      BY <3>1 DEF AllTyped, Objects
  <2> QED
    BY <1>o, <2>1
<1>2. CASE PurgeReturn \/ Accepted \/ AppReturn \/ AppWrite \/ AppClose \/ AppAbort \/ Close
           \/ DeleteCount
  <2>1. task.at \in {"purge", "accept", "app", "deleted", "close", "count"}
    BY <1>2 DEF PurgeReturn, Accepted, AppReturn, AppWrite, AppClose, AppAbort, AppCalls, InApp,
                Close, DeleteCount
  <2>2. \/ task' = TaskIdle \/ NextBuf
        \/ \E at \in {"get", "app", "detach", "delete"} : Goto(at)
        \/ \E op \in {"recved", "write", "recvedAndClose", "abort"} : Call(op)
    BY <1>2 DEF PurgeReturn, Accepted, AppReturn, AppWrite, AppClose, AppAbort, AppCalls, Close,
                DeleteCount
  <2>3. task'.at # "purge" /\ (task'.at = "call" => task'.read = {})
    BY <2>2, <1>p, GotoLeads, CallLeads, NextBufLeads DEF TaskIdle
  <2> QED
    BY <1>o, <1>1, <2>1, <2>3, StrayStill DEF Parts
<1>3. CASE CloseAbort
  <2>1. task.at = "abort" /\ (Goto("unlink") \/ Call("closeAbort"))
    BY <1>3 DEF CloseAbort
  <2>2. /\ task'.ev = task.ev
        /\ task'.at = "unlink" \/ (task'.at = "call" /\ task'.op = "closeAbort" /\ task'.read = {})
    BY <2>1, <1>p, GotoLeads, CallLeads
  <2> QED
    BY <1>o, <1>1, <2>1, <2>2, StrayStill DEF Parts
<1>4. CASE DeleteLoad
  <2>1. task.at = "load" /\ task' = [task EXCEPT !.at = "count", !.tmp = index]
    BY <1>4 DEF DeleteLoad
  <2>2. task'.at = "count"
    BY <2>1 DEF AllTyped, TaskStates
  <2> QED
    BY <1>o, <1>1, <2>1, <2>2, StrayStill DEF Parts
<1> QED
  BY <1>2, <1>3, <1>4

LEMMA StrayReads ==
  ASSUME StrayInv, ReadPcb \/ ReadSlot
  PROVE  LostKnown' /\ ClosedHit' /\ PurgesEnded' /\ PcbStays'
<1> USE DEF StrayInv, OnceInv
<1>0. PICK a \in Clients : task.ev.arg = a
  BY AllFields DEF ReadPcb, ReadSlot
<1>1. task.at = "call" /\ task \in TaskStates /\ UNCHANGED <<obj, pcb, queue, lwip>>
  BY DEF ReadPcb, ReadSlot, shared, AllTyped
<1>2. /\ task'.at = task.at /\ task'.ev = task.ev /\ task'.op = task.op
      /\ \/ task'.pcb = obj[a].pcb
         \/ task'.read = task.read \cup {"slot"} /\ task'.pcb = task.pcb
  <2>1. CASE ReadPcb
    <3>1. task' = [task EXCEPT !.pcb = obj[a].pcb, !.read = task.read \cup {"pcb"}]
      BY <1>0, <2>1 DEF ReadPcb, This
    <3> QED
      BY <1>1, <3>1 DEF TaskStates
  <2>2. CASE ReadSlot
    <3>1. task' = [task EXCEPT !.slot = obj[a].slot, !.read = task.read \cup {"slot"}]
      BY <1>0, <2>2 DEF ReadSlot, This
    <3> QED
      BY <1>1, <3>1 DEF TaskStates
  <2> QED
    BY <2>1, <2>2
<1>3. \A c \in Clients : Parts(c) => Parts(c)'
  BY <1>1, <1>2 DEF Parts
<1>4. "pcb" \in task'.read /\ This'.slot # NoSlot => task'.pcb = This'.pcb
  BY <1>0, <1>1, <1>2 DEF PcbStays, This
<1> QED
  BY <1>1, <1>2, <1>3, <1>4, StrayStill

\* A client that is to be purged has no pcb: its CLEAR is taken when nothing parts it.
LEMMA StrayHandle ==
  ASSUME StrayInv, Handle
  PROVE  LostKnown' /\ ClosedHit' /\ PurgesEnded' /\ PcbStays'
<1> USE DEF StrayInv, OnceInv
<1>1. /\ task.at = "get" /\ queue # <<>> /\ queue' = Tail(queue)
      /\ UNCHANGED <<obj, pcb, lwip>>
  BY DEF Handle, shared
<1>2. PICK e \in AnEvent : e = Head(queue)
  BY <1>1, Taking DEF AllTyped
<1>3. Elems(queue) = Elems(queue') \cup {e}
  BY <1>1, <1>2, Taking DEF AllTyped
<1>4. /\ task'.ev = e /\ task'.at # "call"
      /\ task'.at = "purge" => e.event = "CLEAR"
      /\ e.event = "ERROR" => task'.at = "error"
  <2> DEFINE at == CASE e.event = "ACCEPT" -> "accept"
                     [] e.event = "RECV" -> "app"
                     [] e.event = "FIN" -> "fin"
                     [] e.event = "ERROR" -> "error"
                     [] e.event = "CLEAR" -> "purge"
             more == e.event = "RECV"
  <2>1. task' = [TaskIdle EXCEPT !.ev = e, !.more = more, !.at = at]
    BY <1>2 DEF Handle
  <2>2. at # "call" /\ (at = "purge" => e.event = "CLEAR") /\ (e.event = "ERROR" => at = "error")
    BY DEF AnEvent, Events
  <2> HIDE DEF at, more
  <2> QED
    BY <2>1, <2>2 DEF TaskIdle
<1>5. Mild
  BY <1>1 DEF Mild
<1>6. Accounts
  <2>1. \A c \in Clients : ~Parts(c) /\ (Over(c)' => Over(c))
    BY <1>1 DEF Parts, Over
  <2>2. ASSUME NEW c \in Clients, ErrorComes(c) PROVE Known(c)'
    <3>1. CASE ErrorOf(e, c)
      BY <1>4, <3>1 DEF ErrorOf, Known, Parts
    <3>2. CASE ~ErrorOf(e, c)
      BY <1>1, <1>3, <2>2, <3>2 DEF ErrorComes, Known
    <3> QED
      BY <3>1, <3>2
  <2> QED
    BY <1>1, <2>1, <2>2 DEF Accounts, Known
<1>7. task'.at = "purge" => This'.pcb = NULL
  BY <1>1, <1>3, <1>4 DEF PurgesEnded, Cleared, Parts, This
<1>8. \A p \in Pcbs : pcb[p].state = "closed" /\ pcb[p].arg # NULL => obj[pcb[p].arg].hit
  BY DEF ClosedHit
<1> QED
  BY <1>1, <1>3, <1>4, <1>5, <1>6, <1>7, <1>8, TaskMild DEF Parts

\* A purge takes errors of the client it is for only.
LEMMA StrayPurgeTake ==
  ASSUME StrayInv, PurgeTake
  PROVE  LostKnown' /\ ClosedHit' /\ PurgesEnded' /\ PcbStays'
<1> USE DEF StrayInv, OnceInv
<1>0. PICK a \in Clients : task.ev.arg = a
  BY AllFields DEF PurgeTake
<1>1. task.at = "purge" /\ queue # <<>> /\ UNCHANGED <<obj, pcb, lwip>>
  BY DEF PurgeTake, PurgeEnds, shared
<1>2. PICK e \in AnEvent : e = Head(queue)
  BY <1>1, Taking DEF AllTyped
<1>3. Tail(queue) \in Seq(AnEvent) /\ Elems(queue) = Elems(Tail(queue)) \cup {e}
  BY <1>1, <1>2, Taking DEF AllTyped
<1>4. task'.at = "purge" /\ task'.ev = task.ev
  <2>1. task' = task \/ task' = [task EXCEPT !.first = IF @ = NoEvent THEN e ELSE @]
    BY <1>2 DEF PurgeTake
  <2> QED
    BY <1>1, <2>1 DEF AllTyped, TaskStates
<1>5. \/ e.arg = a /\ queue' = Tail(queue)
      \/ queue' = Append(Tail(queue), e)
  BY <1>0, <1>2 DEF PurgeTake, Matches
<1>6. /\ Elems(queue') \subseteq Elems(queue)
      /\ \A x \in Elems(queue) : x.arg # a => x \in Elems(queue')
  BY <1>3, <1>5, Appending
<1>7. Mild /\ obj[a].pcb = NULL
  BY <1>0, <1>1 DEF Mild, PurgesEnded, This
<1>8. Accounts
  <2>1. \A c \in Clients : ~Parts(c) /\ (Over(c)' => Over(c))
    BY <1>1 DEF Parts, Over
  <2>2. \A c \in Clients : c # a /\ ErrorComes(c) => Known(c)'
    BY <1>1, <1>6 DEF ErrorComes, ErrorOf, Known
  <2> QED
    BY <1>1, <1>7, <2>1, <2>2 DEF Accounts, Known
<1>9. \A p \in Pcbs : pcb[p].state = "closed" /\ pcb[p].arg # NULL => obj[pcb[p].arg].hit
  BY DEF ClosedHit
<1> QED
  BY <1>0, <1>1, <1>4, <1>6, <1>7, <1>8, <1>9, TaskMild DEF Parts, This

\* What becomes of the clients when a call returns.
LEMMA StrayReturns ==
  ASSUME StrayInv, NEW ok \in BOOLEAN, NEW o \in [Clients -> Objects], AfterCall(ok, o),
         ArgumentsRead, NEW a \in Clients, task.ev.arg = a,
         \A c \in Clients : /\ o[c].live = obj[c].live /\ o[c].conn = obj[c].conn
                            /\ o[c].pcb = obj[c].pcb /\ o[c].slot = obj[c].slot
                            /\ obj[c].hit => o[c].hit
  PROVE  /\ Mild /\ task'.at \notin {"call", "purge"}
         /\ \A c \in Clients : obj'[c].hit = o[c].hit
         /\ \A c \in Clients : Parts(c) => Parts(c)' \/ obj'[c].pcb = NULL
<1> USE DEF StrayInv, OnceInv
<1>1. /\ task'.at \in {"get", "app", "close", "unlink", "abort"}
      /\ task'.at # "get" => task'.ev = task.ev
      /\ \A c \in Clients :
           /\ obj'[c].conn = obj[c].conn /\ obj'[c].slot = obj[c].slot
           /\ obj'[c].pcb = IF c = a /\ task.op \in {"closeAbort", "abort"} THEN NULL
                            ELSE obj[c].pcb
  BY AfterCallIs
<1>2. \A c \in Clients : obj'[c].hit = o[c].hit
  <2>1. obj' = o \/ obj' = [o EXCEPT ![a].pcb = NULL]
    BY DEF AfterCall, ClearPcb
  <2> QED
    BY <2>1 DEF Objects
<1>3. Mild
  BY <1>1, <1>2 DEF Mild
<1>4. \A c \in Clients : Parts(c) => Parts(c)' \/ obj'[c].pcb = NULL
  <2> SUFFICES ASSUME Parts(a), task.op = "close" PROVE Parts(a)'
    BY <1>1 DEF Parts, ArgumentsRead
  <2>1. Goto("unlink") \/ Goto("abort")
    BY DEF AfterCall
  <2>2. task'.at \in {"unlink", "abort"}
    BY <2>1, GotoLeads DEF TaskPlaces
  <2> QED
    BY <1>1, <2>2 DEF Parts
<1> QED
  BY <1>1, <1>2, <1>3, <1>4

LEMMA StrayNoCall ==
  ASSUME StrayInv, CallNull \/ CallRefused
  PROVE  LostKnown' /\ ClosedHit' /\ PurgesEnded' /\ PcbStays'
<1> USE DEF StrayInv, OnceInv
<1>0. PICK a \in Clients : task.ev.arg = a
  BY AllFields DEF CallNull, CallRefused, ArgumentsRead
<1>1. ArgumentsRead /\ AfterCall(FALSE, obj) /\ UNCHANGED <<pcb, queue, lwip>>
  BY DEF CallNull, CallRefused
<1>2. obj \in [Clients -> Objects]
  BY DEF AllTyped
<1>3. /\ Mild /\ task'.at \notin {"call", "purge"}
      /\ \A c \in Clients : obj'[c].hit = obj[c].hit
      /\ \A c \in Clients : Parts(c) => Parts(c)' \/ obj'[c].pcb = NULL
  BY <1>0, <1>1, <1>2, StrayReturns
<1>4. Accounts
  BY <1>1, <1>3 DEF Accounts, Mild, Over, Known, ErrorComes
<1>5. \A p \in Pcbs : pcb[p].state = "closed" /\ pcb[p].arg # NULL => obj'[pcb[p].arg].hit
  BY <1>3, AllFields DEF ClosedHit
<1> QED
  BY <1>1, <1>3, <1>4, <1>5, TaskMild

\* The client that loses its pcb to an abort gets its error; the one whose pcb a call of
\* another client closes is hit.
LEMMA StrayServe ==
  ASSUME StrayInv, NEW ok \in BOOLEAN, Serve(ok), NEW p \in Pcbs, task.pcb = p,
         NEW a \in Clients, task.ev.arg = a
  PROVE  /\ Elems(queue) \subseteq Elems(queue')
         /\ \A e \in Elems(queue') : e \in Elems(queue) \/ e.event # "CLEAR"
         /\ \A q \in Pcbs : pcb'[q].arg \in {pcb[q].arg, NULL}
         /\ \A q \in Pcbs : q # p => pcb'[q] = pcb[q]
         /\ pcb'[p].arg # pcb[p].arg => \E e \in Elems(queue') : ErrorOf(e, pcb[p].arg)
         /\ pcb'[p].state = "closed" => pcb[p].state = "closed"
                                        \/ (task.op = "close" /\ pcb[p].state = "open")
<1> USE DEF StrayInv, OnceInv
<1>t. pcb \in [Pcbs -> PcbRecords] /\ queue \in Seq(AnEvent)
  BY DEF AllTyped
<1>1. CASE /\ task.op = "close" /\ pcb[p].state = "open"
           /\ pcb' = [pcb EXCEPT ![p].state = "closed"] /\ UNCHANGED queue
  BY <1>1, <1>t DEF PcbRecords
<1>2. CASE /\ pcb' = [pcb EXCEPT ![p] = FreePcb]
           /\ queue' = IF pcb[p].arg = NULL THEN queue
                       ELSE Append(queue, Event("ERROR", pcb[p].arg, pcb[p].conn))
  <2>1. /\ pcb'[p].arg = NULL /\ pcb'[p].state = "free" /\ \A q \in Pcbs : q # p => pcb'[q] = pcb[q]
    BY <1>2, <1>t DEF FreePcb
  <2>2. CASE pcb[p].arg = NULL
    BY <1>2, <1>t, <2>1, <2>2
  <2>3. CASE pcb[p].arg # NULL
    <3> DEFINE e == Event("ERROR", pcb[p].arg, pcb[p].conn)
    <3>1. e \in AnEvent
      BY <2>3, OwnCallback DEF Events
    <3>2. ErrorOf(e, pcb[p].arg) /\ e.event = "ERROR"
      BY DEF ErrorOf, Event
    <3>3. queue' = Append(queue, e)
      BY <1>2, <2>3
    <3> HIDE DEF e
    <3>4. Elems(queue') = Elems(queue) \cup {e}
      BY <1>t, <3>1, <3>3, Appending
    <3> QED
      BY <2>1, <3>2, <3>4
  <2> QED
    BY <2>2, <2>3
<1>3. CASE UNCHANGED <<pcb, queue>>
  BY <1>3, <1>t
<1> QED
  BY <1>1, <1>2, <1>3 DEF Serve

LEMMA StrayCallServed ==
  ASSUME StrayInv, NEW ok \in BOOLEAN, CallServed(ok)
  PROVE  LostKnown' /\ ClosedHit' /\ PurgesEnded' /\ PcbStays'
<1> USE DEF StrayInv, OnceInv
<1>0. PICK a \in Clients : task.ev.arg = a
  BY AllFields DEF CallServed, Serve, ArgumentsRead
<1>p. PICK p \in Pcbs : task.pcb = p
  BY AllFields DEF CallServed, Serve
<1>1. /\ ArgumentsRead /\ AfterCall(ok, Hits(p)) /\ Serve(ok) /\ lwip' = lwip
  BY <1>p DEF CallServed, Serve
<1>h. PICK h \in [Clients -> Objects] :
        /\ AfterCall(ok, h)
        /\ \A c \in Clients :
             /\ h[c].live = obj[c].live /\ h[c].conn = obj[c].conn
             /\ h[c].pcb = obj[c].pcb /\ h[c].slot = obj[c].slot
             /\ obj[c].hit => h[c].hit
             /\ IsAnothers(p) /\ obj[c].conn = pcb[p].conn => h[c].hit
  <2>1. obj \in [Clients -> Objects]
    BY DEF AllTyped
  <2>2. Hits(p) \in [Clients -> Objects]
    BY <2>1, HitsIs
  <2>3. \A c \in Clients :
          /\ Hits(p)[c].live = obj[c].live /\ Hits(p)[c].conn = obj[c].conn
          /\ Hits(p)[c].pcb = obj[c].pcb /\ Hits(p)[c].slot = obj[c].slot
    BY <2>1, HitsIs
  <2>4. \A c \in Clients : Hits(p)[c].hit = (obj[c].hit \/ (IsAnothers(p) /\ obj[c].conn = pcb[p].conn))
    BY <2>1, HitsIs
  <2> WITNESS Hits(p) \in [Clients -> Objects]
  <2> HIDE DEF StrayInv, OnceInv
  <2> QED
    BY <1>1, <2>3, <2>4
<1>3. /\ Mild /\ task'.at \notin {"call", "purge"}
      /\ \A c \in Clients : obj'[c].hit = h[c].hit
      /\ \A c \in Clients : Parts(c) => Parts(c)' \/ obj'[c].pcb = NULL
  BY <1>0, <1>1, <1>h, StrayReturns
<1>4. /\ Elems(queue) \subseteq Elems(queue')
      /\ \A e \in Elems(queue') : e \in Elems(queue) \/ e.event # "CLEAR"
      /\ \A q \in Pcbs : pcb'[q].arg \in {pcb[q].arg, NULL}
      /\ \A q \in Pcbs : q # p => pcb'[q] = pcb[q]
      /\ pcb'[p].arg # pcb[p].arg => \E e \in Elems(queue') : ErrorOf(e, pcb[p].arg)
      /\ pcb'[p].state = "closed" => pcb[p].state = "closed"
                                     \/ (task.op = "close" /\ pcb[p].state = "open")
  BY <1>0, <1>p, <1>1, StrayServe
<1>5. Accounts
  <2> SUFFICES ASSUME NEW c \in Clients, Over(c)', ~Over(c) PROVE Known(c)'
    BY <1>1, <1>3, <1>4 DEF Accounts, Known, ErrorComes
  <2>1. pcb[p].arg = c /\ pcb'[p].arg # c
    <3>1. obj'[c].conn = obj[c].conn /\ \A q \in Pcbs : q # p => pcb'[q].arg = pcb[q].arg
      BY <1>3, <1>4 DEF Mild
    <3>2. pcb[p].arg = c
      BY <3>1, NewlyOver
    <3> QED
      BY <3>2 DEF Over
  <2> QED
    BY <1>4, <2>1 DEF Known, ErrorComes
<1>6. ASSUME NEW q \in Pcbs, pcb'[q].state = "closed", pcb'[q].arg # NULL
      PROVE  obj'[pcb'[q].arg].hit
  <2>1. PICK c \in Clients : pcb[q].arg = c /\ pcb'[q].arg = c
    BY <1>4, <1>6, AllFields
  <2>2. CASE pcb[q].state = "closed"
    BY <1>3, <1>h, <2>1, <2>2, NullAssumption DEF ClosedHit
  <2>3. CASE q = p /\ task.op = "close" /\ pcb[p].state = "open"
    <3>1. obj[c].conn = pcb[p].conn /\ obj[c].conn # 0
      BY <2>1, <2>3, NullAssumption DEF ArgIsLiveOwner, ConnsOnce
    <3>2. c # a
      BY <1>0, <1>1, <2>1, <2>3 DEF TaskOwn, Over, ArgumentsRead
    <3>3. IsAnothers(p)
      BY <1>0, <2>3, <3>1, <3>2, NullAssumption DEF IsAnothers, This, ConnsOnce
    <3> QED
      BY <1>3, <1>h, <2>1, <3>1, <3>3
  <2> QED
    BY <1>4, <1>6, <2>2, <2>3
<1> QED
  BY <1>1, <1>3, <1>4, <1>5, <1>6, TaskMild DEF Cleared

\* The pcb that _close and _error detach is the client's own, or its owner is hit.
LEMMA StrayDetached ==
  ASSUME StrayInv, NEW a \in Clients, task.ev.arg = a, task.at \in {"detach", "error"},
         \A q \in Pcbs : /\ pcb'[q].state = pcb[q].state /\ pcb'[q].conn = pcb[q].conn
                         /\ pcb'[q].arg = IF q = obj[a].pcb THEN NULL ELSE pcb[q].arg,
         \A c \in Clients : /\ obj'[c].conn = obj[c].conn
                            /\ obj'[c].hit = Hits(obj[a].pcb)[c].hit
  PROVE  /\ \A c \in Clients : obj[c].hit => obj'[c].hit
         /\ \A c \in Clients : c # a /\ Over(c)' /\ ~Over(c) => obj'[c].hit
         /\ \A q \in Pcbs : pcb'[q].state = "closed" /\ pcb'[q].arg # NULL =>
              obj'[pcb'[q].arg].hit
<1> USE DEF StrayInv, OnceInv
<1>1. \A c \in Clients : obj'[c].hit = (obj[c].hit \/ (/\ IsAnothers(obj[a].pcb)
                                                       /\ obj[c].conn = pcb[obj[a].pcb].conn))
  BY HitsIs DEF AllTyped
<1>2. ASSUME NEW c \in Clients, c # a, Over(c)', ~Over(c) PROVE obj'[c].hit
  <2>1. obj[a].pcb \in Pcbs /\ pcb[obj[a].pcb].arg = c
    <3>1. \A q \in Pcbs : q # obj[a].pcb => pcb'[q].arg = pcb[q].arg
      OBVIOUS
    <3>2. obj'[c].conn = obj[c].conn
      OBVIOUS
    <3> QED
      BY <1>2, <3>1, <3>2, NewlyOver
  <2>2. obj[c].conn = pcb[obj[a].pcb].conn /\ obj[c].conn # 0 /\ pcb[obj[a].pcb].state # "free"
    BY <2>1, NullAssumption DEF ArgIsLiveOwner, ConnsOnce, FreeHoldsNone
  <2>3. IsAnothers(obj[a].pcb)
    BY <1>2, <2>1, <2>2, NullAssumption DEF IsAnothers, This, ConnsOnce
  <2> QED
    BY <1>1, <2>2, <2>3
<1>3. ASSUME NEW q \in Pcbs, pcb'[q].state = "closed", pcb'[q].arg # NULL
      PROVE  obj'[pcb'[q].arg].hit
  <2>1. pcb'[q].arg = pcb[q].arg /\ pcb[q].state = "closed" /\ pcb[q].arg \in Clients
    BY <1>3, AllFields
  <2>2. obj[pcb[q].arg].hit
    BY <1>3, <2>1 DEF ClosedHit
  <2> HIDE DEF StrayInv, OnceInv
  <2> QED
    BY <1>1, <2>1, <2>2
<1> QED
  BY <1>1, <1>2, <1>3

LEMMA StrayDetach ==
  ASSUME StrayInv, CloseDetach
  PROVE  LostKnown' /\ ClosedHit' /\ PurgesEnded' /\ PcbStays'
<1> USE DEF StrayInv, OnceInv
<1>0. PICK a \in Clients : task.ev.arg = a
  BY AllFields DEF CloseDetach
<1>1. /\ task.at = "detach" /\ task.ev.conn \in 1..MaxConns /\ lwip' = lwip
      /\ obj' = Hits(obj[a].pcb)
  BY <1>0, AllFields DEF CloseDetach, This
<1>2. \E e : /\ e.event = "CLEAR" /\ e.arg = a
             /\ Elems(queue') = Elems(queue) \cup {e}
  <2> DEFINE e == Event("CLEAR", a, task.ev.conn)
  <2>1. e \in AnEvent /\ e.event = "CLEAR" /\ e.arg = a
    BY <1>1, BoundsAssumption DEF Event, AnEvent, Events
  <2>2. queue' = <<e>> \o queue
    BY <1>0 DEF CloseDetach, Prepend
  <2> HIDE DEF e
  <2> QED
    BY <2>1, <2>2, Prepending DEF AllTyped
<1>3. /\ task'.at = "call" /\ task'.ev = task.ev /\ task'.op = "close" /\ task'.read = {}
  BY CallLeads DEF CloseDetach, Ops
<1>4. /\ \A q \in Pcbs : /\ pcb'[q].state = pcb[q].state /\ pcb'[q].conn = pcb[q].conn
                         /\ pcb'[q].arg = IF q = obj[a].pcb THEN NULL ELSE pcb[q].arg
  <2>1. pcb' = IF obj[a].pcb = NULL THEN pcb ELSE [pcb EXCEPT ![obj[a].pcb].arg = NULL]
    BY <1>0 DEF CloseDetach, This
  <2>2. obj[a].pcb \in Pcbs \cup {NULL}
    BY AllFields
  <2> QED
    BY <2>1, <2>2, NullAssumption DEF AllTyped, PcbRecords
<1>5. \A c \in Clients : /\ obj'[c].conn = obj[c].conn /\ obj'[c].pcb = obj[c].pcb
                         /\ obj'[c].slot = obj[c].slot
  BY <1>1, HitsIs DEF AllTyped
<1>6. /\ \A c \in Clients : obj[c].hit => obj'[c].hit
      /\ \A c \in Clients : c # a /\ Over(c)' /\ ~Over(c) => obj'[c].hit
      /\ \A q \in Pcbs : pcb'[q].state = "closed" /\ pcb'[q].arg # NULL => obj'[pcb'[q].arg].hit
  BY <1>0, <1>1, <1>4, <1>5, StrayDetached
<1>7. Parts(a)' /\ \A c \in Clients : ~Parts(c)
  BY <1>0, <1>1, <1>3 DEF Parts
<1>8. Mild
  BY <1>5, <1>6 DEF Mild
<1>9. Accounts
  BY <1>1, <1>2, <1>6, <1>7 DEF Accounts, Known, ErrorComes
<1> QED
  BY <1>1, <1>2, <1>3, <1>4, <1>6, <1>7, <1>8, <1>9, TaskMild DEF Cleared

\* What Discarded does to the task.
LEMMA DiscardedLeads ==
  ASSUME StrayInv, Discarded, task.at \in {"fin", "error", "unlink"}
  PROVE  task'.at \in {"get", "freeSlot"}
  BY AllFields, DiscardedOnce DEF StrayInv, OnceInv

LEMMA StrayEnd ==
  ASSUME StrayInv, Fin \/ CloseDiscard \/ DeleteFreeSlot \/ DeleteForget \/ Delete
  PROVE  LostKnown' /\ ClosedHit' /\ PurgesEnded' /\ PcbStays'
<1> USE DEF StrayInv, OnceInv
<1>0. PICK a \in Clients : task.ev.arg = a
  BY AllFields DEF Fin, CloseDiscard, DeleteFreeSlot, DeleteForget, Delete
<1>1. /\ task.at \in {"fin", "unlink", "freeSlot", "forget", "delete"} /\ pcb' = pcb /\ lwip' = lwip
      /\ task'.at \in {"get", "freeSlot", "forget", "load", "delete", "deleted"}
  <2>1. CASE Fin \/ CloseDiscard
    BY <2>1, DiscardedLeads DEF Fin, CloseDiscard, shared
  <2>2. CASE DeleteFreeSlot \/ DeleteForget \/ Delete
    <3>1. \E at \in {"get", "forget", "load", "delete", "deleted"} : Goto(at)
      BY <2>2 DEF DeleteFreeSlot, DeleteForget, Delete
    <3>2. {"get", "forget", "load", "delete", "deleted"} \subseteq TaskPlaces
      BY DEF TaskPlaces
    <3>3. task'.at \in {"get", "forget", "load", "delete", "deleted"}
      BY <3>1, <3>2, GotoLeads
    <3> QED
      BY <2>2, <3>3 DEF DeleteFreeSlot, DeleteForget, Delete
  <2> QED
    BY <2>1, <2>2
<1>2. Over(a) /\ (~CloseDiscard => obj[a].pcb = NULL)
  BY <1>0 DEF Fin, DeleteFreeSlot, DeleteForget, Delete, CloseDiscard, TaskOwn, Parting, Leaving, This
<1>3. /\ \A c \in Clients : c # a => obj'[c] = obj[c]
      /\ obj'[a].pcb = NULL /\ obj'[a].conn = obj[a].conn
      /\ obj'[a].slot = obj[a].slot \/ obj'[a].slot = NoSlot
  <2>1. \/ obj' = obj
        \/ obj' = [obj EXCEPT ![a].pcb = NULL]
        \/ obj' = [obj EXCEPT ![a].slot = NoSlot]
        \/ obj' = [obj EXCEPT ![a].live = FALSE, ![a].hit = FALSE]
    BY <1>0 DEF Fin, CloseDiscard, ClearPcb, DeleteFreeSlot, DeleteForget, ForgetSlot, Delete,
                  shared
  <2>2. CloseDiscard => obj' = [obj EXCEPT ![a].pcb = NULL]
    BY <1>0 DEF CloseDiscard, ClearPcb
  <2> QED
    BY <1>2, <2>1, <2>2 DEF AllTyped, Objects
<1>4. \A e \in Elems(queue') : e \in Elems(queue) \/ e.arg = a
  <2>1. CASE Fin
    <3> DEFINE e == Event("CLEAR", a, task.ev.conn)
    <3>1. e \in AnEvent /\ e.event = "CLEAR" /\ e.arg = a
      BY <1>0, <2>1, AllFields, BoundsAssumption DEF Fin, Event, AnEvent, Events
    <3>2. queue' = <<e>> \o queue
      BY <1>0, <2>1 DEF Fin, Prepend
    <3> HIDE DEF e
    <3> QED
      BY <3>1, <3>2, Prepending DEF AllTyped
  <2>2. CASE ~Fin
    BY <2>2 DEF CloseDiscard, DeleteFreeSlot, DeleteForget, Delete
  <2> QED
    BY <2>1, <2>2
<1>5. Elems(queue) \subseteq Elems(queue')
  <2>1. CASE Fin
    <3> DEFINE e == Event("CLEAR", a, task.ev.conn)
    <3>1. e \in AnEvent
      BY <1>0, <2>1, AllFields, BoundsAssumption DEF Fin, Event, AnEvent, Events
    <3>2. queue' = <<e>> \o queue
      BY <1>0, <2>1 DEF Fin, Prepend
    <3> HIDE DEF e
    <3> QED
      BY <3>1, <3>2, Prepending DEF AllTyped
  <2>2. CASE ~Fin
    BY <2>2 DEF CloseDiscard, DeleteFreeSlot, DeleteForget, Delete
  <2> QED
    BY <2>1, <2>2
<1>6. Mild
  BY <1>3 DEF Mild
<1>7. Accounts
  <2>1. \A c \in Clients : Over(c)' => Over(c)
    BY <1>1, <1>6 DEF Over, Mild
  <2>2. \A c \in Clients : Parts(c) => c = a
    BY <1>0 DEF Parts
  <2> QED
    BY <1>1, <1>3, <1>5, <2>1, <2>2 DEF Accounts, Known, ErrorComes
<1>8. ASSUME NEW p \in Pcbs, pcb[p].state = "closed", pcb[p].arg # NULL
      PROVE  obj'[pcb[p].arg].hit
  <2>1. pcb[p].arg \in Clients /\ pcb[p].arg # a
    BY <1>2, <1>8, AllFields DEF Over
  <2> QED
    BY <1>3, <1>8, <2>1 DEF ClosedHit
<1>9. \A c \in Clients : Parts(c) => obj'[c].pcb = NULL
  BY <1>0, <1>3 DEF Parts
<1> QED
  BY <1>1, <1>3, <1>4, <1>6, <1>7, <1>8, <1>9, TaskMild DEF Cleared

LEMMA StrayError ==
  ASSUME StrayInv, Error
  PROVE  LostKnown' /\ ClosedHit' /\ PurgesEnded' /\ PcbStays'
<1> USE DEF StrayInv, OnceInv
<1>0. PICK a \in Clients : task.ev.arg = a
  BY AllFields DEF Error
<1>1. /\ task.at = "error" /\ UNCHANGED <<queue, lwip>>
      /\ obj' = [Hits(obj[a].pcb) EXCEPT ![a].pcb = NULL]
      /\ task'.at \in {"get", "freeSlot"}
  BY <1>0, DiscardedLeads DEF Error, ClearPcb, This
<1>2. \A c \in Clients : /\ obj'[c].slot = obj[c].slot
                         /\ obj'[c].conn = obj[c].conn /\ obj'[c].hit = Hits(obj[a].pcb)[c].hit
                         /\ obj'[c].pcb = IF c = a THEN NULL ELSE obj[c].pcb
  BY <1>1, PcbLost DEF AllTyped
<1>3. /\ \A q \in Pcbs : /\ pcb'[q].state = pcb[q].state /\ pcb'[q].conn = pcb[q].conn
                         /\ pcb'[q].arg = IF q = obj[a].pcb THEN NULL ELSE pcb[q].arg
  <2>1. pcb' = IF obj[a].pcb = NULL THEN pcb ELSE [pcb EXCEPT ![obj[a].pcb].arg = NULL]
    BY <1>0 DEF Error, This
  <2>2. obj[a].pcb \in Pcbs \cup {NULL}
    BY AllFields
  <2> QED
    BY <2>1, <2>2, NullAssumption DEF AllTyped, PcbRecords
<1>4. /\ \A c \in Clients : obj[c].hit => obj'[c].hit
      /\ \A c \in Clients : c # a /\ Over(c)' /\ ~Over(c) => obj'[c].hit
      /\ \A q \in Pcbs : pcb'[q].state = "closed" /\ pcb'[q].arg # NULL => obj'[pcb'[q].arg].hit
  BY <1>0, <1>1, <1>2, <1>3, StrayDetached
<1>5. Mild
  BY <1>2, <1>4 DEF Mild
<1>6. \A c \in Clients : Parts(c) => obj'[c].pcb = NULL
  BY <1>0, <1>2 DEF Parts
<1>7. Accounts
  BY <1>1, <1>2, <1>4, <1>6 DEF Accounts, Known, ErrorComes
<1> QED
  BY <1>1, <1>3, <1>4, <1>5, <1>6, <1>7, TaskMild

LEMMA StrayInit == Init => StrayInv
<1> SUFFICES ASSUME Init PROVE StrayInv
  OBVIOUS
<1>1. /\ \A c \in Clients : obj[c].slot = NoSlot
      /\ \A p \in Pcbs : pcb[p].arg = NULL
      /\ queue = <<>> /\ lwip.at = "idle" /\ task.at = "get"
  BY DEF Init, FreePcb, LwipIdle, TaskIdle
<1>2. Elems(queue) = {}
  BY <1>1 DEF Elems
<1> QED
  BY <1>1, <1>2, OnceInit DEF StrayInv, LostKnown, Lost, ClosedHit, PurgesEnded, PcbStays

LEMMA StrayNext ==
  ASSUME ~Reuse, StrayInv, [Next]_vars PROVE StrayInv'
<1> SUFFICES LostKnown' /\ ClosedHit' /\ PurgesEnded' /\ PcbStays'
  BY OnceNext DEF StrayInv
<1>1. CASE UNCHANGED vars
  BY <1>1 DEF vars, shared, StrayInv, LostKnown, Lost, Over, Known, ErrorComes, Parts, ClosedHit,
              PurgesEnded, Cleared, PcbStays, This
<1>2. ASSUME NEW p \in Pcbs, NEW c \in Clients, Accept(c, p)
      PROVE  LostKnown' /\ ClosedHit' /\ PurgesEnded' /\ PcbStays'
  BY <1>2, StrayAccept
<1>3. ASSUME NEW p \in Pcbs, Callback(p) \/ Reset(p) \/ RemoteFin(p) \/ PcbGone(p)
      PROVE  LostKnown' /\ ClosedHit' /\ PurgesEnded' /\ PcbStays'
  BY <1>3, StrayCallback, StrayReset, StrayRemoteFin, StrayPcbGone
<1>4. CASE LwipStep
  BY <1>4, StrayFinClose, StrayFinFreeSlot, StrayFinForget, StrayFinLoad, StrayFinCount,
     StrayFinNullPcb, StrayLwipSend
     DEF LwipStep
<1>5. CASE TaskStep
  BY <1>5, StrayHandle, StrayPurgeTake, StrayQuiet, StrayReads, StrayNoCall, StrayCallServed,
     StrayDetach, StrayEnd, StrayError DEF TaskStep
<1> QED
  BY <1>1, <1>2, <1>3, <1>4, <1>5 DEF Next

\* The client that a call which reaches another connection's pcb is for is over, and holds
\* the slot that opened the way, or does not.
LEMMA StrayCallIsKnown ==
  ASSUME StrayInv, NEW ok \in BOOLEAN, CallServed(ok), IsAnothers(task.pcb)
  PROVE  \/ task.slot = NoSlot \/ SlotTaken \/ ErrorOnItsWay
         \/ task.op \in {"close", "closeAbort"}
         \/ This.hit
<1> USE DEF StrayInv, OnceInv
<1>0. PICK a \in Clients : task.ev.arg = a
  BY AllFields DEF CallServed, Serve, ArgumentsRead
<1>1. /\ lwip.at = "idle" /\ task.at = "call" /\ task.read = {"pcb", "slot"}
      /\ task.pcb \in Pcbs /\ SlotOpen(task.slot)
  BY AllFields DEF CallServed, Serve, ArgumentsRead
<1> SUFFICES ASSUME task.slot # NoSlot, ~SlotTaken, task.op \notin {"close", "closeAbort"}
             PROVE  ErrorOnItsWay \/ obj[a].hit
  BY <1>0 DEF This
<1>2. task.slot \in Slots /\ slots[task.slot] = 0
  BY <1>1, AllFields, NumSlotsAssumption DEF SlotOpen, Slots, NoSlot
<1>3. obj[a].slot = task.slot
  BY <1>0, <1>2 DEF SlotTaken, This, SlotsExclusive, Holds
<1>4. task.pcb = obj[a].pcb
  BY <1>0, <1>1, <1>3 DEF PcbStays, This
<1>5. Over(a)
  <2>1. obj[a].conn # 0
    BY <1>0, <1>1, AllFields DEF TaskOwn, Made
  <2>2. pcb[task.pcb].conn # obj[a].conn
    BY <1>0 DEF IsAnothers, This
  <2>3. \A q \in Pcbs : pcb[q].arg = a => q = task.pcb /\ pcb[q].conn = obj[a].conn
    BY <1>4, NullAssumption DEF ArgIsLiveOwner
  <2> QED
    BY <2>1, <2>2, <2>3 DEF Over
<1>6. Lost(a)
  BY <1>1, <1>3, <1>4, <1>5, NullAssumption DEF Lost
<1>7. obj[a].hit \/ \E e \in Elems(queue) : ErrorOf(e, a)
  BY <1>1, <1>6 DEF LostKnown, Known, ErrorComes, Parts
<1>8. ASSUME NEW e \in Elems(queue), ErrorOf(e, a) PROVE ErrorOnItsWay
  <2>1. e.event = "ERROR" /\ e.conn = This.conn
    BY <1>0, <1>8 DEF ErrorOf, QueueOwn, OwnEvent, Made, This
  <2>2. e \in Range(queue)
    BY DEF Elems, Range, AllTyped
  <2> QED
    BY <2>1, <2>2 DEF ErrorOnItsWay
<1> QED
  BY <1>7, <1>8

\* A call that passes the guard of the _api functions and reaches the pcb of another
\* connection came through one of the known holes, for any numbers of clients and slots
\* and however connections end, while no client's address is handed out again.
THEOREM SpecStrayCallsExplained == ASSUME ~Reuse PROVE Spec => StrayCallsExplained
<1>1. StrayInv /\ [Next]_vars => StrayInv'
  BY StrayNext
<1>2. Spec => []StrayInv
  BY StrayInit, <1>1, PTL DEF Spec
<1>3. StrayInv /\ [Next]_vars =>
        [(\E ok \in BOOLEAN : CallServed(ok)) /\ IsAnothers(task.pcb) =>
           \/ task.slot = NoSlot \/ SlotTaken \/ ErrorOnItsWay
           \/ task.op \in {"close", "closeAbort"}
           \/ This.hit]_vars
  BY StrayCallIsKnown
<1> QED
  BY <1>2, <1>3, PTL DEF Spec, StrayCallsExplained
-----------------------------------------------------------------------------
(***************************************************************************)
(* What both invariants imply.                                             *)
(***************************************************************************)

\* No slot is held by two clients, and a slot is marked as held exactly while a
\* client holds it, although _free_closed_slot takes no lock on either core -- but for a
\* client between giving its slot back and forgetting it.
THEOREM SpecSlotsExclusive == ASSUME ~Closes \/ ~Reuse PROVE Spec => []SlotsExclusive
<1>1. CASE ~Closes
  <2>1. Inv => SlotsExclusive
    BY DEF Inv
  <2> QED
    BY <1>1, <2>1, SpecInv, PTL
<1>2. CASE ~Reuse
  <2>1. OnceInv => SlotsExclusive
    BY DEF OnceInv
  <2> QED
    BY <1>2, <2>1, SpecOnceInv, PTL
<1> QED
  BY <1>1, <1>2

\* While _lwip_fin works on a client, the async task does not delete it: what could
\* delete it is in the FIN that _lwip_fin has still to send, or needs its pcb detached.
THEOREM SpecLwipTouchesLive == ASSUME ~Closes \/ ~Reuse PROVE Spec => []LwipTouchesLive
<1>1. CASE ~Closes
  <2>1. Inv => LwipTouchesLive
    BY DEF Inv, LwipTouchesLive, Held, LwipFin, LwipEndsLive, EndOfLive, Ends
  <2> QED
    BY <1>1, <2>1, SpecInv, PTL
<1>2. CASE ~Reuse
  <2>1. OnceInv => LwipTouchesLive
    BY DEF OnceInv, LwipTouchesLive, LwipFin, LwipAlone, LwipOwn, Made
  <2> QED
    BY <1>2, <2>1, SpecOnceInv, PTL
<1> QED
  BY <1>1, <1>2

\* The stack never holds the address of a deleted client, as long as the application
\* closes no connection or addresses of clients are not handed out again.
THEOREM SpecArgIsLiveOwner == ASSUME ~Closes \/ ~Reuse PROVE Spec => []ArgIsLiveOwner
<1>1. CASE ~Closes
  <2>1. Inv => ArgIsLiveOwner
    BY DEF Inv
  <2> QED
    BY <1>1, <2>1, SpecInv, PTL
<1>2. CASE ~Reuse
  <2>1. OnceInv => ArgIsLiveOwner
    BY DEF OnceInv
  <2> QED
    BY <1>2, <2>1, SpecOnceInv, PTL
<1> QED
  BY <1>1, <1>2

\* A client's disconnect callback runs at most once, whichever of FIN, error, close() and
\* abort() come together, and the client is deleted with its _pcb gone.
THEOREM SpecClientsEndOnce == ASSUME ~Closes \/ ~Reuse PROVE Spec => []ClientsEndOnce
<1>1. CASE ~Closes
  <2>1. Inv => ClientsEndOnce
    <3> SUFFICES ASSUME Inv PROVE ClientsEndOnce
      OBVIOUS
    <3>1. task.at \in Places
      BY Fields DEF Inv
    <3>2. task.at # "get" => task.ev.arg \in Clients
      BY Fields DEF Inv
    <3> QED
      BY <3>1, <3>2 DEF Inv, ClientsEndOnce, Places, TaskEndsLive, Ending, ToldIsOver, This
  <2> QED
    BY <1>1, <2>1, SpecInv, PTL
<1>2. CASE ~Reuse
  <2>1. OnceInv => ClientsEndOnce
    <3> SUFFICES ASSUME OnceInv PROVE ClientsEndOnce
      OBVIOUS
    <3>1. task.at # "get" => task.ev.arg \in Clients
      BY AllFields DEF OnceInv
    <3> QED
      BY <3>1 DEF OnceInv, ClientsEndOnce, TaskOwn, Leaving, ToldIsOver, This
  <2> QED
    BY <1>2, <2>1, SpecOnceInv, PTL
<1> QED
  BY <1>1, <1>2
-----------------------------------------------------------------------------
(***************************************************************************)
(* With no reset and no address handed out again: what the task takes from *)
(* the queue is for a client that lives, unless it is a FIN.  The queue is *)
(* ordered as the task will take it, which a purge that turns it under way *)
(* does not change: of a client that is closed, the purge comes before its *)
(* data; of one with an error, the data comes before it; and the tcpip     *)
(* thread brings nothing more but a FIN.                                   *)
(***************************************************************************)

Of(kind, c, e) == e.event = kind /\ e.arg = c
Calls(ops) == task.at = "call" /\ task.op \in ops

\* Which of two events of the queue q the task takes first: while a purge turns it, those
\* that are turned already, from h on, come before the others.
Turned(q, h, e) == h # NoEvent /\ (e = h \/ Precedes(q, h, e))
Sooner(q, h, e, f) == \/ Turned(q, h, e) /\ ~Turned(q, h, f)
                      \/ (Turned(q, h, f) => Turned(q, h, e)) /\ Precedes(q, e, f)
Passed(e) == Turned(queue, task.first, e)
Earlier(e, f) == Sooner(queue, task.first, e, f)

\* A client that is deleted, or that the task is to delete with its queue purged.
Leaves(c) == /\ task.ev.arg = c
             /\ task.at \in {"abort", "unlink"} \cup Leaving \/ Calls({"closeAbort"})
Closing(c) == Leaves(c) \/ (task.ev.arg = c /\ Calls({"close"}))
Gone(c) == obj[c].conn # 0 /\ ~obj[c].live
Silent(c) == Gone(c) \/ Closing(c)

\* No event is queued twice; the tcpip thread sends data and FINs, which are new.
QueueSound ==
  /\ NoneTwice(queue)
  /\ task.at # "purge" => task.first = NoEvent
  /\ task.at = "purge" /\ task.first # NoEvent =>
       task.first \in Elems(queue) /\ ~Matches(task.first)
  /\ \A e \in Elems(queue) : e.id <= data /\ (e.event # "RECV" => e.id = 0)
LwipFresh ==
  lwip.at # "idle" => /\ lwip.ev.event \in {"RECV", "FIN"} /\ lwip.ev \notin Elems(queue)
                      /\ lwip.ev.id <= data /\ (lwip.ev.event # "RECV" => lwip.ev.id = 0)
                      /\ lwip.at \in LwipFin => lwip.ev.event = "FIN"
\* A client is accepted once, and closed or deleted only then.
Installs ==
  /\ \A e \in Elems(queue) : e.event = "ACCEPT" => ~obj[e.arg].ready
  /\ task.at = "accept" => \A e \in Elems(queue) : ~Of("ACCEPT", task.ev.arg, e)
  /\ \A c \in Clients : Silent(c) => obj[c].ready
  /\ task.at \in {"close", "detach"} \/ Calls({"recvedAndClose"}) => This.ready
\* The client of data that is on its way is not being deleted.
DataKeepsClient ==
  lwip.at = "send" /\ lwip.ev.event = "RECV" => LET c == lwip.ev.arg IN
    /\ obj[c].pcb # NULL /\ ~Leaves(c) /\ ~(task.at = "error" /\ task.ev.arg = c)
    /\ \A e \in Elems(queue) : ~Of("ERROR", c, e)
    /\ task.at = "call" /\ task.ev.arg = c /\ "pcb" \in task.read => task.pcb # NULL
\* An error, which deletes its client without a purge, is the client's last event.
ErrorsLast ==
  /\ \A e, f \in Elems(queue) :
       e.event = "RECV" /\ f.event = "ERROR" /\ e.arg = f.arg => Earlier(e, f)
  /\ task.at = "error" => \A e \in Elems(queue) :
                            e.arg = task.ev.arg => e.event \notin {"RECV", "ERROR"}
\* The purge of a deleted client comes before the data left of it,
PurgeComes(e) ==
  IF task.at = "purge" /\ task.ev.arg = e.arg THEN ~Passed(e)
  ELSE \E f \in Elems(queue) : Of("CLEAR", e.arg, f) /\ Earlier(f, e)
DataPurged ==
  /\ \A e \in Elems(queue) : e.event \in {"RECV", "ERROR"} /\ Silent(e.arg) => PurgeComes(e)
  /\ Calls({"close"}) => \E f \in Elems(queue) : Of("CLEAR", task.ev.arg, f)
\* and before a FIN, so that there is one purge at a time.
ClearsFirst ==
  /\ \A e, f \in Elems(queue) :
       e.event = "CLEAR" /\ f.event = "FIN" /\ e.arg = f.arg => Earlier(e, f)
  /\ \A e \in Elems(queue) : e.event = "CLEAR" => Over(e.arg)
  /\ lwip.at # "idle" /\ lwip.ev.event = "FIN" =>
       \A e \in Elems(queue) : Of("CLEAR", lwip.ev.arg, e) =>
         Head(queue) = e /\ (task.at \in {"get", "deleted"} \/ Closing(e.arg))
  /\ task.at \in {"detach", "fin"} => \A e \in Elems(queue) : ~Of("CLEAR", task.ev.arg, e)
\* Deleted clients have been told, and have no pcb.
GoneTold ==
  /\ \A c \in Clients : Gone(c) => obj[c].conn \in told
  /\ \A c \in Clients : ~obj[c].live => obj[c].pcb = NULL
  /\ task.at \in Leaving => This.conn \in told
\* What the task handles, but for a FIN, is for a client that lives, until _recv deletes it
\* and goes on with its data.
WorksLive ==
  /\ Working /\ task.ev.event # "FIN" /\ task.at # "deleted" => This.live
  /\ task.at = "deleted" => task.ev.event = "RECV"
LateParts == QueueSound /\ LwipFresh /\ Installs /\ DataKeepsClient /\ ErrorsLast /\ DataPurged
             /\ ClearsFirst /\ GoneTold /\ WorksLive

\* No event is the one that stands for none.
LEMMA NoEventIsNone == NoEvent \notin AnEvent
BY DEF NoEvent, Event, AnEvent, Events

LEMMA ElemsAre == \A q : Elems(q) = Members(q)
BY DEF Elems, Members

\* What the four ways in which the queue changes leave of the order of its events.
LEMMA OrderAppending ==
  ASSUME NEW q \in Seq(AnEvent), NEW e \in AnEvent, e \notin Elems(q), NoneTwice(q),
         NEW h, h # NoEvent => h \in Elems(q)
  PROVE  /\ NoneTwice(Append(q, e))
         /\ \A x \in Elems(q) : Turned(Append(q, e), h, x) <=> Turned(q, h, x)
         /\ \A x, y \in Elems(q) : Sooner(q, h, x, y) => Sooner(Append(q, e), h, x, y)
         /\ h = NoEvent => \A x \in Elems(q) : Sooner(Append(q, e), h, x, e)
<1>1. NoneTwice(Append(q, e))
  BY NoneTwiceStays, ElemsAre
<1>2. \A x, y : Precedes(Append(q, e), x, y) <=> Precedes(q, x, y) \/ (x \in Elems(q) /\ y = e)
  BY PrecedesAppending, ElemsAre
<1>3. \A x \in Elems(q) : Turned(Append(q, e), h, x) <=> Turned(q, h, x)
  BY <1>2 DEF Turned
<1> QED
  BY <1>1, <1>2, <1>3 DEF Sooner, Turned

LEMMA OrderPrepending ==
  ASSUME NEW q \in Seq(AnEvent), NEW e \in AnEvent, e \notin Elems(q), NoneTwice(q),
         NEW h, h # NoEvent => h \in Elems(q)
  PROVE  /\ NoneTwice(<<e>> \o q)
         /\ \A x \in Elems(q) : Turned(<<e>> \o q, h, x) <=> Turned(q, h, x)
         /\ \A x, y \in Elems(q) : Sooner(q, h, x, y) => Sooner(<<e>> \o q, h, x, y)
         /\ h = NoEvent => \A x \in Elems(q) : Sooner(<<e>> \o q, h, e, x)
<1> DEFINE s == <<e>> \o q
<1>1. NoneTwice(s)
  BY NoneTwiceStays, ElemsAre
<1>2. /\ \A x, y : x # e => (Precedes(s, x, y) <=> Precedes(q, x, y))
      /\ \A x \in Elems(q) : Precedes(s, e, x)
  BY PrecedesPrepending, ElemsAre
<1> HIDE DEF s
<1>3. \A x \in Elems(q) : Turned(s, h, x) <=> Turned(q, h, x)
  BY <1>2 DEF Turned
<1>4. \A x, y \in Elems(q) : Sooner(q, h, x, y) => Sooner(s, h, x, y)
  BY <1>2, <1>3 DEF Sooner
<1>5. h = NoEvent => \A x \in Elems(q) : Sooner(s, h, e, x)
  BY <1>2 DEF Sooner, Turned
<1> QED
  BY <1>1, <1>3, <1>4, <1>5 DEF s

LEMMA OrderTaking ==
  ASSUME NEW q \in Seq(AnEvent), q # <<>>, NoneTwice(q),
         NEW h, h # NoEvent => h \in Elems(q) /\ h # Head(q)
  PROVE  /\ Tail(q) \in Seq(AnEvent) /\ NoneTwice(Tail(q)) /\ Head(q) \notin Elems(Tail(q))
         /\ \A x \in Elems(Tail(q)) : Turned(Tail(q), h, x) <=> Turned(q, h, x)
         /\ \A x, y \in Elems(Tail(q)) : Sooner(q, h, x, y) => Sooner(Tail(q), h, x, y)
         /\ \A x : ~Precedes(q, x, Head(q))
<1> DEFINE s == Tail(q)
<1>0. s \in Seq(AnEvent) /\ Head(q) \in AnEvent
  BY Taking
<1>1. NoneTwice(s) /\ Head(q) \notin Elems(s)
  BY <1>0, NoneTwiceStays, ElemsAre
<1>2. /\ \A x, y : x # Head(q) => (Precedes(s, x, y) <=> Precedes(q, x, y))
      /\ \A x : ~Precedes(q, x, Head(q))
  BY PrecedesTaking
<1> HIDE DEF s
<1>3. \A x \in Elems(s) : Turned(s, h, x) <=> Turned(q, h, x)
  BY <1>2 DEF Turned
<1>4. \A x, y \in Elems(s) : Sooner(q, h, x, y) => Sooner(s, h, x, y)
  BY <1>1, <1>2, <1>3 DEF Sooner
<1> QED
  BY <1>0, <1>1, <1>2, <1>3, <1>4 DEF s

\* The first event goes to the end, and is turned; g is the first one to be turned.
LEMMA OrderTurning ==
  ASSUME NEW q \in Seq(AnEvent), q # <<>>, NoneTwice(q),
         NEW h, h # NoEvent => h \in Elems(q) /\ h # Head(q),
         NEW g, g = (IF h = NoEvent THEN Head(q) ELSE h)
  PROVE  /\ Append(Tail(q), Head(q)) \in Seq(AnEvent) /\ NoneTwice(Append(Tail(q), Head(q)))
         /\ Elems(Append(Tail(q), Head(q))) = Elems(q)
         /\ \A x \in Elems(q) : x # Head(q) =>
              (Turned(Append(Tail(q), Head(q)), g, x) <=> Turned(q, h, x))
         /\ \A x, y \in Elems(q) : Sooner(q, h, x, y) => Sooner(Append(Tail(q), Head(q)), g, x, y)
<1> DEFINE t == Tail(q)
           e == Head(q)
           s == Append(t, e)
<1>0. t \in Seq(AnEvent) /\ e \in AnEvent /\ Elems(q) = Elems(t) \cup {e}
  BY Taking
<1>1. NoneTwice(t) /\ e \notin Elems(t)
  BY <1>0, NoneTwiceStays, ElemsAre
<1>2. /\ \A x, y : x # e => (Precedes(t, x, y) <=> Precedes(q, x, y))
      /\ \A x : ~Precedes(q, x, e)
  BY PrecedesTaking
<1> HIDE DEF t, e
<1>3. s \in Seq(AnEvent) /\ Elems(s) = Elems(q) /\ NoneTwice(s)
  BY <1>0, <1>1, Appending, NoneTwiceStays, ElemsAre
<1>4. \A x, y : Precedes(s, x, y) <=> Precedes(t, x, y) \/ (x \in Elems(t) /\ y = e)
  BY <1>0, PrecedesAppending, ElemsAre
<1> HIDE DEF s
<1>5. \A x : ~Precedes(s, e, x)
  <2>1. \A x : ~Precedes(t, e, x)
    BY <1>0, <1>1, PrecedesMembers, ElemsAre
  <2> QED
    BY <1>1, <1>4, <2>1
<1>6. \A x, y : x # e /\ y # e => (Precedes(s, x, y) <=> Precedes(q, x, y))
  BY <1>2, <1>4
<1>7. \A x \in Elems(q) : x # e => Precedes(s, x, e)
  BY <1>0, <1>4
<1>8. h # NoEvent => h # e /\ h \in Elems(q) /\ g = h
  BY DEF e
<1>9. h = NoEvent => g = e
  BY DEF e
<1>10. \A x \in Elems(q) : x # e => (Turned(s, g, x) <=> Turned(q, h, x))
  BY <1>5, <1>6, <1>8, <1>9, NoEventIsNone, <1>0 DEF Turned
<1>11. Turned(s, g, e) /\ ~Turned(q, h, e)
  BY <1>0, <1>2, <1>7, <1>8, <1>9, NoEventIsNone DEF Turned
<1>12. ASSUME NEW x \in Elems(q), NEW y \in Elems(q), Sooner(q, h, x, y)
       PROVE  Sooner(s, g, x, y)
  <2>1. CASE x = e
    <3>1. Precedes(q, e, y) /\ ~Turned(q, h, y)
      BY <1>11, <1>12, <2>1 DEF Sooner
    <3>2. y # e
      BY <1>2, <3>1
    <3> QED
      BY <1>10, <1>11, <2>1, <3>1, <3>2 DEF Sooner
  <2>2. CASE x # e /\ y = e
    <3>1. Turned(q, h, x)
      BY <1>2, <1>12, <2>2 DEF Sooner
    <3> QED
      BY <1>7, <1>10, <2>2, <3>1 DEF Sooner
  <2>3. CASE x # e /\ y # e
    BY <1>6, <1>10, <1>12, <2>3 DEF Sooner
  <2> QED
    BY <2>1, <2>2, <2>3
<1> QED
  BY <1>3, <1>10, <1>12 DEF s, t, e

\* The invariant.
LateInv == StrayInv /\ LateParts

\* A step of the tcpip thread that queues nothing.
LEMMA LateTcpip ==
  ASSUME LateInv, StrayInv', UNCHANGED <<queue, task, told>>, data' >= data,
         \A c \in Clients : /\ obj'[c].live = obj[c].live /\ obj'[c].ready = obj[c].ready
                            /\ obj'[c].conn = obj[c].conn
                            /\ obj'[c].pcb = obj[c].pcb \/ obj'[c].pcb = NULL,
         \A p \in Pcbs : pcb'[p].arg \in {pcb[p].arg, NULL},
         LwipFresh', DataKeepsClient',
         lwip'.at # "idle" /\ lwip'.ev.event = "FIN" =>
           \/ lwip.at # "idle" /\ lwip'.ev = lwip.ev
           \/ ~Over(lwip'.ev.arg)
  PROVE  LateParts'
<1> USE DEF LateInv, LateParts, StrayInv, OnceInv
<1>1. \A c \in Clients : Over(c) => Over(c)'
  BY NullAssumption DEF Over
<1>2. task.at # "get" => task.ev.arg \in Clients
  BY AllFields
<1>3. \A e \in Elems(queue) : e.arg \in Clients /\ e.id \in Nat
  BY AllFields, BoundsAssumption DEF AnEvent
<1>4. \A c \in Clients : Silent(c)' <=> Silent(c)
  BY DEF Silent, Gone, Closing, Leaves, Calls
<1>5. QueueSound'
  BY <1>3 DEF QueueSound, Matches, AllTyped
<1>6. Installs'
  BY <1>2, <1>3, <1>4 DEF Installs, Of, Calls, This
<1>7. ErrorsLast'
  BY DEF ErrorsLast, Earlier
<1>8. DataPurged'
  BY <1>3, <1>4 DEF DataPurged, PurgeComes, Passed, Earlier, Of, Calls
<1>9. ClearsFirst'
  BY <1>1, <1>3 DEF ClearsFirst, Earlier, Of, Closing, Leaves, Calls
<1>10. GoneTold'
  BY <1>2 DEF GoneTold, Gone, This, Leaving
<1>11. WorksLive'
  BY <1>2 DEF WorksLive, Working, This
<1> QED
  BY <1>5, <1>6, <1>7, <1>8, <1>9, <1>10, <1>11

\* A step of the task that leaves the queue as it is, and takes it to no event.
LEMMA LateTask ==
  ASSUME LateInv, StrayInv', UNCHANGED <<queue, lwip, data>>, NEW a \in Clients, task.ev.arg = a,
         task.at \notin {"get", "purge"}, task'.at \notin {"purge", "fin", "error", "accept"},
         task'.first = NoEvent, task'.at # "get" => task'.ev = task.ev, told \subseteq told',
         \A c \in Clients : /\ obj'[c].conn = obj[c].conn
                            /\ obj'[c].live = obj[c].live \/ c = a
                            /\ obj'[c].ready = obj[c].ready \/ c = a
                            /\ obj'[c].pcb = obj[c].pcb \/ obj'[c].pcb = NULL,
         obj'[a].ready = obj[a].ready \/ (task.at = "accept" /\ obj'[a].ready),
         obj'[a].live = obj[a].live \/ (task.at = "delete" /\ ~obj'[a].live /\ task'.at \in {"get", "deleted"}),
         task'.at = "deleted" => task.at \in {"delete", "deleted"} /\ task.ev.event = "RECV",
         task.at = "deleted" => task'.at \in {"get", "deleted"},
         \A p \in Pcbs : pcb'[p].arg \in {pcb[p].arg, NULL},
         task'.at \in {"close", "detach", "abort", "unlink"} \cup Leaving => obj[a].ready,
         Calls({"recvedAndClose", "close", "closeAbort"})' => obj[a].ready,
         Closing(a)' => Closing(a) \/ task.at = "error",
         Closing(a) => Closing(a)' \/ task'.at \in {"get", "deleted"},
         Calls({"close"})' => Calls({"close"}),
         task'.at = "detach" => obj[a].pcb # NULL /\ ~Parts(a),
         task'.at \in Leaving => obj[a].conn \in told',
         lwip.at = "send" /\ lwip.ev.event = "RECV" /\ lwip.ev.arg = a =>
           /\ obj'[a].pcb # NULL /\ ~Leaves(a)'
           /\ task'.at = "call" /\ "pcb" \in task'.read => task'.pcb # NULL,
         \A c \in Clients : c # a => obj'[c].pcb = obj[c].pcb
  PROVE  LateParts'
<1> USE DEF LateInv, LateParts, StrayInv, OnceInv
<1>1. \A c \in Clients : Over(c) => Over(c)'
  BY NullAssumption DEF Over
<1>2. \A e \in Elems(queue) : e.arg \in Clients
  BY AllFields
<1>3. lwip.at # "idle" => lwip.ev.arg \in Clients
  BY AllFields
<1>4. task'.at # "get" => task'.ev.arg = a
  OBVIOUS
<1>5. task.first = NoEvent
  BY DEF QueueSound
<1>6. \A c \in Clients : c # a => (Silent(c)' <=> Gone(c)) /\ (Gone(c)' <=> Gone(c))
  <2> SUFFICES ASSUME NEW c \in Clients, c # a PROVE ~Closing(c)' /\ (Gone(c)' <=> Gone(c))
    BY DEF Silent
  <2>1. task'.at = "get" => ~Closing(c)'
    BY DEF Closing, Leaves, Leaving, Calls
  <2>2. task'.at # "get" => ~Closing(c)'
    BY <1>4 DEF Closing, Leaves
  <2> QED
    BY <2>1, <2>2 DEF Gone
<1>7. Silent(a)' => Silent(a) \/ task.at = "error"
  BY DEF Silent, Gone, Closing, Leaves, Leaving
<1>8. QueueSound'
  BY <1>5 DEF QueueSound
<1>9. LwipFresh'
  BY DEF LwipFresh
<1>10. Installs'
  <2>1. ASSUME NEW e \in Elems(queue), e.event = "ACCEPT" PROVE ~obj'[e.arg].ready
    BY <1>2, <2>1 DEF Installs, Of
  <2>2. ASSUME NEW c \in Clients, Silent(c)' PROVE obj'[c].ready
    <3>1. CASE c # a
      BY <1>6, <2>2, <3>1 DEF Installs, Silent
    <3>2. CASE c = a
      <4>1. Silent(a) \/ Closing(a)'
        BY <2>2, <3>2 DEF Silent, Gone, Closing, Leaves, Leaving
      <4>2. Closing(a)' => obj[a].ready
        BY DEF Closing, Leaves, Calls
      <4> QED
        BY <3>2, <4>1, <4>2 DEF Installs
    <3> QED
      BY <3>1, <3>2
  <2>3. task'.at \in {"close", "detach"} \/ Calls({"recvedAndClose"})' => This'.ready
    BY <1>4 DEF Calls, This
  <2> QED
    BY <2>1, <2>2, <2>3 DEF Installs
<1>11. DataKeepsClient'
  <2> SUFFICES ASSUME lwip.at = "send", lwip.ev.event = "RECV" PROVE DataKeepsClient'
    BY DEF DataKeepsClient
  <2>1. CASE lwip.ev.arg = a
    BY <2>1 DEF DataKeepsClient
  <2>2. CASE lwip.ev.arg # a
    <3>1. ~Leaves(lwip.ev.arg)'
      BY <1>4, <2>2 DEF Leaves, Leaving, Calls
    <3> QED
      BY <1>3, <1>4, <2>2, <3>1 DEF DataKeepsClient
  <2> QED
    BY <2>1, <2>2
<1>12. ErrorsLast'
  BY <1>5 DEF ErrorsLast, Earlier
<1>13. DataPurged'
  <2>1. ASSUME NEW e \in Elems(queue), e.event \in {"RECV", "ERROR"}, Silent(e.arg)'
        PROVE  PurgeComes(e)'
    <3>1. Silent(e.arg)
      BY <1>2, <1>6, <1>7, <2>1 DEF ErrorsLast, Silent
    <3>2. PurgeComes(e)
      BY <2>1, <3>1 DEF DataPurged
    <3> QED
      BY <1>5, <3>2 DEF PurgeComes, Earlier
  <2>2. Calls({"close"})' => \E f \in Elems(queue) : Of("CLEAR", task'.ev.arg, f)
    BY <1>4 DEF DataPurged, Calls
  <2> QED
    BY <2>1, <2>2 DEF DataPurged
<1>14. ClearsFirst'
  <2>1. ASSUME lwip.at # "idle", lwip.ev.event = "FIN", NEW e \in Elems(queue),
               Of("CLEAR", lwip.ev.arg, e)
        PROVE  Head(queue) = e /\ (task'.at \in {"get", "deleted"} \/ Closing(e.arg)')
    <3>1. Head(queue) = e /\ (task.at = "deleted" \/ Closing(e.arg))
      BY <2>1 DEF ClearsFirst
    <3>2. Closing(e.arg) => e.arg = a
      BY DEF Closing, Leaves
    <3> QED
      BY <3>1, <3>2
  <2>2. task'.at = "detach" => \A e \in Elems(queue) : ~Of("CLEAR", task'.ev.arg, e)
    BY <1>4 DEF PurgesEnded, Cleared, Of
  <2> QED
    BY <1>1, <1>2, <1>5, <2>1, <2>2 DEF ClearsFirst, Earlier
<1>15. GoneTold'
  <2>1. ASSUME NEW c \in Clients, ~obj'[c].live PROVE obj'[c].pcb = NULL
    BY <2>1 DEF GoneTold, TaskOwn, Leaving, This
  <2>2. ASSUME NEW c \in Clients, Gone(c)' PROVE obj'[c].conn \in told'
    BY <2>2 DEF GoneTold, Gone, Leaving, This
  <2>3. task'.at \in Leaving => This'.conn \in told'
    BY <1>4 DEF This, Leaving
  <2> QED
    BY <2>1, <2>2, <2>3 DEF GoneTold
<1>16. WorksLive'
  BY <1>4 DEF WorksLive, Working, This
<1> QED
  BY <1>8, <1>9, <1>10, <1>11, <1>12, <1>13, <1>14, <1>15, <1>16

\* Where the task goes, it has no packet of a purge in mind.
LEMMA TaskLeads ==
  ASSUME AllTyped
  PROVE  /\ \A at \in TaskPlaces : Goto(at) =>
              task'.first = NoEvent /\ task'.at = at /\ (at # "get" => task'.ev = task.ev)
         /\ \A op \in Ops : Call(op) =>
              /\ task'.first = NoEvent /\ task'.at = "call" /\ task'.ev = task.ev
              /\ task'.op = op /\ task'.read = {}
         /\ NextBuf => /\ task'.first = NoEvent /\ task'.at \in {"get", "app", "deleted"}
                       /\ task'.at # "get" =>
                            /\ task'.ev = task.ev
                            /\ task'.at = IF task.at = "deleted" THEN "deleted" ELSE "app"
<1>3. ASSUME NextBuf PROVE task'.first = NoEvent
  <2> DEFINE at == IF task.at = "deleted" THEN "deleted" ELSE "app"
  <2>1. task' = TaskIdle \/ task' = [TaskIdle EXCEPT !.at = at, !.ev = task.ev]
    BY <1>3 DEF NextBuf
  <2>2. TaskIdle.first = NoEvent /\ TaskIdle \in TaskStates
    BY TaskStateIs DEF TaskIdle
  <2> HIDE DEF at
  <2> QED
    BY <2>1, <2>2 DEF TaskStates
<1>1. ASSUME NEW at \in TaskPlaces, Goto(at) PROVE task'.first = NoEvent
  BY <1>1 DEF Goto, TaskIdle
<1>2. ASSUME NEW op \in Ops, Call(op) PROVE task'.first = NoEvent
  BY <1>2 DEF Call, TaskIdle
<1> QED
  BY <1>1, <1>2, <1>3, GotoLeads, CallLeads, NextBufLeads

\* A step of the task that changes no connection.
LEMMA LateStill ==
  ASSUME LateInv, StrayInv', UNCHANGED <<obj, pcb, queue, lwip, told, data>>,
         NEW a \in Clients, task.ev.arg = a, task.at \notin {"get", "purge"},
         task'.at \in {"get", "app", "call", "close", "detach", "abort", "unlink", "count", "delete",
                       "deleted"},
         task'.at = "deleted" => task.at = "deleted",
         task.at = "deleted" => task'.at \in {"get", "deleted"},
         task'.first = NoEvent, task'.at # "get" => task'.ev = task.ev,
         task'.at \in {"abort", "unlink"} \cup Leaving \/ Calls({"closeAbort"})' => Leaves(a),
         task'.at \in Leaving => task.at \in Leaving,
         Leaves(a) => Leaves(a)',
         Calls({"close"})' => Calls({"close"}), Calls({"close"}) => Calls({"close"})',
         task'.at = "detach" => obj[a].pcb # NULL /\ ~Parts(a),
         task'.at \in {"close", "detach"} \/ Calls({"recvedAndClose"})' => obj[a].ready,
         task'.at = "call" /\ "pcb" \in task'.read =>
           \/ task'.pcb = obj[a].pcb
           \/ task.at = "call" /\ "pcb" \in task.read /\ task'.pcb = task.pcb
  PROVE  LateParts'
<1> USE DEF LateInv, LateParts
<1>1. Closing(a)' => Closing(a)
  BY DEF Closing, Leaves, Leaving, Calls
<1>2. Closing(a) => Closing(a)'
  BY DEF Closing, Leaves, Leaving, Calls
<1>3. Closing(a) => obj[a].ready
  BY DEF Installs, Silent
<1>4. /\ task'.at \in {"close", "detach", "abort", "unlink"} \cup Leaving => obj[a].ready
      /\ Calls({"recvedAndClose", "close", "closeAbort"})' => obj[a].ready
  BY <1>3 DEF Closing, Calls
<1>5. task'.at \in Leaving => obj[a].conn \in told'
  BY DEF GoneTold, This
<1>6. lwip.at = "send" /\ lwip.ev.event = "RECV" /\ lwip.ev.arg = a =>
           /\ obj'[a].pcb # NULL /\ ~Leaves(a)'
           /\ task'.at = "call" /\ "pcb" \in task'.read => task'.pcb # NULL
  <2>1. ~Leaves(a) => ~Leaves(a)'
    BY DEF Leaves
  <2> QED
    BY <2>1 DEF DataKeepsClient
<1>7. /\ task'.at \notin {"purge", "fin", "error", "accept"}
      /\ task'.at = "deleted" => task.ev.event = "RECV"
  BY DEF Leaving, WorksLive
<1> QED
  BY <1>1, <1>2, <1>4, <1>5, <1>6, <1>7, LateTask

LEMMA LateQuiet ==
  ASSUME LateInv, StrayInv',
         \/ AppReturn \/ AppWrite \/ AppClose \/ AppAbort \/ Close \/ CloseAbort \/ DeleteLoad
         \/ DeleteCount
  PROVE  LateParts'
<1> USE DEF LateInv, StrayInv, OnceInv
<1>0. PICK a \in Clients : task.ev.arg = a
  BY AllFields DEF AppReturn, AppWrite, AppClose, AppAbort, AppCalls, Close, CloseAbort,
                   InApp, DeleteLoad, DeleteCount
<1>1. UNCHANGED <<obj, pcb, queue, lwip, told, data>>
  BY DEF AppReturn, AppWrite, AppClose, AppAbort, AppCalls, Close, CloseAbort, DeleteLoad, DeleteCount,
         shared
<1>p. /\ {"get", "app", "detach", "unlink", "delete"} \subseteq TaskPlaces
      /\ {"recved", "write", "recvedAndClose", "abort", "closeAbort"} \subseteq Ops
  BY DEF TaskPlaces, Ops
<1>2. CASE AppReturn \/ AppWrite \/ AppAbort
  <2>1. /\ task.at \in {"app", "deleted"} /\ (task.at = "deleted" => obj[a].pcb = NULL)
        /\ NextBuf \/ (obj[a].pcb # NULL /\ \E op \in {"recved", "write", "abort"} : Call(op))
    BY <1>0, <1>2 DEF AppReturn, AppWrite, AppAbort, AppCalls, InApp, This, TaskOwn
  <2>2. /\ task'.first = NoEvent
        /\ \/ task'.at = "get"
           \/ task'.at = task.at /\ task'.ev = task.ev
           \/ task.at = "app" /\ task'.at = "call" /\ task'.ev = task.ev /\ task'.read = {}
              /\ task'.op \in {"recved", "write", "abort"}
    <3>1. CASE NextBuf
      BY <2>1, <3>1, TaskLeads
    <3>2. CASE obj[a].pcb # NULL /\ \E op \in {"recved", "write", "abort"} : Call(op)
      BY <2>1, <3>2, <1>p, TaskLeads
    <3> QED
      BY <2>1, <3>1, <3>2
  <2> QED
    BY <1>0, <1>1, <2>1, <2>2, LateStill DEF Leaves, Leaving, Calls
<1>3. CASE AppClose
  <2>1. task.at = "app" /\ obj[a].ready /\ Call("recvedAndClose")
    BY <1>0, <1>3 DEF AppClose, AppCalls, InApp, This, TaskOwn
  <2>2. /\ task'.first = NoEvent /\ task'.at = "call" /\ task'.ev = task.ev /\ task'.read = {}
        /\ task'.op = "recvedAndClose"
    BY <2>1, <1>p, TaskLeads
  <2> QED
    BY <1>0, <1>1, <2>1, <2>2, LateStill DEF Leaves, Leaving, Calls
<1>4. CASE Close
  <2>1. /\ task.at = "close" /\ obj[a].ready
        /\ Goto("app") \/ (obj[a].pcb # NULL /\ Goto("detach"))
    BY <1>0, <1>4 DEF Close, This, LateParts, Installs
  <2>2. /\ task'.first = NoEvent /\ task'.ev = task.ev
        /\ task'.at = "app" \/ (task'.at = "detach" /\ obj[a].pcb # NULL)
    BY <2>1, <1>p, TaskLeads
  <2> QED
    BY <1>0, <1>1, <2>1, <2>2, LateStill DEF Leaves, Leaving, Calls, Parts
<1>5. CASE CloseAbort
  <2>1. task.at = "abort" /\ (Goto("unlink") \/ Call("closeAbort"))
    BY <1>5 DEF CloseAbort
  <2>2. /\ task'.first = NoEvent /\ task'.ev = task.ev
        /\ task'.at = "unlink"
           \/ (task'.at = "call" /\ task'.op = "closeAbort" /\ task'.read = {})
    BY <2>1, <1>p, TaskLeads
  <2> QED
    BY <1>0, <1>1, <2>1, <2>2, LateStill DEF Leaves, Leaving, Calls, Parts
<1>6. CASE DeleteCount
  <2>1. task.at = "count" /\ Goto("delete")
    BY <1>6 DEF DeleteCount
  <2>2. task'.first = NoEvent /\ task'.ev = task.ev /\ task'.at = "delete"
    BY <2>1, <1>p, TaskLeads
  <2> QED
    BY <1>0, <1>1, <2>1, <2>2, LateStill DEF Leaves, Leaving, Calls, Parts
<1>7. CASE DeleteLoad
  <2>1. task.at = "load" /\ task' = [task EXCEPT !.at = "count", !.tmp = index]
    BY <1>7 DEF DeleteLoad
  <2>2. task'.first = NoEvent /\ task'.ev = task.ev /\ task'.at = "count"
    BY <2>1 DEF AllTyped, TaskStates, LateParts, QueueSound
  <2> QED
    BY <1>0, <1>1, <2>1, <2>2, LateStill DEF Leaves, Leaving, Calls, Parts
<1> QED
  BY <1>2, <1>3, <1>4, <1>5, <1>6, <1>7

LEMMA LateReads ==
  ASSUME LateInv, StrayInv', ReadPcb \/ ReadSlot PROVE LateParts'
<1> USE DEF LateInv, StrayInv, OnceInv
<1>0. PICK a \in Clients : task.ev.arg = a
  BY AllFields DEF ReadPcb, ReadSlot
<1>1. task.at = "call" /\ task \in TaskStates /\ UNCHANGED <<obj, pcb, queue, lwip, told, data>>
  BY DEF ReadPcb, ReadSlot, shared, AllTyped
<1>2. /\ task'.at = task.at /\ task'.ev = task.ev /\ task'.op = task.op /\ task'.first = task.first
      /\ \/ task'.pcb = obj[a].pcb
         \/ task'.read = task.read \cup {"slot"} /\ task'.pcb = task.pcb
  <2>1. CASE ReadPcb
    <3>1. task' = [task EXCEPT !.pcb = obj[a].pcb, !.read = task.read \cup {"pcb"}]
      BY <1>0, <2>1 DEF ReadPcb, This
    <3> QED
      BY <1>1, <3>1 DEF TaskStates
  <2>2. CASE ReadSlot
    <3>1. task' = [task EXCEPT !.slot = obj[a].slot, !.read = task.read \cup {"slot"}]
      BY <1>0, <2>2 DEF ReadSlot, This
    <3> QED
      BY <1>1, <3>1 DEF TaskStates
  <2> QED
    BY <2>1, <2>2
<1>3. task.first = NoEvent
  BY <1>1 DEF LateParts, QueueSound
<1>4. Calls({"recvedAndClose"})' => obj[a].ready
  BY <1>0, <1>1, <1>2 DEF LateParts, Installs, Calls, This
<1>5. Leaves(a)' <=> Leaves(a)
  BY <1>1, <1>2 DEF Leaves, Calls
<1>6. Calls({"close"})' <=> Calls({"close"})
  BY <1>1, <1>2 DEF Calls
<1>7. Calls({"closeAbort"})' => Leaves(a)
  BY <1>0, <1>1, <1>2 DEF Leaves, Calls
<1> QED
  BY <1>0, <1>1, <1>2, <1>3, <1>4, <1>5, <1>6, <1>7, LateStill DEF Leaving

\* The application installs its callbacks.
LEMMA LateAccepted ==
  ASSUME LateInv, StrayInv', Accepted PROVE LateParts'
<1> USE DEF LateInv, StrayInv, OnceInv
<1>0. PICK a \in Clients : task.ev.arg = a
  BY AllFields DEF Accepted
<1>1. task.at = "accept" /\ UNCHANGED <<pcb, queue, lwip, told, data>>
  BY DEF Accepted
<1>2. task'.at = "app" /\ task'.first = NoEvent /\ task'.ev = task.ev
  BY TaskLeads DEF Accepted, TaskPlaces
<1>3. \A c \in Clients : /\ obj'[c].conn = obj[c].conn /\ obj'[c].live = obj[c].live
                         /\ obj'[c].pcb = obj[c].pcb
                         /\ c # a => obj'[c].ready = obj[c].ready
  <2>1. obj' = [obj EXCEPT ![a].ready = TRUE]
    BY <1>0 DEF Accepted
  <2> QED
    BY <2>1 DEF AllTyped, Objects
<1>4. obj'[a].ready
  <2>1. obj' = [obj EXCEPT ![a].ready = TRUE]
    BY <1>0 DEF Accepted
  <2> QED
    BY <2>1 DEF AllTyped, Objects
<1>5. ~Closing(a)' /\ ~Closing(a) /\ ~Leaves(a)'
  BY <1>1, <1>2 DEF Closing, Leaves, Leaving, Calls
<1>6. lwip.at = "send" /\ lwip.ev.event = "RECV" /\ lwip.ev.arg = a => obj'[a].pcb # NULL
  BY <1>3 DEF LateParts, DataKeepsClient
<1> QED
  BY <1>0, <1>1, <1>2, <1>3, <1>4, <1>5, <1>6, LateTask DEF Leaving, Calls

\* What AfterCall does to the task and to what the clients have.
LEMMA AfterCallLeads ==
  ASSUME OnceInv, NEW ok \in BOOLEAN, NEW o \in [Clients -> Objects], AfterCall(ok, o),
         ArgumentsRead, NEW a \in Clients, task.ev.arg = a,
         \A c \in Clients : /\ o[c].live = obj[c].live /\ o[c].conn = obj[c].conn
                            /\ o[c].pcb = obj[c].pcb /\ o[c].slot = obj[c].slot
                            /\ o[c].ready = obj[c].ready
  PROVE  /\ task.at = "call" /\ task'.first = NoEvent /\ (task'.at # "get" => task'.ev = task.ev)
         /\ task'.at \in {"get", "app", "close", "unlink", "abort"}
         /\ task'.at = "close" <=> task.op = "recvedAndClose"
         /\ task'.at \in {"unlink", "abort"} <=> task.op \in {"close", "closeAbort"}
         /\ \A c \in Clients :
              /\ obj'[c].live = obj[c].live /\ obj'[c].conn = obj[c].conn
              /\ obj'[c].ready = obj[c].ready
              /\ obj'[c].pcb = IF c = a /\ task.op \in {"closeAbort", "abort"} THEN NULL
                               ELSE obj[c].pcb
<1>1. {"get", "app", "close", "unlink", "abort"} \subseteq TaskPlaces /\ task.at = "call"
  BY DEF TaskPlaces, ArgumentsRead
<1>2. PICK at \in {"get", "app", "close", "unlink", "abort"} :
        /\ Goto(at) \/ (at = "app" /\ NextBuf)
        /\ at = "close" <=> task.op = "recvedAndClose"
        /\ at \in {"unlink", "abort"} <=> task.op \in {"close", "closeAbort"}
  BY DEF AfterCall
<1>3. /\ task'.first = NoEvent /\ (task'.at # "get" => task'.ev = task.ev)
      /\ task'.at = at \/ (at = "app" /\ task'.at = "get")
  BY <1>1, <1>2, TaskLeads DEF OnceInv
<1>4. \A c \in Clients : /\ obj'[c].live = obj[c].live /\ obj'[c].conn = obj[c].conn
                         /\ obj'[c].pcb = IF c = a /\ task.op \in {"closeAbort", "abort"} THEN NULL
                                          ELSE obj[c].pcb
  BY AfterCallIs
<1>5. \A c \in Clients : obj'[c].ready = obj[c].ready
  <2>1. obj' = o \/ obj' = [o EXCEPT ![a].pcb = NULL]
    BY DEF AfterCall, ClearPcb
  <2> QED
    BY <2>1 DEF Objects
<1> QED
  BY <1>1, <1>2, <1>3, <1>4, <1>5

\* A call that has returned and queued nothing.
LEMMA LateReturns ==
  ASSUME LateInv, StrayInv', UNCHANGED <<queue, lwip, told, data>>,
         NEW ok \in BOOLEAN, NEW o \in [Clients -> Objects], AfterCall(ok, o), ArgumentsRead,
         \A c \in Clients : /\ o[c].live = obj[c].live /\ o[c].conn = obj[c].conn
                            /\ o[c].pcb = obj[c].pcb /\ o[c].slot = obj[c].slot
                            /\ o[c].ready = obj[c].ready,
         \A p \in Pcbs : pcb'[p].arg \in {pcb[p].arg, NULL},
         lwip.at = "idle" \/ task.pcb = NULL
  PROVE  LateParts'
<1> USE DEF LateInv, LateParts, StrayInv
<1>0. PICK a \in Clients : task.ev.arg = a
  BY AllFields DEF OnceInv, ArgumentsRead
<1>1. /\ task.at = "call" /\ task'.first = NoEvent /\ (task'.at # "get" => task'.ev = task.ev)
      /\ task'.at \in {"get", "app", "close", "unlink", "abort"}
      /\ task'.at = "close" <=> task.op = "recvedAndClose"
      /\ task'.at \in {"unlink", "abort"} <=> task.op \in {"close", "closeAbort"}
      /\ \A c \in Clients :
           /\ obj'[c].live = obj[c].live /\ obj'[c].conn = obj[c].conn
           /\ obj'[c].ready = obj[c].ready
           /\ obj'[c].pcb = IF c = a /\ task.op \in {"closeAbort", "abort"} THEN NULL
                            ELSE obj[c].pcb
  BY <1>0, AfterCallLeads
<1>2. Closing(a)' => Closing(a)
  BY <1>0, <1>1 DEF Closing, Leaves, Leaving, Calls
<1>3. Closing(a) => Closing(a)'
  BY <1>0, <1>1 DEF Closing, Leaves, Leaving, Calls
<1>4. task'.at \in {"close", "detach", "abort", "unlink"} \cup Leaving => obj[a].ready
  <2>1. Closing(a) => obj[a].ready
    BY DEF Installs, Silent
  <2>2. task'.at = "close" => obj[a].ready
    BY <1>0, <1>1 DEF Installs, Calls, This
  <2> QED
    BY <1>0, <1>1, <2>1, <2>2 DEF Closing, Leaves, Calls, Leaving
<1>5. ~(lwip.at = "send" /\ lwip.ev.event = "RECV" /\ lwip.ev.arg = a)
  BY <1>0, <1>1 DEF DataKeepsClient, ArgumentsRead
<1>6. ~Calls({"recvedAndClose", "close", "closeAbort"})' /\ ~Calls({"close"})'
  BY <1>1 DEF Calls
<1>7. task'.at \notin {"purge", "fin", "error", "accept", "detach"} \cup Leaving
  BY <1>1 DEF Leaving
<1> QED
  BY <1>0, <1>1, <1>2, <1>3, <1>4, <1>5, <1>6, <1>7, LateTask

LEMMA LateNoCall ==
  ASSUME LateInv, StrayInv', CallNull \/ CallRefused PROVE LateParts'
<1>1. /\ AfterCall(FALSE, obj) /\ ArgumentsRead /\ (lwip.at = "idle" \/ task.pcb = NULL)
      /\ UNCHANGED <<pcb, queue, lwip, told, data>>
  BY DEF CallNull, CallRefused
<1>2. obj \in [Clients -> Objects]
  BY DEF LateInv, StrayInv, OnceInv, AllTyped
<1> QED
  BY <1>1, <1>2, LateReturns

\* The end of close(), and that of an error.
LEMMA LateDiscard ==
  ASSUME LateInv, StrayInv', CloseDiscard \/ Error PROVE LateParts'
<1> USE DEF LateInv, StrayInv, OnceInv
<1>0. PICK a \in Clients : task.ev.arg = a
  BY AllFields DEF CloseDiscard, Error
<1>1. /\ task.at \in {"unlink", "error"} /\ Discarded /\ UNCHANGED <<queue, lwip, data>>
      /\ task.at = "error" <=> Error
  BY DEF CloseDiscard, Error
<1>2. /\ \/ /\ task'.at = "freeSlot" /\ task'.ev = task.ev /\ told' = told \cup {obj[a].conn}
            /\ obj[a].ready
         \/ task'.at = "get" /\ told' = told /\ ~obj[a].ready
      /\ task'.first = NoEvent
  <2>1. CASE obj[a].ready
    <3>1. told' = told \cup {obj[a].conn} /\ Goto("freeSlot")
      BY <1>0, <1>1, <2>1 DEF Discarded, This
    <3> QED
      BY <2>1, <3>1, TaskLeads DEF TaskPlaces
  <2>2. CASE ~obj[a].ready
    <3>1. told' = told /\ Goto("get")
      BY <1>0, <1>1, <2>2 DEF Discarded, This
    <3> QED
      BY <2>2, <3>1, TaskLeads DEF TaskPlaces
  <2> QED
    BY <2>1, <2>2
<1>3. \A c \in Clients : /\ obj'[c].live = obj[c].live /\ obj'[c].conn = obj[c].conn
                         /\ obj'[c].ready = obj[c].ready
                         /\ obj'[c].pcb = IF c = a THEN NULL ELSE obj[c].pcb
  <2>1. CASE CloseDiscard
    <3>1. obj' = [obj EXCEPT ![a].pcb = NULL]
      BY <1>0, <2>1 DEF CloseDiscard, ClearPcb
    <3> QED
      BY <3>1 DEF AllTyped, Objects
  <2>2. CASE Error
    <3>1. obj' = [Hits(obj[a].pcb) EXCEPT ![a].pcb = NULL]
      BY <1>0, <2>2 DEF Error, ClearPcb, This
    <3> QED
      BY <3>1, PcbLost DEF AllTyped
  <2> QED
    BY <1>1, <2>1, <2>2 DEF CloseDiscard, Error
<1>4. \A p \in Pcbs : pcb'[p].arg \in {pcb[p].arg, NULL}
  <2>1. \/ pcb' = pcb
        \/ obj[a].pcb # NULL /\ pcb' = [pcb EXCEPT ![obj[a].pcb].arg = NULL]
    BY <1>0 DEF CloseDiscard, Error, This
  <2> QED
    BY <2>1 DEF AllTyped, PcbRecords
<1>5. Closing(a) <=> task.at = "unlink"
  BY <1>0, <1>1 DEF Closing, Leaves, Leaving, Calls
<1>6. task.at = "unlink" => obj[a].ready
  BY <1>5 DEF LateParts, Installs, Silent
<1>7. ~(lwip.at = "send" /\ lwip.ev.event = "RECV" /\ lwip.ev.arg = a)
  BY <1>0, <1>1 DEF LateParts, DataKeepsClient, Leaves
<1>8. Closing(a)' \/ task'.at = "get"
  BY <1>0, <1>2 DEF Closing, Leaves, Leaving
<1>9. task'.at \in {"freeSlot", "get"} /\ told \subseteq told'
  BY <1>2
<1> QED
  BY <1>0, <1>1, <1>2, <1>3, <1>4, <1>5, <1>7, <1>8, <1>9, LateTask DEF Calls, Leaving

\* The destructor.
LEMMA LateDelete ==
  ASSUME LateInv, StrayInv', DeleteFreeSlot \/ DeleteForget \/ Delete PROVE LateParts'
<1> USE DEF LateInv, StrayInv, OnceInv
<1>0. PICK a \in Clients : task.ev.arg = a
  BY AllFields DEF DeleteFreeSlot, DeleteForget, Delete
<1>1. /\ task.at \in {"freeSlot", "forget", "delete"} /\ UNCHANGED <<pcb, queue, lwip, told, data>>
      /\ task.at = "delete" <=> Delete
  BY DEF DeleteFreeSlot, DeleteForget, Delete
<1>2. /\ task'.first = NoEvent /\ (task'.at # "get" => task'.ev = task.ev)
      /\ \/ task.at = "delete" /\ task'.at = "get"
         \/ task.at = "delete" /\ task'.at = "deleted" /\ task.ev.event = "RECV"
         \/ task.at # "delete" /\ task'.at \in {"forget", "load", "delete"}
  <2> {"get", "forget", "load", "delete", "deleted"} \subseteq TaskPlaces
    BY DEF TaskPlaces
  <2>1. \/ task.at = "delete" /\ Goto("get")
        \/ task.at = "delete" /\ Goto("deleted") /\ task.ev.event = "RECV"
        \/ task.at # "delete" /\ \E at \in {"forget", "load", "delete"} : Goto(at)
    BY DEF DeleteFreeSlot, DeleteForget, Delete
  <2> QED
    BY <2>1, TaskLeads
<1>3. \A c \in Clients : /\ obj'[c].conn = obj[c].conn /\ obj'[c].ready = obj[c].ready
                         /\ obj'[c].pcb = obj[c].pcb
                         /\ \/ obj'[c].live = obj[c].live
                            \/ c = a /\ task.at = "delete" /\ ~obj'[c].live
  <2>1. \/ obj' = obj
        \/ obj' = [obj EXCEPT ![a].slot = NoSlot]
        \/ obj' = [obj EXCEPT ![a].live = FALSE, ![a].hit = FALSE] /\ task.at = "delete"
    BY <1>0 DEF DeleteFreeSlot, DeleteForget, ForgetSlot, Delete
  <2>2. obj \in [Clients -> Objects]
    BY DEF AllTyped
  <2>3. CASE obj' = [obj EXCEPT ![a].slot = NoSlot]
    BY <2>2, <2>3 DEF Objects
  <2>4. CASE obj' = [obj EXCEPT ![a].live = FALSE, ![a].hit = FALSE] /\ task.at = "delete"
    BY <2>2, <2>4 DEF Objects
  <2> QED
    BY <2>1, <2>3, <2>4
<1>5. Leaves(a) /\ Closing(a) /\ (Closing(a)' \/ task'.at \in {"get", "deleted"})
  BY <1>0, <1>1, <1>2 DEF Closing, Leaves, Leaving
<1>6. obj[a].ready /\ obj[a].conn \in told
  BY <1>0, <1>1, <1>5 DEF LateParts, Installs, Silent, GoneTold, This, Leaving
<1>7. ~(lwip.at = "send" /\ lwip.ev.event = "RECV" /\ lwip.ev.arg = a)
  BY <1>5 DEF LateParts, DataKeepsClient
<1>8. task'.at \in {"get", "forget", "load", "delete", "deleted"}
  BY <1>2
<1>9. \/ obj'[a].live = obj[a].live
      \/ task.at = "delete" /\ ~obj'[a].live /\ task'.at \in {"get", "deleted"}
  BY <1>2, <1>3
<1> QED
  BY <1>0, <1>1, <1>2, <1>3, <1>5, <1>6, <1>7, <1>8, <1>9, LateTask DEF Calls, Leaving

\* The data that a callback brings is new, and so is its client's interest in it.
LEMMA LateCallback ==
  ASSUME LateInv, StrayInv', NEW p \in Pcbs, Callback(p) PROVE LateParts'
<1> USE DEF LateInv, StrayInv, OnceInv
<1>0. PICK c \in Clients : pcb[p].arg = c
  BY AllFields DEF Callback
<1>1. UNCHANGED <<obj, pcb, queue, task, told>> /\ data' = data + 1 /\ data \in Nat
  BY BoundsAssumption DEF Callback, shared, AllTyped
<1>2. /\ lwip'.at = "send" /\ lwip'.ev.event = "RECV" /\ lwip'.ev.arg = c
      /\ lwip'.ev.id = data + 1
  <2> DEFINE e == [Event("RECV", c, pcb[p].conn) EXCEPT !.id = data']
  <2>1. e.event = "RECV" /\ e.arg = c /\ e.id = data + 1
    BY <1>1 DEF Event
  <2>2. lwip' = [lwip EXCEPT !.at = "send", !.ev = e] /\ lwip \in LwipRecords
    BY <1>0 DEF Callback, AllTyped
  <2> HIDE DEF e
  <2> QED
    BY <2>1, <2>2 DEF LwipRecords
<1>3. ~Over(c) /\ obj[c].pcb # NULL
  BY <1>0, NullAssumption DEF Over, ArgIsLiveOwner
<1>4. LwipFresh'
  <2>1. \A e \in Elems(queue) : e.id <= data /\ e.id \in Nat
    BY AllFields, BoundsAssumption DEF LateParts, QueueSound, AnEvent
  <2>2. lwip'.ev \notin Elems(queue)
    BY <1>1, <1>2, <2>1
  <2> QED
    BY <1>1, <1>2, <2>2 DEF LwipFresh, LwipFin
<1>5. DataKeepsClient'
  <2>1. ~Leaves(c) /\ ~(task.at = "error" /\ task.ev.arg = c)
    BY <1>3 DEF Leaves, Calls, TaskOwn, Parting
  <2>2. \A e \in Elems(queue) : ~Of("ERROR", c, e)
    BY <1>3 DEF Of, QueueOwn, OwnEvent, Ends
  <2>3. task.at = "call" /\ task.ev.arg = c /\ "pcb" \in task.read => task.pcb # NULL
    BY <1>3 DEF TaskOwn, ReadsStay, This
  <2> QED
    BY <1>1, <1>2, <1>3, <2>1, <2>2, <2>3 DEF DataKeepsClient, Leaves, Calls
<1>6. data' >= data /\ ~(lwip'.at # "idle" /\ lwip'.ev.event = "FIN")
  BY <1>1, <1>2
<1> QED
  BY <1>1, <1>4, <1>5, <1>6, LateTcpip

\* A FIN is new, and nothing is cleared of its client yet.
LEMMA LateRemoteFin ==
  ASSUME LateInv, StrayInv', NEW p \in Pcbs, RemoteFin(p) \/ PcbGone(p) PROVE LateParts'
<1> USE DEF LateInv, StrayInv, OnceInv
<1>1. UNCHANGED <<obj, queue, task, told, data>> /\ lwip.at = "idle" /\ data \in Nat
  BY BoundsAssumption DEF RemoteFin, PcbGone, AllTyped
<1>2. \A q \in Pcbs : pcb'[q].arg \in {pcb[q].arg, NULL}
  <2>1. \/ pcb' = pcb \/ pcb' = [pcb EXCEPT ![p].state = "closed"]
        \/ pcb' = [pcb EXCEPT ![p] = FreePcb]
    BY DEF RemoteFin, PcbGone
  <2>2. pcb \in [Pcbs -> PcbRecords]
    BY DEF AllTyped
  <2>3. CASE pcb' = [pcb EXCEPT ![p] = FreePcb]
    BY <2>2, <2>3 DEF FreePcb
  <2>4. CASE pcb' = [pcb EXCEPT ![p].state = "closed"]
    BY <2>2, <2>4 DEF PcbRecords
  <2> QED
    BY <2>1, <2>3, <2>4
<1>3. CASE lwip' = lwip
  <2>1. LwipFresh' /\ DataKeepsClient'
    BY <1>1, <1>3 DEF LwipFresh, DataKeepsClient
  <2> QED
    BY <1>1, <1>2, <1>3, <2>1, LateTcpip
<1>4. CASE lwip' # lwip
  <2>0. PICK c \in Clients : pcb[p].arg = c
    BY <1>4, AllFields DEF RemoteFin, PcbGone
  <2>1. /\ lwip'.at = "fin" /\ lwip'.ev.event = "FIN" /\ lwip'.ev.arg = c
        /\ lwip'.ev.id = 0
    <3> DEFINE e == Event("FIN", c, pcb[p].conn)
    <3>1. e.event = "FIN" /\ e.arg = c /\ e.id = 0
      BY DEF Event
    <3>2. lwip' = [lwip EXCEPT !.at = "fin", !.pcb = p, !.ev = e] /\ lwip \in LwipRecords
      BY <1>4, <2>0, NullAssumption DEF RemoteFin, PcbGone, AllTyped
    <3> HIDE DEF e
    <3> QED
      BY <3>1, <3>2 DEF LwipRecords
  <2>2. ~Over(c)
    BY <2>0 DEF Over
  <2>3. lwip'.ev \notin Elems(queue)
    BY <2>1, <2>2 DEF QueueOwn, OwnEvent, Ends
  <2>4. LwipFresh'
    BY <1>1, <2>1, <2>3 DEF LwipFresh, LwipFin
  <2>5. DataKeepsClient'
    BY <2>1 DEF DataKeepsClient
  <2> QED
    BY <1>1, <1>2, <2>1, <2>2, <2>4, <2>5, LateTcpip
<1> QED
  BY <1>3, <1>4

LEMMA LateLwipFin ==
  ASSUME LateInv, StrayInv', \/ LwipFinClose \/ LwipFinFreeSlot \/ LwipFinForget \/ LwipFinLoad
                            \/ LwipFinCount \/ LwipFinNullPcb
  PROVE  LateParts'
<1> USE DEF LateInv, StrayInv, OnceInv
<1>0. PICK a \in Clients : lwip.ev.arg = a
  BY AllFields DEF LwipFinClose, LwipFinFreeSlot, LwipFinForget, LwipFinLoad, LwipFinCount,
         LwipFinNullPcb, shared
<1>1. /\ lwip.at \in LwipFin /\ lwip.ev.event = "FIN" /\ UNCHANGED <<queue, task, told, data>>
      /\ data \in Nat
  <2>1. lwip.at \in LwipFin /\ UNCHANGED <<queue, task, told, data>>
    BY DEF LwipFinClose, LwipFinFreeSlot, LwipFinForget, LwipFinLoad, LwipFinCount,
         LwipFinNullPcb, shared, LwipFin
  <2> QED
    BY <2>1, BoundsAssumption DEF Held, AllTyped
<1>2. lwip'.ev = lwip.ev /\ (lwip'.at \in LwipFin \cup {"send"})
  <2>1. \/ lwip' = [lwip EXCEPT !.at = "send", !.pcb = NULL]
        \/ lwip' = [lwip EXCEPT !.at = "freeSlot", !.pcb = NULL]
        \/ \E at \in {"nullPcb", "forget", "load"} : lwip' = [lwip EXCEPT !.at = at]
        \/ lwip' = [lwip EXCEPT !.at = "count", !.tmp = index]
        \/ lwip' = [lwip EXCEPT !.at = "nullPcb", !.tmp = 0]
        \/ lwip' = [lwip EXCEPT !.at = "send"]
    BY DEF LwipFinClose, LwipFinFreeSlot, LwipFinForget, LwipFinLoad, LwipFinCount,
         LwipFinNullPcb, shared
  <2> QED
    BY <2>1 DEF AllTyped, LwipRecords, LwipFin
<1>3. \A c \in Clients : /\ obj'[c].live = obj[c].live /\ obj'[c].ready = obj[c].ready
                         /\ obj'[c].conn = obj[c].conn
                         /\ obj'[c].pcb = obj[c].pcb \/ obj'[c].pcb = NULL
  <2>1. \/ obj' = obj \/ obj' = [obj EXCEPT ![a].slot = NoSlot]
        \/ obj' = [obj EXCEPT ![a].pcb = NULL]
    BY <1>0 DEF LwipFinClose, LwipFinFreeSlot, LwipFinForget, LwipFinLoad, LwipFinCount,
         LwipFinNullPcb, ForgetSlot, shared
  <2>2. obj \in [Clients -> Objects]
    BY DEF AllTyped
  <2>3. CASE obj' = [obj EXCEPT ![a].slot = NoSlot]
    BY <2>2, <2>3 DEF Objects
  <2>4. CASE obj' = [obj EXCEPT ![a].pcb = NULL]
    BY <2>2, <2>4 DEF Objects
  <2> QED
    BY <2>1, <2>3, <2>4
<1>4. \A q \in Pcbs : pcb'[q].arg \in {pcb[q].arg, NULL}
  <2>1. \/ pcb' = pcb
        \/ pcb' = [pcb EXCEPT ![lwip.pcb].state = "closed", ![lwip.pcb].arg = NULL]
    BY DEF LwipFinClose, LwipFinFreeSlot, LwipFinForget, LwipFinLoad, LwipFinCount,
         LwipFinNullPcb, shared
  <2> QED
    BY <2>1 DEF AllTyped, PcbRecords
<1>5. LwipFresh'
  BY <1>1, <1>2 DEF LateParts, LwipFresh, LwipFin
<1>6. DataKeepsClient'
  BY <1>1, <1>2 DEF DataKeepsClient
<1>7. lwip.at # "idle"
  BY <1>1 DEF LwipFin
<1> QED
  BY <1>1, <1>2, <1>3, <1>4, <1>5, <1>6, <1>7, LateTcpip

\* What an event that is put into the queue leaves of the order of the others.
LEMMA Added ==
  ASSUME LateInv, NEW e \in AnEvent, e \notin Elems(queue), task'.first = task.first,
         queue' = Append(queue, e) \/ queue' = <<e>> \o queue
  PROVE  /\ Elems(queue') = Elems(queue) \cup {e} /\ NoneTwice(queue')
         /\ \A x \in Elems(queue) : Passed(x)' <=> Passed(x)
         /\ \A x, y \in Elems(queue) : Earlier(x, y) => Earlier(x, y)'
         /\ task.first = NoEvent =>
              /\ queue' = Append(queue, e) => \A x \in Elems(queue) : Earlier(x, e)'
              /\ queue' = <<e>> \o queue => \A x \in Elems(queue) : Earlier(e, x)'
<1>1. queue \in Seq(AnEvent) /\ NoneTwice(queue)
  BY DEF LateInv, LateParts, QueueSound, StrayInv, OnceInv, AllTyped
<1>2. PICK h : h = task.first /\ h = task'.first
  OBVIOUS
<1>3. h # NoEvent => h \in Elems(queue)
  BY <1>2 DEF LateInv, LateParts, QueueSound
<1>4. CASE queue' = Append(queue, e)
  <2>1. /\ NoneTwice(queue')
        /\ \A x \in Elems(queue) : Turned(queue', h, x) <=> Turned(queue, h, x)
        /\ \A x, y \in Elems(queue) : Sooner(queue, h, x, y) => Sooner(queue', h, x, y)
        /\ h = NoEvent => \A x \in Elems(queue) : Sooner(queue', h, x, e)
    BY <1>1, <1>3, <1>4, OrderAppending
  <2>2. Elems(queue') = Elems(queue) \cup {e}
    BY <1>1, <1>4, Appending
  <2>3. queue' = <<e>> \o queue => \A x \in Elems(queue) : x \in {}
    <3> SUFFICES ASSUME queue' = <<e>> \o queue, NEW x \in Elems(queue) PROVE FALSE
      OBVIOUS
    <3>1. Head(queue') = e /\ Head(queue') \in Elems(queue)
      BY <1>1, <1>4 DEF Elems
    <3> QED
      BY <3>1
  <2> QED
    BY <1>2, <2>1, <2>2, <2>3 DEF Passed, Earlier
<1>5. CASE queue' = <<e>> \o queue /\ queue' # Append(queue, e)
  <2>1. /\ NoneTwice(queue')
        /\ \A x \in Elems(queue) : Turned(queue', h, x) <=> Turned(queue, h, x)
        /\ \A x, y \in Elems(queue) : Sooner(queue, h, x, y) => Sooner(queue', h, x, y)
        /\ h = NoEvent => \A x \in Elems(queue) : Sooner(queue', h, e, x)
    BY <1>1, <1>3, <1>5, OrderPrepending
  <2>2. Elems(queue') = Elems(queue) \cup {e}
    BY <1>1, <1>5, Prepending
  <2> QED
    BY <1>2, <1>5, <2>1, <2>2 DEF Passed, Earlier
<1> QED
  BY <1>4, <1>5

\* The tcpip thread sends what it has: data before the client is silent, or after the CLEAR
\* of the close() that is under way; a FIN while no purge is.
LEMMA LateLwipSend ==
  ASSUME LateInv, StrayInv', LwipSend PROVE LateParts'
<1> USE DEF LateInv, LateParts, StrayInv, OnceInv
<1>0. PICK e \in AnEvent : lwip.ev = e
  BY DEF LwipSend, Held
<1>1. /\ lwip.at = "send" /\ lwip'.at = "idle" /\ queue' = Append(queue, e)
      /\ UNCHANGED <<obj, pcb, task, told, data>>
  BY <1>0 DEF LwipSend, LwipIdle, shared
<1>2. /\ e.event \in {"RECV", "FIN"} /\ e \notin Elems(queue) /\ e.id <= data
      /\ e.event # "RECV" => e.id = 0
  BY <1>0, <1>1 DEF LwipFresh
<1>3. /\ Elems(queue') = Elems(queue) \cup {e} /\ NoneTwice(queue')
      /\ \A x \in Elems(queue) : Passed(x)' <=> Passed(x)
      /\ \A x, y \in Elems(queue) : Earlier(x, y) => Earlier(x, y)'
      /\ task.first = NoEvent => \A x \in Elems(queue) : Earlier(x, e)'
  BY <1>1, <1>2, Added
<1>4. e.arg \in Clients /\ \A x \in Elems(queue) : x.arg \in Clients
  BY AllFields DEF AnEvent
<1>5. \A c : /\ Silent(c)' <=> Silent(c)
             /\ Closing(c)' <=> Closing(c)
  BY <1>1 DEF Silent, Gone, Closing, Leaves, Calls
<1>6. task.at # "purge" => task.first = NoEvent
  BY DEF QueueSound
<1>7. QueueSound'
  BY <1>1, <1>2, <1>3 DEF QueueSound, Matches
<1>8. LwipFresh' /\ DataKeepsClient'
  BY <1>1 DEF LwipFresh, DataKeepsClient
<1>9. Installs'
  BY <1>1, <1>2, <1>3, <1>5 DEF Installs, Of, Calls, This
<1>10. ErrorsLast'
  <2>1. e.event = "RECV" => /\ \A f \in Elems(queue) : ~(f.event = "ERROR" /\ f.arg = e.arg)
                            /\ ~(task.at = "error" /\ task.ev.arg = e.arg)
    BY <1>0, <1>1 DEF DataKeepsClient, Of
  <2> QED
    BY <1>1, <1>2, <1>3, <2>1 DEF ErrorsLast
<1>11. DataPurged'
  <2>1. ASSUME NEW x \in Elems(queue), PurgeComes(x) PROVE PurgeComes(x)'
    BY <1>1, <1>3, <2>1 DEF PurgeComes
  <2>2. ASSUME e.event = "RECV", Silent(e.arg) PROVE PurgeComes(e)'
    <3>1. ~Gone(e.arg) /\ ~Leaves(e.arg)
      BY <1>0, <1>1, <1>4, <2>2 DEF DataKeepsClient, GoneTold, Gone
    <3>2. task.ev.arg = e.arg /\ Calls({"close"})
      BY <2>2, <3>1 DEF Silent, Closing
    <3>3. PICK f \in Elems(queue) : Of("CLEAR", e.arg, f)
      BY <3>2 DEF DataPurged
    <3>4. task.at = "call"
      BY <3>2 DEF Calls
    <3> QED
      BY <1>1, <1>3, <1>6, <3>3, <3>4 DEF PurgeComes, Of
  <2>3. Calls({"close"})' => \E f \in Elems(queue') : Of("CLEAR", task'.ev.arg, f)
    BY <1>1, <1>3 DEF DataPurged, Calls
  <2> QED
    BY <1>2, <1>3, <1>5, <2>1, <2>2, <2>3 DEF DataPurged
<1>12. ClearsFirst'
  <2>1. ASSUME e.event = "FIN", NEW f \in Elems(queue), f.event = "CLEAR", f.arg = e.arg
        PROVE  Earlier(f, e)'
    <3>1. task.at \in {"get", "deleted"} \/ Closing(f.arg)
      BY <1>0, <1>1, <2>1 DEF ClearsFirst, Of
    <3>2. task.at # "purge"
      BY <3>1 DEF Closing, Leaves, Leaving, Calls
    <3> QED
      BY <1>3, <1>6, <3>2
  <2>2. \A x \in Elems(queue') : x.event = "CLEAR" => Over(x.arg)'
    BY <1>1, <1>2, <1>3 DEF ClearsFirst, Over
  <2> QED
    BY <1>1, <1>2, <1>3, <2>1, <2>2 DEF ClearsFirst, Of
<1>13. GoneTold' /\ WorksLive'
  BY <1>1 DEF GoneTold, Gone, WorksLive, Working, This
<1> QED
  BY <1>7, <1>8, <1>9, <1>10, <1>11, <1>12, <1>13

\* The error of an abort is its client's first and last, and the client lives.
LEMMA LateAborted ==
  ASSUME LateInv, StrayInv', UNCHANGED <<lwip, told, data>>, lwip.at = "idle",
         NEW ok \in BOOLEAN, NEW o \in [Clients -> Objects], AfterCall(ok, o), ArgumentsRead,
         \A c \in Clients : /\ o[c].live = obj[c].live /\ o[c].conn = obj[c].conn
                            /\ o[c].pcb = obj[c].pcb /\ o[c].slot = obj[c].slot
                            /\ o[c].ready = obj[c].ready,
         \A p \in Pcbs : pcb'[p].arg \in {pcb[p].arg, NULL},
         NEW b \in Clients, ~Over(b), obj[b].live, NEW e \in AnEvent,
         e.event = "ERROR", e.arg = b, e.id = 0, queue' = Append(queue, e)
  PROVE  LateParts'
<1> USE DEF LateInv, LateParts, StrayInv, OnceInv
<1>0. PICK a \in Clients : task.ev.arg = a
  BY AllFields DEF ArgumentsRead
<1>1. /\ task.at = "call" /\ task'.first = NoEvent /\ (task'.at # "get" => task'.ev = task.ev)
      /\ task'.at \in {"get", "app", "close", "unlink", "abort"}
      /\ task'.at = "close" <=> task.op = "recvedAndClose"
      /\ task'.at \in {"unlink", "abort"} <=> task.op \in {"close", "closeAbort"}
      /\ \A c \in Clients :
           /\ obj'[c].live = obj[c].live /\ obj'[c].conn = obj[c].conn
           /\ obj'[c].ready = obj[c].ready
           /\ obj'[c].pcb = IF c = a /\ task.op \in {"closeAbort", "abort"} THEN NULL
                            ELSE obj[c].pcb
  BY <1>0, AfterCallLeads
<1>2. task.first = NoEvent /\ e \notin Elems(queue)
  BY <1>1 DEF QueueSound, QueueOwn, OwnEvent, Ends
<1>3. /\ Elems(queue') = Elems(queue) \cup {e} /\ NoneTwice(queue')
      /\ \A x, y \in Elems(queue) : Earlier(x, y) => Earlier(x, y)'
      /\ \A x \in Elems(queue) : Earlier(x, e)'
  BY <1>1, <1>2, Added
<1>4. \A x \in Elems(queue) : x.arg \in Clients
  BY AllFields
<1>5. /\ \A c \in Clients : Closing(c)' => Closing(c)
      /\ \A c \in Clients : Silent(c)' => Silent(c)
  <2>1. \A c \in Clients : Closing(c)' => Closing(c)
    BY <1>0, <1>1 DEF Closing, Leaves, Leaving, Calls
  <2> QED
    BY <1>1, <2>1 DEF Silent, Gone
<1>6. \A c \in Clients : Over(c) => Over(c)'
  BY <1>1, NullAssumption DEF Over
<1>7. ~Silent(b)
  BY DEF Silent, Gone, Closing, Leaves, Calls, TaskOwn, Parting
<1>8. QueueSound'
  <2>1. 0 <= data
    BY BoundsAssumption DEF AllTyped
  <2> QED
    BY <1>1, <1>3, <2>1 DEF QueueSound
<1>9. LwipFresh' /\ DataKeepsClient'
  BY DEF LwipFresh, DataKeepsClient
<1>10. Installs'
  <2>1. task'.at \in {"close", "detach"} \/ Calls({"recvedAndClose"})' => This'.ready
    BY <1>0, <1>1 DEF Installs, Calls, This
  <2> QED
    BY <1>1, <1>3, <1>4, <1>5, <2>1 DEF Installs
<1>11. ErrorsLast'
  BY <1>1, <1>3 DEF ErrorsLast
<1>12. DataPurged'
  <2>1. ASSUME NEW x \in Elems(queue), PurgeComes(x) PROVE PurgeComes(x)'
    BY <1>1, <1>3, <2>1 DEF PurgeComes
  <2> QED
    BY <1>1, <1>3, <1>4, <1>5, <1>7, <2>1 DEF DataPurged, Calls
<1>13. ClearsFirst'
  BY <1>1, <1>3, <1>4, <1>6 DEF ClearsFirst
<1>14. GoneTold' /\ WorksLive'
  <2>1. task'.at \notin Leaving
    BY <1>1 DEF Leaving
  <2> QED
    BY <1>0, <1>1, <2>1 DEF GoneTold, Gone, WorksLive, Working, This
<1> QED
  BY <1>8, <1>9, <1>10, <1>11, <1>12, <1>13, <1>14

LEMMA LateServed ==
  ASSUME LateInv, StrayInv', NEW ok \in BOOLEAN, CallServed(ok) PROVE LateParts'
<1> USE DEF LateInv, StrayInv, OnceInv
<1>1. /\ ArgumentsRead /\ AfterCall(ok, Hits(task.pcb)) /\ lwip.at = "idle"
      /\ task.pcb \in Pcbs /\ UNCHANGED <<lwip, told, data>>
  BY AllFields DEF CallServed, Serve
<1>2. PICK o \in [Clients -> Objects] : o = Hits(task.pcb)
  BY HitsIs DEF AllTyped
<1>3. \A c \in Clients : /\ o[c].live = obj[c].live /\ o[c].conn = obj[c].conn
                         /\ o[c].pcb = obj[c].pcb /\ o[c].slot = obj[c].slot
                         /\ o[c].ready = obj[c].ready
  BY <1>2, HitsIs DEF AllTyped
<1>4. /\ AfterCall(ok, o)
      /\ \/ pcb' = [pcb EXCEPT ![task.pcb].state = "closed"] /\ UNCHANGED queue
         \/ /\ pcb' = [pcb EXCEPT ![task.pcb] = FreePcb]
            /\ queue' = IF pcb[task.pcb].arg = NULL THEN queue
                        ELSE Append(queue, Event("ERROR", pcb[task.pcb].arg, pcb[task.pcb].conn))
         \/ UNCHANGED <<pcb, queue>>
  BY <1>1, <1>2 DEF CallServed, Serve
<1>5. \A p \in Pcbs : pcb'[p].arg \in {pcb[p].arg, NULL}
  <2>1. pcb \in [Pcbs -> PcbRecords]
    BY DEF AllTyped
  <2>2. CASE pcb' = [pcb EXCEPT ![task.pcb] = FreePcb]
    BY <2>1, <2>2 DEF FreePcb
  <2>3. CASE pcb' = [pcb EXCEPT ![task.pcb].state = "closed"]
    BY <2>1, <2>3 DEF PcbRecords
  <2> QED
    BY <1>4, <2>2, <2>3
<1>6. CASE queue' = queue
  BY <1>1, <1>3, <1>4, <1>5, <1>6, LateReturns
<1>7. CASE queue' # queue
  <2>0. pcb[task.pcb].arg # NULL
    BY <1>4, <1>7
  <2>1. PICK e \in AnEvent : e = Event("ERROR", pcb[task.pcb].arg, pcb[task.pcb].conn)
    BY <1>1, <2>0, OwnCallback DEF Events
  <2>2. PICK b \in Clients : b = pcb[task.pcb].arg
    BY <1>1, <2>0, AllFields
  <2>3. e.event = "ERROR" /\ e.arg = b /\ e.id = 0
    BY <2>1, <2>2 DEF Event
  <2>4. queue' = Append(queue, e)
    BY <1>4, <1>7, <2>1
  <2>5. ~Over(b) /\ obj[b].live
    BY <1>1, <2>2, NullAssumption DEF Over, ArgIsLiveOwner
  <2> QED
    BY <1>1, <1>3, <1>4, <1>5, <2>3, <2>4, <2>5, LateAborted
<1> QED
  BY <1>6, <1>7

LEMMA ClearEvent ==
  ASSUME NEW c \in Clients, NEW n \in 1..MaxConns PROVE Event("CLEAR", c, n) \in AnEvent
  BY BoundsAssumption DEF Event, AnEvent, Events

\* _close and _fin put a CLEAR in front of all there is of their client.
LEMMA LateClears ==
  ASSUME LateInv, StrayInv', UNCHANGED <<lwip, data>>, told \subseteq told',
         NEW a \in Clients, task.ev.arg = a, task.at \in {"detach", "fin"}, task'.first = NoEvent,
         \/ /\ task.at = "detach" /\ task'.at = "call" /\ task'.ev = task.ev
            /\ task'.op = "close" /\ task'.read = {}
         \/ /\ task.at = "fin" /\ task'.at = "freeSlot" /\ task'.ev = task.ev
            /\ obj[a].ready /\ obj[a].conn \in told'
         \/ task.at = "fin" /\ task'.at = "get",
         \A c \in Clients : /\ obj'[c].live = obj[c].live /\ obj'[c].conn = obj[c].conn
                            /\ obj'[c].ready = obj[c].ready /\ obj'[c].pcb = obj[c].pcb,
         \A p \in Pcbs : pcb'[p].arg \in {pcb[p].arg, NULL}, Over(a)',
         NEW e \in AnEvent, e.event = "CLEAR", e.arg = a, e.id = 0, queue' = <<e>> \o queue
  PROVE  LateParts'
<1> USE DEF LateInv, LateParts, StrayInv, OnceInv
<1>1. task.first = NoEvent
  BY DEF QueueSound
<1>2. \A x \in Elems(queue) : ~Of("CLEAR", a, x)
  BY DEF ClearsFirst
<1>3. /\ Elems(queue') = Elems(queue) \cup {e} /\ NoneTwice(queue')
      /\ \A x, y \in Elems(queue) : Earlier(x, y) => Earlier(x, y)'
      /\ \A x \in Elems(queue) : Earlier(e, x)'
  <2>1. e \notin Elems(queue)
    BY <1>2 DEF Of
  <2> QED
    BY <1>1, <2>1, Added
<1>4. \A x \in Elems(queue) : x.arg \in Clients
  BY AllFields
<1>5. \A c \in Clients : c # a => (Silent(c)' => Silent(c))
  BY DEF Silent, Gone, Closing, Leaves, Leaving, Calls
<1>6. \A c \in Clients : Over(c) => Over(c)'
  BY NullAssumption DEF Over
<1>7. ~Closing(a)
  BY DEF Closing, Leaves, Leaving, Calls
<1>8. QueueSound'
  <2>1. 0 <= data
    BY BoundsAssumption DEF AllTyped
  <2> QED
    BY <1>3, <2>1 DEF QueueSound
<1>9. LwipFresh'
  BY <1>3 DEF LwipFresh
<1>10. Installs'
  <2>1. task.at = "detach" => obj[a].ready
    BY DEF Installs, This
  <2>2. ASSUME NEW c \in Clients, Silent(c)' PROVE obj'[c].ready
    <3>1. CASE c = a
      <4>1. Gone(a) \/ Closing(a)'
        BY <2>2, <3>1 DEF Silent, Gone
      <4>2. Closing(a)' => task'.at # "get"
        BY DEF Closing, Leaves, Leaving, Calls
      <4> QED
        BY <2>1, <3>1, <4>1, <4>2 DEF Installs, Silent
    <3>2. CASE c # a
      BY <1>5, <2>2, <3>2 DEF Installs
    <3> QED
      BY <3>1, <3>2
  <2> QED
    BY <1>3, <1>4, <2>2 DEF Installs, Calls
<1>11. DataKeepsClient'
  <2> SUFFICES ASSUME NEW c \in Clients, lwip.at = "send", lwip.ev.event = "RECV", lwip.ev.arg = c
               PROVE  /\ obj'[c].pcb # NULL /\ ~Leaves(c)' /\ ~(task'.at = "error" /\ task'.ev.arg = c)
                      /\ \A x \in Elems(queue') : ~Of("ERROR", c, x)
                      /\ task'.at = "call" /\ task'.ev.arg = c /\ "pcb" \in task'.read =>
                           task'.pcb # NULL
    BY AllFields DEF DataKeepsClient
  <2>1. obj[c].pcb # NULL /\ \A x \in Elems(queue) : ~Of("ERROR", c, x)
    BY DEF DataKeepsClient
  <2>2. ~Leaves(c)'
    <3>1. CASE c = a
      BY <2>1, <3>1 DEF TaskOwn, This, Leaves, Leaving, Calls
    <3>2. CASE c # a
      BY <3>2 DEF Leaves, Leaving, Calls
    <3> QED
      BY <3>1, <3>2
  <2> QED
    BY <1>3, <2>1, <2>2 DEF Of
<1>12. ErrorsLast'
  BY <1>3 DEF ErrorsLast
<1>13. DataPurged'
  <2>1. ASSUME NEW x \in Elems(queue), x.event \in {"RECV", "ERROR"}, Silent(x.arg)'
        PROVE  PurgeComes(x)'
    <3>1. CASE x.arg = a
      BY <1>3, <3>1 DEF PurgeComes, Of
    <3>2. CASE x.arg # a
      BY <1>3, <1>4, <1>5, <2>1, <3>2 DEF DataPurged, PurgeComes
    <3> QED
      BY <3>1, <3>2
  <2>2. Calls({"close"})' => \E f \in Elems(queue') : Of("CLEAR", task'.ev.arg, f)
    BY <1>3 DEF Calls, Of
  <2> QED
    BY <1>3, <2>1, <2>2 DEF DataPurged
<1>14. ClearsFirst'
  <2>1. Head(queue') = e
    BY DEF AllTyped
  <2>2. ASSUME lwip.at # "idle", lwip.ev.event = "FIN", NEW x \in Elems(queue'),
               Of("CLEAR", lwip.ev.arg, x)
        PROVE  Head(queue') = x /\ (task'.at \in {"get", "deleted"} \/ Closing(x.arg)')
    <3>1. x \notin Elems(queue)
      <4>1. ~(task.at \in {"get", "deleted"} \/ Closing(x.arg))
        BY <1>7 DEF Closing, Leaves
      <4> QED
        BY <2>2, <4>1 DEF ClearsFirst
    <3>2. x = e
      BY <1>3, <3>1
    <3>3. task'.at = "get" \/ Closing(a)'
      BY DEF Closing, Leaves, Leaving, Calls
    <3> QED
      BY <2>1, <3>2, <3>3
  <2>3. \A x \in Elems(queue') : x.event = "CLEAR" => Over(x.arg)'
    BY <1>3, <1>4, <1>6 DEF ClearsFirst
  <2> QED
    BY <1>3, <2>2, <2>3 DEF ClearsFirst
<1>15. GoneTold'
  <2>1. task'.at \in Leaving => This'.conn \in told'
    BY DEF This, Leaving
  <2> QED
    BY <2>1 DEF GoneTold, Gone
<1>16. WorksLive'
  BY DEF WorksLive, Working, This
<1> QED
  BY <1>8, <1>9, <1>10, <1>11, <1>12, <1>13, <1>14, <1>15, <1>16

LEMMA LateDetach ==
  ASSUME LateInv, StrayInv', CloseDetach PROVE LateParts'
<1> USE DEF LateInv, StrayInv, OnceInv
<1>0. PICK a \in Clients : task.ev.arg = a
  BY AllFields DEF CloseDetach
<1>1. /\ task.at = "detach" /\ obj' = Hits(obj[a].pcb) /\ UNCHANGED <<lwip, told, data>>
  BY <1>0 DEF CloseDetach, This
<1>2. PICK e \in AnEvent : e = Event("CLEAR", a, task.ev.conn)
  BY <1>1, AllFields, ClearEvent
<1>3. e.event = "CLEAR" /\ e.arg = a /\ e.id = 0 /\ queue' = <<e>> \o queue
  BY <1>0, <1>2 DEF Event, CloseDetach, Prepend
<1>4. /\ task'.first = NoEvent /\ task'.at = "call" /\ task'.ev = task.ev /\ task'.op = "close"
      /\ task'.read = {}
  BY TaskLeads DEF CloseDetach, Ops
<1>5. \A c \in Clients : /\ obj'[c].live = obj[c].live /\ obj'[c].conn = obj[c].conn
                         /\ obj'[c].ready = obj[c].ready /\ obj'[c].pcb = obj[c].pcb
  BY <1>1, HitsIs DEF AllTyped
<1>6. \A p \in Pcbs : pcb'[p].arg \in {pcb[p].arg, NULL}
  <2>1. pcb' = pcb \/ pcb' = [pcb EXCEPT ![obj[a].pcb].arg = NULL]
    BY <1>0 DEF CloseDetach, This
  <2> QED
    BY <2>1 DEF AllTyped, PcbRecords
<1>7. Over(a)'
  BY <1>0, <1>4 DEF TaskOwn
<1> QED
  BY <1>0, <1>1, <1>3, <1>4, <1>5, <1>6, <1>7, LateClears

LEMMA LateFin ==
  ASSUME LateInv, StrayInv', Fin PROVE LateParts'
<1> USE DEF LateInv, StrayInv, OnceInv
<1>0. PICK a \in Clients : task.ev.arg = a
  BY AllFields DEF Fin
<1>1. /\ task.at = "fin" /\ Discarded /\ UNCHANGED <<obj, pcb, lwip, data>>
  BY DEF Fin, shared
<1>2. PICK e \in AnEvent : e = Event("CLEAR", a, task.ev.conn)
  BY <1>1, AllFields, ClearEvent
<1>3. e.event = "CLEAR" /\ e.arg = a /\ e.id = 0 /\ queue' = <<e>> \o queue
  BY <1>0, <1>2 DEF Event, Fin, Prepend
<1>4. /\ \/ /\ task'.at = "freeSlot" /\ task'.ev = task.ev /\ told' = told \cup {obj[a].conn}
            /\ obj[a].ready
         \/ task'.at = "get" /\ told' = told
      /\ task'.first = NoEvent
  <2>1. CASE obj[a].ready
    <3>1. told' = told \cup {obj[a].conn} /\ Goto("freeSlot")
      BY <1>0, <1>1, <2>1 DEF Discarded, This
    <3> QED
      BY <2>1, <3>1, TaskLeads DEF TaskPlaces
  <2>2. CASE ~obj[a].ready
    <3>1. told' = told /\ Goto("get")
      BY <1>0, <1>1, <2>2 DEF Discarded, This
    <3> QED
      BY <3>1, TaskLeads DEF TaskPlaces
  <2> QED
    BY <2>1, <2>2
<1>5. Over(a)'
  BY <1>0, <1>1 DEF TaskOwn, Parting, Over
<1>6. told \subseteq told'
  BY <1>4
<1> QED
  BY <1>0, <1>1, <1>3, <1>4, <1>5, <1>6, LateClears

\* A client that is accepted is new: nothing in the queue or the task's hands is for it.
LEMMA LateAccept ==
  ASSUME LateInv, StrayInv', ~Reuse, NEW a \in Clients, NEW p \in Pcbs, Accept(a, p)
  PROVE  LateParts'
<1> USE DEF LateInv, LateParts, StrayInv, OnceInv
<1>1. /\ lwip.at = "idle" /\ UNCHANGED <<lwip, task, told, data>> /\ obj[a].conn = 0
      /\ ~obj[a].live
  BY DEF Accept
<1>2. \A q \in Pcbs : pcb'[q].arg \in {pcb[q].arg, a}
  BY DEF Accept, AllTyped
<1>3. /\ \A c \in Clients : c # a => obj'[c] = obj[c]
      /\ obj'[a].live /\ ~obj'[a].ready
  BY DEF Accept, AllTyped
<1>4. PICK e \in AnEvent : e = Event("ACCEPT", a, conns')
  <2>1. conns' \in 1..MaxConns
    BY BoundsAssumption DEF Accept, AllTyped
  <2>2. Event("ACCEPT", a, conns') \in AnEvent
    BY <2>1, ClearEvent, BoundsAssumption DEF Event, AnEvent, Events
  <2> QED
    BY <2>2
<1>5. e.event = "ACCEPT" /\ e.arg = a /\ e.id = 0 /\ queue' = <<e>> \o queue
  BY <1>4 DEF Event, Accept
<1>6. \A x \in Elems(queue) : x.arg \in Clients /\ x.arg # a
  BY <1>1, AllFields DEF QueueOwn, OwnEvent, Made
<1>7. task.at # "get" => task.ev.arg \in Clients /\ task.ev.arg # a
  BY <1>1, AllFields DEF TaskOwn, Made
<1>8. /\ Elems(queue') = Elems(queue) \cup {e} /\ NoneTwice(queue')
      /\ \A x \in Elems(queue) : Passed(x)' <=> Passed(x)
      /\ \A x, y \in Elems(queue) : Earlier(x, y) => Earlier(x, y)'
  BY <1>1, <1>5, <1>6, Added
<1>9. /\ ~Silent(a)'
      /\ \A c \in Clients : c # a => (Silent(c)' <=> Silent(c))
  <2>1. ~Closing(a)'
    BY <1>1, <1>7 DEF Closing, Leaves, Leaving, Calls
  <2> QED
    BY <1>1, <1>3, <2>1 DEF Silent, Gone, Closing, Leaves, Calls
<1>10. QueueSound'
  <2>1. 0 <= data
    BY BoundsAssumption DEF AllTyped
  <2> QED
    BY <1>1, <1>5, <1>8, <2>1 DEF QueueSound, Matches
<1>11. LwipFresh' /\ DataKeepsClient'
  BY <1>1 DEF LwipFresh, DataKeepsClient
<1>12. Installs'
  <2>1. \A x \in Elems(queue') : x.event = "ACCEPT" => ~obj'[x.arg].ready
    BY <1>3, <1>5, <1>6, <1>8 DEF Installs
  <2>2. task.at = "accept" => \A x \in Elems(queue') : ~Of("ACCEPT", task.ev.arg, x)
    BY <1>5, <1>7, <1>8 DEF Installs, Of
  <2>3. \A c \in Clients : Silent(c)' => obj'[c].ready
    BY <1>3, <1>9 DEF Installs
  <2>4. task.at \in {"close", "detach"} \/ Calls({"recvedAndClose"}) => This'.ready
    BY <1>1, <1>3, <1>7 DEF Installs, This, Calls
  <2> QED
    BY <1>1, <2>1, <2>2, <2>3, <2>4 DEF Installs, Calls
<1>13. ErrorsLast'
  BY <1>1, <1>5, <1>8 DEF ErrorsLast
<1>14. DataPurged'
  <2>1. ASSUME NEW x \in Elems(queue), PurgeComes(x) PROVE PurgeComes(x)'
    BY <1>1, <1>8, <2>1 DEF PurgeComes
  <2>2. Calls({"close"})' => \E f \in Elems(queue') : Of("CLEAR", task'.ev.arg, f)
    BY <1>1, <1>8 DEF DataPurged, Calls
  <2> QED
    BY <1>5, <1>6, <1>8, <1>9, <2>1, <2>2 DEF DataPurged
<1>15. ClearsFirst'
  <2>1. \A c \in Clients : c # a /\ Over(c) => Over(c)'
    BY <1>2, <1>3 DEF Over
  <2>2. \A x \in Elems(queue') : x.event = "CLEAR" => Over(x.arg)'
    BY <1>5, <1>6, <1>8, <2>1 DEF ClearsFirst
  <2> QED
    BY <1>1, <1>5, <1>8, <2>2 DEF ClearsFirst, Of
<1>16. GoneTold'
  <2>1. \A c \in Clients : ~obj'[c].live => c # a /\ obj'[c] = obj[c]
    BY <1>3
  <2>2. task.at \in Leaving => This' = This
    BY <1>1, <1>3, <1>7 DEF This, Leaving
  <2> QED
    BY <1>1, <2>1, <2>2 DEF GoneTold, Gone
<1>17. WorksLive'
  BY <1>1, <1>3, <1>7 DEF WorksLive, Working, This
<1> QED
  BY <1>10, <1>11, <1>12, <1>13, <1>14, <1>15, <1>16, <1>17

\* The task takes the first event.
LEMMA LateHandle ==
  ASSUME LateInv, StrayInv', Handle PROVE LateParts'
<1> USE DEF LateInv, LateParts, StrayInv, OnceInv
<1>1. /\ task.at = "get" /\ queue # <<>> /\ queue' = Tail(queue) /\ queue \in Seq(AnEvent)
      /\ UNCHANGED <<obj, pcb, lwip, told, data>>
  BY DEF Handle, shared, AllTyped
<1>2. PICK e \in AnEvent : e = Head(queue)
  BY <1>1, Taking
<1>3. Elems(queue) = Elems(queue') \cup {e} /\ task.first = NoEvent
  BY <1>1, <1>2, Taking DEF QueueSound
<1>4. /\ task'.ev = e /\ task'.first = NoEvent
      /\ task'.at \in {"accept", "app", "fin", "error", "purge"}
      /\ task'.at = "accept" <=> e.event = "ACCEPT"
      /\ task'.at = "fin" <=> e.event = "FIN"
      /\ task'.at = "error" <=> e.event = "ERROR"
      /\ task'.at = "purge" <=> e.event = "CLEAR"
  <2> DEFINE at == CASE e.event = "ACCEPT" -> "accept"
                     [] e.event = "RECV" -> "app"
                     [] e.event = "FIN" -> "fin"
                     [] e.event = "ERROR" -> "error"
                     [] e.event = "CLEAR" -> "purge"
             more == e.event = "RECV"
  <2>1. task' = [TaskIdle EXCEPT !.ev = e, !.more = more, !.at = at]
    BY <1>2 DEF Handle
  <2>2. /\ at \in {"accept", "app", "fin", "error", "purge"}
        /\ at = "accept" <=> e.event = "ACCEPT"
        /\ at = "fin" <=> e.event = "FIN"
        /\ at = "error" <=> e.event = "ERROR"
        /\ at = "purge" <=> e.event = "CLEAR"
    BY DEF AnEvent, Events
  <2> HIDE DEF at, more
  <2>3. task'.ev = e /\ task'.at = at /\ task'.first = NoEvent
    BY <2>1 DEF TaskIdle
  <2> QED
    BY <2>2, <2>3
<1>5. /\ NoneTwice(queue') /\ e \notin Elems(queue')
      /\ \A x, y \in Elems(queue') : Earlier(x, y) => Earlier(x, y)'
      /\ \A x \in Elems(queue') : ~Earlier(x, e)
      /\ \A x : ~Passed(x)'
  <2>1. /\ NoneTwice(Tail(queue)) /\ Head(queue) \notin Elems(Tail(queue))
        /\ \A x, y \in Elems(Tail(queue)) :
             Sooner(queue, task.first, x, y) => Sooner(Tail(queue), task.first, x, y)
        /\ \A x : ~Precedes(queue, x, Head(queue))
    BY <1>1, <1>3, OrderTaking DEF QueueSound
  <2> QED
    BY <1>1, <1>2, <1>3, <1>4, <2>1 DEF Passed, Earlier, Sooner, Turned
<1>6. /\ e.arg \in Clients /\ obj[e.arg].conn = e.conn /\ e.conn # 0
      /\ \A x \in Elems(queue') : x.arg \in Clients /\ obj[x.arg].conn = x.conn /\ x \in AnEvent
  BY <1>3, AllFields DEF QueueOwn, OwnEvent, Made, AnEvent
<1>7. ASSUME NEW x \in Elems(queue'), x.arg = e.arg, x.event = e.event PROVE e.event = "RECV"
  <2>1. e.event # "RECV" => x.id = e.id
    BY <1>3, <1>7 DEF QueueSound
  <2>2. x.conn = e.conn
    BY <1>6, <1>7
  <2>3. x # e
    BY <1>5
  <2> QED
    BY <1>6, <1>7, <2>1, <2>2, <2>3 DEF AnEvent
<1>8. \A c : Silent(c)' => Gone(c) /\ Silent(c)
  BY <1>1, <1>4 DEF Silent, Gone, Closing, Leaves, Leaving, Calls
<1>9. QueueSound'
  BY <1>1, <1>3, <1>4, <1>5 DEF QueueSound
<1>10. LwipFresh'
  BY <1>1, <1>3 DEF LwipFresh
<1>11. Installs'
  <2>1. task'.at = "accept" => \A x \in Elems(queue') : ~Of("ACCEPT", task'.ev.arg, x)
    BY <1>4, <1>7 DEF Of
  <2> QED
    BY <1>1, <1>3, <1>4, <1>8, <2>1 DEF Installs, Calls
<1>12. DataKeepsClient'
  BY <1>1, <1>3, <1>4 DEF DataKeepsClient, Of, Leaves, Leaving, Calls
<1>13. ErrorsLast'
  <2>1. ASSUME task'.at = "error", NEW x \in Elems(queue'), x.arg = e.arg
        PROVE  x.event \notin {"RECV", "ERROR"}
    BY <1>3, <1>4, <1>5, <1>7, <2>1 DEF ErrorsLast
  <2> QED
    BY <1>3, <1>4, <1>5, <2>1 DEF ErrorsLast
<1>14. DataPurged'
  <2>1. ASSUME NEW x \in Elems(queue'), x.event \in {"RECV", "ERROR"}, Silent(x.arg)'
        PROVE  PurgeComes(x)'
    <3>1. PICK f \in Elems(queue) : Of("CLEAR", x.arg, f) /\ Earlier(f, x)
      BY <1>1, <1>3, <1>8, <2>1 DEF DataPurged, PurgeComes
    <3>2. CASE f = e
      BY <1>4, <1>5, <3>1, <3>2 DEF PurgeComes, Of
    <3>3. CASE f \in Elems(queue')
      BY <1>5, <3>1, <3>3 DEF PurgeComes
    <3> QED
      BY <1>3, <3>2, <3>3
  <2> QED
    BY <1>4, <2>1 DEF DataPurged, Calls
<1>15. ClearsFirst'
  <2>1. task'.at = "fin" => \A x \in Elems(queue') : ~Of("CLEAR", e.arg, x)
    BY <1>3, <1>4, <1>5 DEF ClearsFirst, Of
  <2>2. lwip.at # "idle" /\ lwip.ev.event = "FIN" =>
          \A x \in Elems(queue') : ~Of("CLEAR", lwip.ev.arg, x)
    BY <1>2, <1>3, <1>5 DEF ClearsFirst
  <2>3. \A x \in Elems(queue') : x.event = "CLEAR" => Over(x.arg)'
    BY <1>1, <1>3 DEF ClearsFirst, Over
  <2> QED
    BY <1>1, <1>3, <1>4, <1>5, <2>1, <2>2, <2>3 DEF ClearsFirst
<1>16. GoneTold'
  BY <1>1, <1>4 DEF GoneTold, Gone, Leaving
<1>17. WorksLive'
  <2> SUFFICES ASSUME ~obj[e.arg].live, e.event \in {"ACCEPT", "RECV", "ERROR"} PROVE FALSE
    BY <1>1, <1>4 DEF WorksLive, Working, This, AnEvent, Events
  <2>1. Silent(e.arg)
    BY <1>6 DEF Silent, Gone
  <2>2. CASE e.event = "ACCEPT"
    BY <1>3, <1>6, <2>1, <2>2 DEF Installs
  <2>3. CASE e.event \in {"RECV", "ERROR"}
    <3>1. PICK f \in Elems(queue) : Of("CLEAR", e.arg, f) /\ Earlier(f, e)
      BY <1>1, <1>3, <2>1, <2>3 DEF DataPurged, PurgeComes
    <3>2. f # e
      BY <2>3, <3>1 DEF Of
    <3> QED
      BY <1>3, <1>5, <3>1, <3>2
  <2> QED
    BY <2>2, <2>3
<1> QED
  BY <1>9, <1>10, <1>11, <1>12, <1>13, <1>14, <1>15, <1>16, <1>17

\* A step of a purge: the first event is discarded, or goes to the end.
LEMMA LateTurns ==
  ASSUME LateInv, StrayInv', PurgeTake PROVE LateParts'
<1> USE DEF LateInv, LateParts, StrayInv, OnceInv
<1>1. /\ task.at = "purge" /\ queue # <<>> /\ queue \in Seq(AnEvent) /\ Head(queue) # task.first
      /\ UNCHANGED <<obj, pcb, lwip, told, data>>
  BY DEF PurgeTake, PurgeEnds, shared, AllTyped
<1>2. PICK e \in AnEvent : e = Head(queue)
  BY <1>1, Taking
<1>3. Elems(queue) = Elems(Tail(queue)) \cup {e}
  BY <1>1, <1>2, Taking
<1>4. /\ Matches(e) => queue' = Tail(queue) /\ task' = task
      /\ ~Matches(e) => /\ queue' = Append(Tail(queue), e)
                        /\ task' = [task EXCEPT !.first = IF @ = NoEvent THEN e ELSE @]
  BY <1>2 DEF PurgeTake
<1>5. /\ task'.at = "purge" /\ task'.ev = task.ev /\ task'.op = task.op
      /\ Matches(e) => task'.first = task.first
      /\ ~Matches(e) => task'.first = (IF task.first = NoEvent THEN e ELSE task.first)
  BY <1>1, <1>4 DEF AllTyped, TaskStates
<1>6. task.first # NoEvent => task.first \in Elems(queue) /\ task.first # e /\ ~Matches(task.first)
  BY <1>1, <1>2 DEF QueueSound
<1>7. /\ NoneTwice(queue') /\ Elems(queue') \subseteq Elems(queue)
      /\ task'.first # NoEvent => task'.first \in Elems(queue') /\ ~Matches(task'.first)
      /\ \A x \in Elems(queue) : ~Matches(x) => x \in Elems(queue')
      /\ \A x \in Elems(queue') : Matches(x) /\ Passed(x)' => Passed(x)
      /\ \A x, y \in Elems(queue') : Earlier(x, y) => Earlier(x, y)'
  <2>1. CASE Matches(e)
    <3>1. /\ NoneTwice(Tail(queue))
          /\ \A x \in Elems(Tail(queue)) :
               Turned(Tail(queue), task.first, x) <=> Turned(queue, task.first, x)
          /\ \A x, y \in Elems(Tail(queue)) :
               Sooner(queue, task.first, x, y) => Sooner(Tail(queue), task.first, x, y)
      BY <1>1, <1>2, <1>6, OrderTaking DEF QueueSound
    <3>2. queue' = Tail(queue) /\ task'.first = task.first
      BY <1>4, <1>5, <2>1
    <3> QED
      BY <1>3, <1>6, <2>1, <3>1, <3>2 DEF Passed, Earlier
  <2>2. CASE ~Matches(e)
    <3>1. task'.first = (IF task.first = NoEvent THEN Head(queue) ELSE task.first)
      BY <1>2, <1>5, <2>2
    <3>2. queue' = Append(Tail(queue), Head(queue))
      BY <1>2, <1>4, <2>2
    <3>3. /\ NoneTwice(queue') /\ Elems(queue') = Elems(queue)
          /\ \A x \in Elems(queue) : x # Head(queue) =>
               (Turned(queue', task'.first, x) <=> Turned(queue, task.first, x))
          /\ \A x, y \in Elems(queue) :
               Sooner(queue, task.first, x, y) => Sooner(queue', task'.first, x, y)
      <4> DEFINE g == task'.first
      <4>1. g = (IF task.first = NoEvent THEN Head(queue) ELSE task.first)
        BY <3>1
      <4> HIDE DEF g
      <4>2. /\ NoneTwice(Append(Tail(queue), Head(queue)))
            /\ Elems(Append(Tail(queue), Head(queue))) = Elems(queue)
            /\ \A x \in Elems(queue) : x # Head(queue) =>
                 (Turned(Append(Tail(queue), Head(queue)), g, x) <=> Turned(queue, task.first, x))
            /\ \A x, y \in Elems(queue) : Sooner(queue, task.first, x, y) =>
                                            Sooner(Append(Tail(queue), Head(queue)), g, x, y)
        BY <1>1, <1>2, <1>6, <4>1, OrderTurning DEF QueueSound
      <4> QED
        BY <3>2, <4>2 DEF g
    <3>4. task'.first \in Elems(queue') /\ ~Matches(task'.first)
      BY <1>2, <1>3, <1>6, <2>2, <3>1, <3>3
    <3> QED
      BY <1>2, <2>2, <3>3, <3>4 DEF Passed, Earlier
  <2> QED
    BY <2>1, <2>2
<1>8. \A x : Matches(x)' <=> Matches(x)
  BY <1>5 DEF Matches
<1>9. \A c : Silent(c)' <=> Gone(c)
  BY <1>1, <1>5 DEF Silent, Gone, Closing, Leaves, Leaving, Calls
<1>10. QueueSound'
  BY <1>1, <1>5, <1>7, <1>8 DEF QueueSound
<1>11. LwipFresh'
  BY <1>1, <1>7 DEF LwipFresh
<1>12. Installs'
  BY <1>1, <1>5, <1>7, <1>9 DEF Installs, Calls, Silent
<1>13. DataKeepsClient'
  BY <1>1, <1>5, <1>7 DEF DataKeepsClient, Leaves, Leaving, Calls
<1>14. ErrorsLast'
  BY <1>5, <1>7 DEF ErrorsLast
<1>15. DataPurged'
  <2>1. ASSUME NEW x \in Elems(queue'), x.event \in {"RECV", "ERROR"}, Silent(x.arg)'
        PROVE  PurgeComes(x)'
    <3>1. PurgeComes(x)
      BY <1>7, <1>9, <2>1 DEF DataPurged, Silent
    <3>2. CASE x.arg = task.ev.arg
      <4>1. ~Passed(x) /\ Matches(x)
        BY <1>1, <2>1, <3>1, <3>2 DEF PurgeComes, Matches
      <4>2. ~Passed(x)'
        BY <1>7, <2>1, <4>1
      <4> QED
        BY <1>5, <3>2, <4>2 DEF PurgeComes
    <3>3. CASE x.arg # task.ev.arg
      <4>1. PICK f \in Elems(queue) : Of("CLEAR", x.arg, f) /\ Earlier(f, x)
        BY <3>1, <3>3 DEF PurgeComes
      <4>2. f \in Elems(queue')
        BY <1>7, <3>3, <4>1 DEF Matches, Of
      <4> QED
        BY <1>5, <1>7, <2>1, <3>3, <4>1, <4>2 DEF PurgeComes
    <3> QED
      BY <3>2, <3>3
  <2> QED
    BY <1>5, <2>1 DEF DataPurged, Calls
<1>16. ClearsFirst'
  <2>1. lwip.at # "idle" /\ lwip.ev.event = "FIN" =>
          \A x \in Elems(queue) : ~Of("CLEAR", lwip.ev.arg, x)
    BY <1>1 DEF ClearsFirst, Closing, Leaves, Leaving, Calls
  <2>2. \A x \in Elems(queue') : x.event = "CLEAR" => Over(x.arg)'
    BY <1>1, <1>7 DEF ClearsFirst, Over
  <2> QED
    BY <1>1, <1>5, <1>7, <2>1, <2>2 DEF ClearsFirst
<1>17. GoneTold'
  BY <1>1, <1>5 DEF GoneTold, Gone, Leaving
<1>18. WorksLive'
  BY <1>5 DEF WorksLive, Working
<1> QED
  BY <1>10, <1>11, <1>12, <1>13, <1>14, <1>15, <1>16, <1>17, <1>18

\* A purge ends when all that is queued has been turned.
LEMMA LatePurged ==
  ASSUME LateInv, StrayInv', PurgeReturn PROVE LateParts'
<1> USE DEF LateInv, LateParts, StrayInv, OnceInv
<1>1. /\ task.at = "purge" /\ UNCHANGED <<obj, pcb, queue, lwip, told, data>>
      /\ queue \in Seq(AnEvent)
      /\ queue # <<>> => Head(queue) = task.first
  BY DEF PurgeReturn, PurgeEnds, shared, AllTyped
<1>2. task'.at = "get" /\ task'.first = NoEvent
  BY DEF PurgeReturn, TaskIdle
<1>3. \A x \in Elems(queue) : Passed(x)
  <2> SUFFICES ASSUME NEW x \in Elems(queue) PROVE Passed(x)
    OBVIOUS
  <2>1. PICK i \in 1..Len(queue) : queue[i] = x
    BY DEF Elems
  <2>2. queue # <<>> /\ Head(queue) = queue[1] /\ 1 \in 1..Len(queue)
    BY <1>1, <2>1
  <2>3. task.first = queue[1] /\ task.first # NoEvent
    BY <1>1, <2>2, Taking, NoEventIsNone
  <2>4. x = queue[1] \/ Precedes(queue, queue[1], x)
    BY <2>1, <2>2 DEF Precedes
  <2> QED
    BY <2>3, <2>4 DEF Passed, Turned
<1>4. \A x, y \in Elems(queue) : Earlier(x, y) => Earlier(x, y)'
  BY <1>1, <1>2, <1>3 DEF Passed, Earlier, Sooner, Turned
<1>5. \A c : Silent(c)' <=> Gone(c)
  BY <1>1, <1>2 DEF Silent, Gone, Closing, Leaves, Leaving, Calls
<1>6. QueueSound'
  BY <1>1, <1>2 DEF QueueSound
<1>7. LwipFresh'
  BY <1>1 DEF LwipFresh
<1>8. Installs'
  BY <1>1, <1>2, <1>5 DEF Installs, Calls, Silent
<1>9. DataKeepsClient'
  BY <1>1, <1>2 DEF DataKeepsClient, Leaves, Leaving, Calls
<1>10. ErrorsLast'
  BY <1>1, <1>2, <1>4 DEF ErrorsLast
<1>11. DataPurged'
  <2>1. ASSUME NEW x \in Elems(queue), x.event \in {"RECV", "ERROR"}, Silent(x.arg)'
        PROVE  PurgeComes(x)'
    <3>1. PICK f \in Elems(queue) : Of("CLEAR", x.arg, f) /\ Earlier(f, x)
      BY <1>3, <1>5, <2>1 DEF DataPurged, PurgeComes, Silent
    <3> QED
      BY <1>1, <1>2, <1>4, <2>1, <3>1 DEF PurgeComes
  <2> QED
    BY <1>1, <1>2, <2>1 DEF DataPurged, Calls
<1>12. ClearsFirst'
  <2>1. \A x \in Elems(queue) : x.event = "CLEAR" => Over(x.arg)'
    BY <1>1 DEF ClearsFirst, Over
  <2> QED
    BY <1>1, <1>2, <1>4, <2>1 DEF ClearsFirst
<1>13. GoneTold'
  BY <1>1, <1>2 DEF GoneTold, Gone, Leaving
<1>14. WorksLive'
  BY <1>2 DEF WorksLive, Working
<1> QED
  BY <1>6, <1>7, <1>8, <1>9, <1>10, <1>11, <1>12, <1>13, <1>14

LEMMA LateInit == Init => LateInv
<1> SUFFICES ASSUME Init PROVE LateParts
  BY StrayInit DEF LateInv
<1>1. /\ \A c \in Clients : obj[c].conn = 0 /\ obj[c].pcb = NULL
      /\ queue = <<>> /\ lwip.at = "idle" /\ task.at = "get" /\ task.first = NoEvent
  BY DEF Init, LwipIdle, TaskIdle
<1>2. Elems(queue) = {} /\ NoneTwice(queue)
  BY <1>1 DEF Elems, NoneTwice
<1>3. \A c \in Clients : ~Silent(c)
  BY <1>1 DEF Silent, Gone, Closing, Leaves, Leaving, Calls
<1> QED
  BY <1>1, <1>2, <1>3
     DEF LateParts, QueueSound, LwipFresh, Installs, DataKeepsClient, ErrorsLast, DataPurged,
         ClearsFirst, GoneTold, WorksLive, Working, Gone, Calls, Leaving

LEMMA LateNext ==
  ASSUME ~Reuse, ~Resets, LateInv, [Next]_vars PROVE LateInv'
<1>1. StrayInv'
  BY StrayNext DEF LateInv
<1> SUFFICES LateParts'
  BY <1>1 DEF LateInv
<1>2. CASE UNCHANGED vars
  <2>1. UNCHANGED <<obj, pcb, queue, lwip, task, told, data>>
    BY <1>2 DEF vars, shared
  <2> QED
    BY <2>1 DEF LateInv, LateParts, QueueSound, LwipFresh, Installs, DataKeepsClient, ErrorsLast,
       DataPurged, ClearsFirst, GoneTold, WorksLive, Working, This, Gone, Silent, Closing, Leaves,
       Calls, PurgeComes, Passed, Earlier, Over, Matches
<1>3. ASSUME NEW p \in Pcbs, NEW c \in Clients, Accept(c, p) PROVE LateParts'
  BY <1>1, <1>3, LateAccept
<1>4. ASSUME NEW p \in Pcbs, Callback(p) \/ Reset(p) \/ RemoteFin(p) \/ PcbGone(p)
      PROVE  LateParts'
  <2>1. ~Reset(p)
    BY DEF Reset
  <2> QED
    BY <1>1, <1>4, <2>1, LateCallback, LateRemoteFin
<1>5. CASE LwipStep
  BY <1>1, <1>5, LateLwipFin, LateLwipSend DEF LwipStep
<1>6. CASE TaskStep
  BY <1>1, <1>6, LateHandle, LateTurns, LatePurged, LateAccepted, LateQuiet, LateReads,
     LateNoCall, LateServed, LateDetach, LateDiscard, LateFin, LateDelete DEF TaskStep
<1> QED
  BY <1>2, <1>3, <1>4, <1>5, <1>6 DEF Next

\* Nothing but a FIN, and the data left of the chain that _recv was handing over when the
\* client was deleted, reaches a client that is deleted, and then the application has been
\* told of the end: for any numbers of clients and slots, while no connection is reset
\* and no client's address is handed out again.
THEOREM SpecOnlyFinComesLate ==
  ASSUME ~Reuse, ~Resets PROVE Spec => []OnlyFinComesLate
<1>1. LateInv /\ [Next]_vars => LateInv'
  BY LateNext
<1>2. Spec => []LateInv
  BY LateInit, <1>1, PTL DEF Spec
<1>3. LateInv => OnlyFinComesLate
  <2> SUFFICES ASSUME LateInv, Working, ClientGone
               PROVE  /\ task.ev.conn \in told
                      /\ task.ev.event = "FIN" \/ (task.ev.event = "RECV" /\ task.at = "deleted")
    BY DEF OnlyFinComesLate
  <2> USE DEF LateInv, LateParts, StrayInv, OnceInv
  <2>1. task.at # "get" /\ task.ev.arg \in Clients /\ task.ev.conn \in 1..MaxConns
    BY AllFields DEF Working
  <2>2. This.conn = task.ev.conn /\ This.conn # 0
    BY <2>1 DEF TaskOwn, Made, This
  <2>3. ~This.live
    BY <2>2 DEF ClientGone
  <2> QED
    BY <2>1, <2>2, <2>3 DEF WorksLive, GoneTold, Gone, This
<1> QED
  BY <1>2, <1>3, PTL
=============================================================================
