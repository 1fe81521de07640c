------------------------ MODULE AsyncWebSocketClient ------------------------
(***************************************************************************)
(* One client of the web socket server (AsyncWebSocket.cpp): a queue of    *)
(* control frames and one of messages share a TCP connection.  A message   *)
(* is cut into frames as the send buffer has room, the next frame going    *)
(* out when the last is acknowledged; what TCP acknowledges is booked on   *)
(* the head of one queue or the other.                                     *)
(*                                                                         *)
(* The handlers run on AsyncTCP's task, one at a time; the application     *)
(* calls from the web socket's events, so its calls are steps too.  Only   *)
(* lengths are kept of data, and every frame is below 126 bytes: its       *)
(* header has two.                                                         *)
(***************************************************************************)
EXTENDS Integers, Sequences

CONSTANTS
  SendBuf,         \* TCP's send buffer, bytes
  MaxQueued,       \* WS_MAX_QUEUED_MESSAGES
  MessageLens,     \* lengths of the application's messages
  SharedMessages,  \* the messages sent from a buffer of the server
  PayloadLens,     \* lengths of control frames' payloads
  AckLens,         \* lengths TCP acknowledges, but for all there is
  WritesFail,      \* TRUE when a malloc may fail, and one write
  MaxMessages,     \* bound: messages queued
  MaxControls,     \* bound: control frames queued
  MaxAcks          \* bound: SENT events on their way

HeaderLen == 2

\* A control frame and a message find room in an empty send buffer.
ASSUME RoomAssumption ==
  /\ SendBuf \in Nat /\ AckLens \subseteq Nat \ {0} /\ MaxQueued \in Nat \ {0}
  /\ MessageLens \subseteq 1..125
  /\ \A n \in PayloadLens : n \in 0..125 /\ SendBuf - 8 > n + 1
ASSUME BoundsAssumption == {MaxMessages, MaxControls, MaxAcks} \subseteq Nat

VARIABLES
  control,    \* _controlQueue
  message,    \* _messageQueue
  status,     \* _status
  inflight,   \* bytes in TCP's send buffer
  acks,       \* the SENT events on their way to the client
  peer,       \* what the other end has read, once it has read everything sent
  queued,     \* history: [messages, controls] queued so far
  notes       \* history: what the properties make an exception for

vars == <<control, message, status, inflight, acks, peer, queued, notes>>

Init ==
  /\ control = <<>> /\ message = <<>>
  /\ status = "CONNECTED"
  /\ inflight = 0 /\ acks = <<>>
  /\ peer = [open |-> 0, got |-> 0, done |-> <<>>, whole |-> TRUE]
  /\ queued = [messages |-> 0, controls |-> 0]
  /\ notes = {}

Alive == status # "GONE"      \* the client has been deleted
-----------------------------------------------------------------------------
(***************************************************************************)
(* Messages and control frames.                                            *)
(***************************************************************************)
NextMessage(len) ==
  [id |-> queued.messages + 1, len |-> len, sent |-> 0, ack |-> 0, acked |-> 0,
   shared |-> queued.messages + 1 \in SharedMessages, status |-> "SENDING"]
Control(op, len) == [op |-> op, len |-> len, finished |-> FALSE]
ControlLen(c) == c.len + HeaderLen

\* mutant: a message is taken for finished between any two of its frames
FinishedBetweenFrames(m) == m.status # "SENDING" \/ (m.ack > 0 /\ m.acked = m.ack)
Finished(m) == m.status # "SENDING"
BetweenFrames(m) == m.acked = m.ack

\* The counters are unsigned: below zero they are huge.
AtLeast(a, b) == a < 0 \/ a >= b
AckedAll(m) ==
  m.sent = m.len /\ IF m.shared THEN AtLeast(m.acked, m.ack) ELSE m.acked = m.ack
Acked(m, n) ==
  LET a == [m EXCEPT !.acked = @ + n] IN
    IF AckedAll(a) THEN [a EXCEPT !.status = "SENT"] ELSE a
-----------------------------------------------------------------------------
(***************************************************************************)
(* The connection.                                                         *)
(***************************************************************************)
Space == SendBuf - inflight
CanSend == Space > 0
Window == IF Space < 9 THEN 0 ELSE Space - 8

\* How much of a frame of n bytes AsyncClient takes, and whether webSocketSendFrame
\* answers n: the header's add(), the data's add() or send() may fail.
Outcomes(n) ==
  {[taken |-> HeaderLen + n, ok |-> TRUE]} \cup
  IF WritesFail /\ "failed" \notin notes THEN {[taken |-> k, ok |-> FALSE] : k \in {0, HeaderLen, HeaderLen + n}} ELSE {}

\* What the other end makes of a frame: a message's first frame begins one, the
\* others go on with it, the last ends it.
Reads(p, m, first, n) ==
  LET whole == p.whole /\ (IF first THEN p.open = 0 ELSE p.open = m.id /\ p.got = m.sent)
  IN IF m.sent + n = m.len
     THEN [open |-> 0, got |-> 0, done |-> Append(p.done, m.id), whole |-> whole]
     ELSE [open |-> m.id, got |-> m.sent + n, done |-> p.done, whole |-> whole]

\* Sending takes the queues as its caller leaves them, and what is noted of them.
Unsent(cs, ms, ns) ==
  control' = cs /\ message' = ms /\ notes' = ns /\ UNCHANGED <<inflight, peer>>

SendControl(cs, ms, ns) ==
  \E o \in Outcomes(cs[1].len) :
    /\ control' = [cs EXCEPT ![1].finished = TRUE]
    /\ message' = ms
    /\ inflight' = inflight + o.taken
    /\ notes' = ns \cup (IF cs[1].finished THEN {"repeated"} ELSE {})
                   \cup (IF o.ok THEN {} ELSE {"failed"})
    /\ UNCHANGED peer

Smaller(a, b) == IF a < b THEN a ELSE b
SendMessage(cs, ms, ns) ==
  LET m == Head(ms)
      n == Smaller(m.len - m.sent, Window)
      waits == m.status = "SENDING" => ~AtLeast(m.acked, m.ack)
  IN \/ waits /\ Unsent(cs, ms, ns)
     \/ /\ ~waits /\ m.sent = m.len
        /\ Unsent(cs, [ms EXCEPT ![1].status =
                         IF m.shared \/ m.acked = m.ack THEN "SENT" ELSE @], ns)
     \/ /\ ~waits /\ m.sent # m.len
        /\ \E o \in Outcomes(n) :
             LET counted == IF o.ok THEN n ELSE 0 IN
               /\ control' = cs
               /\ message' = [ms EXCEPT ![1].sent = @ + counted,
                                        ![1].ack = @ + counted + HeaderLen]
               /\ inflight' = inflight + o.taken
               /\ peer' = IF o.ok THEN Reads(peer, m, m.sent = 0, n) ELSE peer
               /\ notes' = ns \cup IF o.ok THEN {} ELSE {"failed"}

DropFinished(ms) ==
  LET n == CHOOSE k \in 0..Len(ms) : /\ \A i \in 1..k : Finished(ms[i])
                                     /\ k < Len(ms) => ~Finished(ms[k + 1])
  IN SubSeq(ms, n + 1, Len(ms))

\* _runQueue
RunQueue(cs, unfinished, ns) ==
  \E ms \in {DropFinished(unfinished)} :
    LET free == ms # <<>> => BetweenFrames(Head(ms))
        controlFits == cs # <<>> /\ free /\ Window > ControlLen(Head(cs)) - 1
        messageFits == ms # <<>> /\ free /\ Window > 0
    IN \/ controlFits /\ SendControl(cs, ms, ns)
       \/ ~controlFits /\ messageFits /\ SendMessage(cs, ms, ns)
       \/ ~controlFits /\ ~messageFits /\ Unsent(cs, ms, ns)
RunIfCanSend(cs, ms, ns) ==
  IF CanSend THEN RunQueue(cs, ms, ns) ELSE Unsent(cs, ms, ns)
-----------------------------------------------------------------------------
(***************************************************************************)
(* The client's handlers.                                                  *)
(***************************************************************************)
\* close(true), or the end of the connection: the client is deleted.
Deleted ==
  /\ status' = "GONE"
  /\ control' = <<>> /\ message' = <<>>
  /\ inflight' = 0 /\ acks' = <<>>
  /\ UNCHANGED <<peer, queued, notes>>

\* mutant: a control frame's bytes are not taken off what was acknowledged
AckedOfMessagesAll(n) == n
AckedOfMessages(n) ==
  IF control # <<>> /\ Head(control).finished THEN n - ControlLen(Head(control)) ELSE n

\* mutant: only a close() of the application's own is taken for one
CloseAckedWhenConnected == status = "CONNECTED" /\ Head(control).op = "CLOSE"
CloseAcked == status = "DISCONNECTING" /\ Head(control).op = "CLOSE"

OnAck ==
  /\ Alive /\ acks # <<>>
  /\ LET first == control # <<>> /\ Head(control).finished
         n == AckedOfMessages(Head(acks))
     IN IF first /\ CloseAcked
        THEN Deleted
        ELSE /\ RunQueue(IF first THEN Tail(control) ELSE control,
                         IF n # 0 /\ message # <<>> THEN [message EXCEPT ![1] = Acked(@, n)]
                                                    ELSE message,
                         IF n < 0 THEN notes \cup {"split"} ELSE notes)
             /\ acks' = Tail(acks)
             /\ UNCHANGED <<status, queued>>

OnPoll ==
  /\ Alive /\ CanSend
  /\ control = <<>> => message # <<>>
  /\ RunQueue(control, message, notes)
  /\ UNCHANGED <<status, acks, queued>>

\* A PING and a PONG are queued and sent alike.
QueueControl(op, n) ==
  /\ queued.controls < MaxControls
  /\ queued' = [queued EXCEPT !.controls = @ + 1]
  /\ RunIfCanSend(Append(control, Control(op, n)), message,
                  IF op = "CLOSE" THEN notes \cup {"closing"} ELSE notes)

\* The other end's PING and CLOSE; its other frames only reach the application.
OnPing(n) ==
  /\ Alive
  /\ QueueControl("OTHER", n)
  /\ UNCHANGED <<status, acks>>
OnClose(n) ==
  /\ Alive
  /\ IF status = "DISCONNECTING" THEN Deleted
     ELSE /\ status' = "DISCONNECTING"
          /\ QueueControl("CLOSE", n)
          /\ UNCHANGED acks
-----------------------------------------------------------------------------
(***************************************************************************)
(* The application.                                                        *)
(***************************************************************************)
\* text(), binary() and message(); _onPoll's ping for keep-alive is Ping's.
QueueMessage(len) ==
  /\ status = "CONNECTED"
  /\ queued.messages < MaxMessages
  /\ \/ /\ Len(message) < MaxQueued
        /\ queued' = [queued EXCEPT !.messages = @ + 1]
        /\ RunIfCanSend(control, Append(message, NextMessage(len)), notes)
     \/ /\ Len(message) < MaxQueued /\ WritesFail     \* no memory for the data
        /\ RunIfCanSend(control, Append(message, [NextMessage(0) EXCEPT !.id = 0, !.status = "ERROR"]),
                        notes)
        /\ UNCHANGED queued
     \/ /\ Len(message) >= MaxQueued
        /\ RunIfCanSend(control, message, notes)
        /\ UNCHANGED queued
  /\ UNCHANGED <<status, acks>>

Ping(n) ==
  /\ status = "CONNECTED"
  /\ QueueControl("OTHER", n)
  /\ UNCHANGED <<status, acks>>

\* close() leaves the status as it is.
Close(n) ==
  /\ status = "CONNECTED"
  /\ QueueControl("CLOSE", n)
  /\ UNCHANGED <<status, acks>>
-----------------------------------------------------------------------------
(***************************************************************************)
(* TCP.                                                                    *)
(***************************************************************************)
Acknowledge ==
  /\ Alive /\ Len(acks) < MaxAcks
  /\ inflight > 0
  /\ \E n \in {k \in AckLens : k < inflight} \cup {inflight} :
       /\ inflight' = inflight - n
       /\ acks' = Append(acks, n)
  /\ UNCHANGED <<control, message, status, peer, queued, notes>>

\* The other end closes or resets the connection, or AsyncTCP's ack timeout closes it.
ConnectionEnds == Alive /\ Deleted

Next ==
  \/ OnAck \/ OnPoll \/ Acknowledge \/ ConnectionEnds
  \/ \E n \in PayloadLens : OnPing(n) \/ OnClose(n) \/ Ping(n) \/ Close(n)
  \/ \E len \in MessageLens : QueueMessage(len)

Spec == Init /\ [][Next]_vars

\* While TCP has something to acknowledge, or the async task an event to handle or a
\* queue to poll (AsyncTCP polls an open connection every half second), one of them does.
Fairness == WF_vars(Acknowledge \/ OnAck \/ OnPoll)
FairSpec == Spec /\ Fairness
-----------------------------------------------------------------------------
ControlRecords == [op : {"CLOSE", "OTHER"}, len : PayloadLens, finished : BOOLEAN]
MessageRecords ==
  [id : 0..MaxMessages, len : MessageLens \cup {0}, shared : BOOLEAN, sent : Nat,
   ack : Nat, acked : Int, status : {"SENDING", "SENT", "ERROR"}]

\* The type invariant; in particular a message never counts more bytes sent than it has
\* (send, 325-337), and more than the send buffer is never in flight.
TypeOK ==
  /\ control \in Seq(ControlRecords) /\ message \in Seq(MessageRecords)
  /\ \A i \in DOMAIN message : message[i].sent <= message[i].len
  /\ Len(message) <= MaxQueued
  /\ status \in {"CONNECTED", "DISCONNECTING", "GONE"}
  /\ inflight \in 0..SendBuf
  /\ acks \in Seq(1..SendBuf) /\ Len(acks) <= MaxAcks
  /\ notes \subseteq {"repeated", "split", "failed", "closing"}

\* The other end reads every message whole, in the order the application queued them,
\* and none is dropped but with the connection: what is not read is still queued.
PeerReadsInOrder ==
  "failed" \notin notes =>
    LET read == Len(peer.done) IN
      /\ peer.whole
      /\ peer.done = [i \in 1..read |-> i]
      /\ Alive => \A i \in (read + 1)..queued.messages :
                    \E k \in DOMAIN message : message[k].id = i /\ ~Finished(message[k])

\* Every message queued is read by the other end, unless the connection is closed.
MessagesArrive ==
  \A i \in 1..MaxMessages :
    queued.messages >= i ~> Len(peer.done) >= i \/ ~Alive \/ "closing" \in notes

\* So it is unless a control frame was sent twice or acknowledged in pieces, when its
\* bytes are credited to a message, or a write failed.
Noted == notes \ {"closing"} # {}
MessagesArriveUnlessNoted ==
  \A i \in 1..MaxMessages :
    queued.messages >= i ~> Len(peer.done) >= i \/ ~Alive \/ Noted

\* A closing handshake the other end has begun is completed: the answer goes out
\* behind what is queued before it, and the connection is closed when it is acknowledged.
CloseCompletes == status = "DISCONNECTING" ~> ~Alive \/ Noted
=============================================================================
