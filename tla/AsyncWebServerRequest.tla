------------------------ MODULE AsyncWebServerRequest ------------------------
(***************************************************************************)
(* One request of the web server (WebRequest.cpp) and its response         *)
(* (WebResponses.cpp), on one connection.  The request arrives in packets  *)
(* cut anywhere and is parsed as they come; the handler is called once it  *)
(* is complete and answers; the response is written piece by piece, as     *)
(* TCP's send buffer has room, on acknowledgements and polls.              *)
(*                                                                         *)
(* The handlers run on AsyncTCP's task, whole, in the order of the event   *)
(* queue.  A byte of the response is its place in what is sent; of the     *)
(* request only the kind of a byte is kept.                                *)
(***************************************************************************)
EXTENDS Integers, Sequences, SequencesExt

CONSTANTS
  Requests,      \* what the other end may send: bytes, and the length its head announces
  Responses,     \* what a handler may answer: kind, length announced, bytes its source has
  HeadLen,       \* bytes of a response's head
  ContinueLen,   \* bytes of "HTTP/1.1 100 Continue"
  SendBufs,      \* sizes of TCP's send buffer
  AckLens,       \* lengths TCP acknowledges, but for all there is
  WritesFail,    \* TRUE when a write may fail
  SourcesFail,   \* TRUE when a file may be closed under its response
  MaxWaits,      \* bound: times a source has nothing yet, or malloc fails
  MaxEvents,     \* bound: events on their way
  NULL

ASSUME LengthAssumption ==
  /\ HeadLen \in Nat \ {0} /\ ContinueLen \in Nat /\ SendBufs \subseteq Nat \ {0}
  /\ AckLens \subseteq Nat \ {0} /\ MaxWaits \in Nat /\ MaxEvents \in Nat
  /\ \A a \in Responses : /\ a.kind \in {"basic", "sized", "open", "chunked"}
                          /\ a.length \in Nat /\ a.has \in Nat
                          /\ a.kind = "chunked" => \A s \in SendBufs : s > 8

\* A request has an empty first line; or a head of lines up to the first empty one, the h-th
\* byte, which announces the length of the body, if any, and at least as much of it.
Kinds == {"text", "length", "expect", "newline", "body"}
EmptyFirstLine(q) == q.bytes # <<>> /\ q.bytes[1] = "newline"
HeadIs(q, h) ==
  /\ q.bytes[1] # "newline" /\ q.bytes[h - 1] = "newline" /\ q.bytes[h] = "newline"
  /\ \A i \in 2..(h - 1) : q.bytes[i] = "newline" => q.bytes[i - 1] # "newline"
  /\ q.length > 0 => \E i \in 1..h : q.bytes[i] = "length" /\ \E k \in 1..(i - 1) : q.bytes[k] = "newline"
  /\ \A i \in (h + 1)..Len(q.bytes) : q.bytes[i] = "body"
  /\ q.length <= Len(q.bytes) - h
ASSUME RequestsAssumption ==
  \A q \in Requests : /\ q.bytes \in Seq(Kinds) /\ q.length \in Nat
                      /\ EmptyFirstLine(q) \/ \E h \in 2..Len(q.bytes) : HeadIs(q, h)

VARIABLES
  wire,       \* the bytes of the request still to come
  request,    \* the parser: _parseState, _temp, _contentLength, _parsedLength
  response,   \* _response
  rxTimeout,  \* the client's timeout for a silent peer is armed
  client,     \* "OPEN" or "GONE"
  events,     \* RECV and SENT events on their way to the request
  sendBuf,    \* the size of TCP's send buffer
  inflight,   \* bytes in it
  peer,       \* what the other end has of the response, once it has all that was sent
  handled,    \* history: how often the handler was called
  notes       \* history: what the properties make an exception for

vars == <<wire, request, response, rxTimeout, client, events, sendBuf, inflight, peer,
          handled, notes>>

Init ==
  /\ \E q \in Requests :
       /\ wire = q.bytes
       /\ request = [parse |-> "START", line |-> {}, length |-> 0, parsed |-> 0,
                     expect |-> FALSE, announced |-> q.length]
  /\ response = NULL
  /\ rxTimeout = TRUE
  /\ client = "OPEN"
  /\ events = <<>>
  /\ sendBuf \in SendBufs /\ inflight = 0
  /\ peer = [got |-> 0, whole |-> TRUE]
  /\ handled = 0
  /\ notes = {}

Open == client = "OPEN"
Smaller(a, b) == IF a < b THEN a ELSE b
-----------------------------------------------------------------------------
(***************************************************************************)
(* Writing.  The operators below get what their caller has made of the     *)
(* response, the bytes in flight and the events left.                      *)
(***************************************************************************)
\* n bytes of the response, from the one behind the a-th
Bytes(a, n) == [i \in 1..n |-> a + i]
Drop(s, n) == SubSeq(s, n + 1, Len(s))
Take(s, n) == SubSeq(s, 1, n)

\* AsyncClient::write takes what fits; its add() may fail, or its send() behind that.
Outcomes(bytes, room) ==
  LET fits == Take(bytes, Smaller(Len(bytes), room))
  IN {[taken |-> fits, counted |-> Len(fits), failed |-> FALSE]} \cup
     IF WritesFail /\ fits # <<>>
     THEN {[taken |-> t, counted |-> 0, failed |-> TRUE] : t \in {<<>>, fits}} ELSE {}

Reads(p, bytes) ==
  IF bytes = <<>> THEN p
  ELSE [got |-> Last(bytes), whole |-> p.whole /\ Head(bytes) = p.got + 1]

Writes(bytes, r, sent, ns) ==
  \E o \in Outcomes(bytes, sendBuf - sent) :
    /\ response' = [r EXCEPT !.written = @ + o.counted]
    /\ inflight' = sent + Len(o.taken)
    /\ peer' = Reads(peer, o.taken)
    /\ notes' = ns \cup IF o.failed THEN {"failed"} ELSE {}
    /\ UNCHANGED client

Leaves(r, sent, ns) ==
  response' = r /\ inflight' = sent /\ notes' = ns /\ UNCHANGED <<peer, client>>

\* close(): the connection is closed, the request and its response are deleted.
Deleted ==
  /\ client' = "GONE"
  /\ response' = NULL
  /\ events' = <<>> /\ inflight' = 0
  /\ UNCHANGED <<wire, sendBuf, peer, handled, notes, rxTimeout, request>>
-----------------------------------------------------------------------------
(***************************************************************************)
(* AsyncBasicResponse: a text held in memory.                              *)
(***************************************************************************)
BasicRespond(r, sent) ==
  LET room == sendBuf - sent
      text == r.head \o r.content
      next == [r EXCEPT !.head = <<>>]
  IN \/ /\ room >= HeadLen + r.length
        /\ Writes(text, [next EXCEPT !.state = "WAIT_ACK"], sent, notes)
     \/ /\ room > 0 /\ room < HeadLen
        /\ Writes(Take(text, room),
                  [next EXCEPT !.content = Drop(text, room), !.length = @ + HeadLen - room,
                               !.state = "CONTENT"], sent, notes)
     \/ /\ room > HeadLen /\ room < HeadLen + r.length
        /\ Writes(Take(text, room),
                  [next EXCEPT !.content = Drop(text, room), !.sent = @ + room - HeadLen,
                               !.state = "CONTENT"], sent, notes)
     \/ /\ room = 0 \/ (room = HeadLen /\ r.length > 0)
        /\ Leaves([next EXCEPT !.content = text, !.length = @ + HeadLen, !.state = "CONTENT"],
                  sent, notes)

BasicAck(r, sent) ==
  LET room == sendBuf - sent
      available == r.length - r.sent
  IN IF room > available
     THEN Writes(Take(r.content, available), [r EXCEPT !.content = <<>>, !.state = "WAIT_ACK"],
                 sent, notes)
     ELSE Writes(Take(r.content, room), [r EXCEPT !.content = Drop(@, room), !.sent = @ + room],
                 sent, notes)
-----------------------------------------------------------------------------
(***************************************************************************)
(* AsyncAbstractResponse: a file, a stream or a callback is asked for the  *)
(* content, of the length announced ("sized"), in chunks ("chunked") or up *)
(* to its end ("open").                                                    *)
(***************************************************************************)
Again == -1     \* RESPONSE_TRY_AGAIN; to malloc failing the response does the same
ChunkLen(n) == n + 8

\* What the source may return when it is asked for at most max bytes.
Fills(r, max) ==
  {n \in 1..max : n <= r.left} \cup
  (IF r.left = 0 \/ max = 0 THEN {0} ELSE {}) \cup
  (IF r.waits < MaxWaits THEN {Again} \cup (IF r.kind = "sized" THEN {0} ELSE {}) ELSE {})

\* A head left behind for later is written with content that was given no less room.
LateHead(r) == notes \cup IF r.head # <<>> THEN {"lateHead"} ELSE {}

\* mutant: a chunk is given all the room there is
AskFramed(r, outLen) == outLen
Ask(r, outLen) == IF r.kind = "chunked" THEN outLen - 8 ELSE outLen

\* The head, if it is still here, and n bytes of content.
WriteContent(r, n, sent) ==
  LET new == Bytes(r.made, IF r.kind = "chunked" THEN ChunkLen(n) ELSE n)
      done == \/ r.kind = "chunked" /\ n = 0
              \/ r.kind = "open" /\ r.head \o new = <<>>
              \/ r.kind # "chunked" /\ r.sent + n = r.length
  IN Writes(r.head \o new,
            [r EXCEPT !.head = <<>>, !.made = @ + Len(new), !.left = @ - n, !.sent = @ + n,
                      !.waits = IF n = 0 /\ r.left > 0 THEN @ + 1 ELSE @,
                      !.state = IF done THEN "WAIT_ACK" ELSE @],
            sent,
            notes \cup IF r.kind = "open" /\ done /\ r.left > n THEN {"cutShort"} ELSE {})

OutLen(r, room) == IF r.kind = "sized" THEN Smaller(r.length - r.sent, room) ELSE room

SendContent(r, room, sent) ==
  LET outLen == OutLen(r, room)
      asks == outLen + Len(r.head) > 0 /\ (r.kind = "chunked" => room > 8)
  IN \/ ~asks /\ Leaves(r, sent, LateHead(r))
     \/ asks /\ \E n \in Fills(r, Ask(r, outLen)) :
          IF n = Again THEN Leaves([r EXCEPT !.waits = @ + 1], sent, LateHead(r))
                       ELSE WriteContent(r, n, sent)

AbstractAck(r, sent) ==
  LET room == sendBuf - sent IN
    \/ /\ r.state = "HEADERS" /\ room < Len(r.head)
       /\ Writes(Take(r.head, room), [r EXCEPT !.head = Drop(@, room)], sent, notes)
    \/ /\ r.state = "HEADERS" /\ room >= Len(r.head)
       /\ \E q \in {[r EXCEPT !.state = "CONTENT"]} : SendContent(q, room - Len(r.head), sent)
    \/ r.state = "CONTENT" /\ SendContent(r, room, sent)
-----------------------------------------------------------------------------
(***************************************************************************)
(* The response's _respond and _ack.                                       *)
(***************************************************************************)
NewResponse(a) ==
  [kind |-> a.kind, state |-> "HEADERS", head |-> Bytes(0, HeadLen),
   content |-> IF a.kind = "basic" THEN Bytes(HeadLen, a.length) ELSE <<>>,
   length |-> a.length, sent |-> 0, acked |-> 0, written |-> 0,
   made |-> HeadLen + IF a.kind = "basic" THEN a.length ELSE 0,
   left |-> IF a.kind = "basic" THEN 0 ELSE a.has, waits |-> 0, valid |-> TRUE]

\* A source that cannot be read is answered with a 500, a text without content.
Respond(sent) ==
  \/ \E r \in {NewResponse(a) : a \in Responses} :
       IF r.kind = "basic" THEN BasicRespond(r, sent) ELSE AbstractAck(r, sent)
  \/ /\ SourcesFail
     /\ BasicRespond(NewResponse([kind |-> "basic", length |-> 0, has |-> 0]), sent)

\* mutant: one byte more is waited for
AllAckedAndOneMore(r) == r.kind \in {"open", "chunked"} \/ r.acked > r.written
AllAcked(r) == r.kind \in {"open", "chunked"} \/ r.acked >= r.written

Finished(r) == r.state = "END"

\* _ack; the events left are those its caller leaves
Ack(r, evs) ==
  \/ ~r.valid /\ Deleted
  \/ r.valid /\ r.state = "WAIT_ACK" /\ AllAcked(r) /\ r.kind = "open" /\ Deleted
  \/ /\ r.valid
     /\ r.state = "WAIT_ACK" => ~(AllAcked(r) /\ r.kind = "open")
     /\ \/ /\ r.state = "WAIT_ACK"
           /\ Leaves(IF AllAcked(r) THEN [r EXCEPT !.state = "END"] ELSE r, inflight, notes)
        \/ /\ r.state # "WAIT_ACK"
           /\ IF r.kind = "basic" THEN BasicAck(r, inflight) ELSE AbstractAck(r, inflight)
     /\ events' = evs
     /\ UNCHANGED <<wire, sendBuf, handled, rxTimeout, request>>
-----------------------------------------------------------------------------
(***************************************************************************)
(* Parsing.                                                                *)
(***************************************************************************)
ParseLine(q) ==
  CASE q.parse = "START" /\ q.line = {} -> [q EXCEPT !.parse = "FAIL"]
    [] q.parse = "START" /\ q.line # {} -> [q EXCEPT !.parse = "HEADERS", !.line = {}]
    [] q.parse = "HEADERS" /\ q.line # {} ->
         [q EXCEPT !.line = {}, !.length = IF "length" \in q.line THEN q.announced ELSE @,
                   !.expect = @ \/ "expect" \in q.line]
    [] q.parse = "HEADERS" /\ q.line = {} ->
         [q EXCEPT !.parse = IF q.length > 0 THEN "BODY" ELSE "END"]

ParseByte(q, b) ==
  CASE q.parse \in {"START", "HEADERS"} /\ b = "newline" -> ParseLine(q)
    [] q.parse \in {"START", "HEADERS"} /\ b # "newline" -> [q EXCEPT !.line = @ \cup {b}]
    [] q.parse = "BODY" -> [q EXCEPT !.parsed = @ + 1]
    [] OTHER -> q

\* After each byte of a packet, the set of the one state the parser is in, from q before it.
Parsing(q, bytes) ==
  LET parsed[n \in 0..Len(bytes)] ==
        IF n = 0 THEN {q} ELSE {ParseByte(r, bytes[n]) : r \in parsed[n - 1]}
  IN parsed
\* mutant: a line is what one packet holds of it
ParsePacketAlone(q, bytes) == Parsing([q EXCEPT !.line = {}], bytes)[Len(bytes)]
ParsePacket(q, bytes) == Parsing(q, bytes)[Len(bytes)]

\* A body is complete when a packet ends with its last byte.
Complete(q) ==
  IF q.parse = "BODY" /\ q.parsed = q.length THEN [q EXCEPT !.parse = "END"] ELSE q

OnData ==
  /\ Open /\ events # <<>> /\ Head(events).type = "RECV"
  /\ \E q \in {Complete(r) : r \in ParsePacket(request, Head(events).bytes)} :
       LET continues == q.expect /\ request.parse \in {"START", "HEADERS"} /\ q.parse \in {"BODY", "END"}
           sent == inflight + IF continues THEN Smaller(ContinueLen, sendBuf - inflight) ELSE 0
           handles == q.parse = "END" /\ request.parse # "END"
       IN \/ q.parse = "FAIL" /\ Deleted
          \/ /\ q.parse # "FAIL"
             /\ \/ handles /\ Respond(sent)
                \/ ~handles /\ Leaves(response, sent, notes)
             /\ handled' = IF handles THEN handled + 1 ELSE handled
             /\ rxTimeout' = (rxTimeout /\ ~handles)
             /\ request' = q
             /\ events' = Tail(events)
             /\ UNCHANGED <<wire, sendBuf>>
-----------------------------------------------------------------------------
(***************************************************************************)
(* The request's other handlers.                                           *)
(***************************************************************************)
OnAck ==
  /\ Open /\ events # <<>> /\ Head(events).type = "SENT"
  /\ \/ /\ response # NULL /\ ~Finished(response)
        /\ \E r \in {[response EXCEPT !.acked = @ + Head(events).length]} : Ack(r, Tail(events))
     \/ /\ response # NULL => Finished(response)
        /\ response' = NULL
        /\ events' = Tail(events)
        /\ UNCHANGED <<wire, request, rxTimeout, client, sendBuf, inflight, peer, handled, notes>>

OnPoll ==
  /\ Open /\ response # NULL /\ inflight < sendBuf
  /\ ~Finished(response)
  /\ Ack(response, events)

\* Nothing was received for three seconds.
OnTimeout == Open /\ rxTimeout /\ Deleted
-----------------------------------------------------------------------------
(***************************************************************************)
(* The other end, TCP and the file system.                                 *)
(***************************************************************************)
PeerSends ==
  /\ Open /\ Len(events) < MaxEvents
  /\ \E n \in 1..Len(wire) :
       /\ events' = Append(events, [type |-> "RECV", bytes |-> Take(wire, n)])
       /\ wire' = Drop(wire, n)
  /\ UNCHANGED <<request, response, rxTimeout, client, sendBuf, inflight, peer, handled, notes>>

Acknowledge ==
  /\ Open /\ Len(events) < MaxEvents /\ inflight > 0
  /\ \E n \in {k \in AckLens : k < inflight} \cup {inflight} :
       /\ inflight' = inflight - n
       /\ events' = Append(events, [type |-> "SENT", length |-> n])
  /\ UNCHANGED <<wire, request, response, rxTimeout, client, sendBuf, peer, handled, notes>>

ConnectionEnds == Open /\ Deleted

SourceFails ==
  /\ SourcesFail /\ Open /\ response # NULL
  /\ response.kind # "basic" /\ response.valid
  /\ response' = [response EXCEPT !.valid = FALSE]
  /\ UNCHANGED <<wire, request, rxTimeout, client, events, sendBuf, inflight, peer, handled, notes>>

Next ==
  \/ OnData \/ OnAck \/ OnPoll \/ OnTimeout
  \/ PeerSends \/ Acknowledge \/ ConnectionEnds \/ SourceFails

Spec == Init /\ [][Next]_vars

\* The async task handles its events and polls every half second, which runs the
\* timeout too; TCP acknowledges what is in flight.
Fairness == WF_vars(OnData \/ OnAck \/ OnPoll \/ Acknowledge) /\ WF_vars(OnTimeout)
FairSpec == Spec /\ Fairness
-----------------------------------------------------------------------------
\* The type invariant; in particular a response never writes more than the room the send
\* buffer has (_ack, 289-298), nor counts more bytes sent than it announced.
TypeOK ==
  /\ wire \in Seq(Kinds)
  /\ request.parse \in {"START", "HEADERS", "BODY", "END", "FAIL"}
  /\ request.length \in {0, request.announced} /\ request.parsed \in Nat
  /\ client \in {"OPEN", "GONE"}
  /\ inflight \in 0..sendBuf
  /\ Len(events) <= MaxEvents
  /\ handled \in Nat
  /\ notes \subseteq {"failed", "lateHead", "cutShort"}
  /\ response # NULL =>
       /\ response.state \in {"HEADERS", "CONTENT", "WAIT_ACK", "END"}
       /\ response.left \in Nat /\ response.sent \in 0..response.length + response.made
       /\ response.kind \in {"basic", "sized"} => response.sent <= response.length

\* However the request is cut into packets, the handler is called once, with the whole
\* of it, when its last byte has been read - unless the last packet holds more than the
\* length announced, when it is never called.
ToRead == Range(wire) \cup
          UNION {Range(events[i].bytes) : i \in {k \in DOMAIN events : events[k].type = "RECV"}}
HandledOnce ==
  /\ handled <= 1
  /\ handled = 1 => /\ request.length = request.announced /\ request.parsed = request.length
                    /\ ToRead \subseteq {"body"}
  /\ Open /\ ToRead = {} => handled = 1 \/ request.parsed > request.length

\* What the other end has of the response and what is not written yet make up all that
\* was asked of the source, in order and without a gap; and the response waits for its
\* last acknowledgement only when the whole of it is written; one of a known length is
\* finished when all of that is acknowledged, without a "100 Continue" before it, whose
\* bytes count as the response's.  The exceptions: a write
\* that failed; a head left for later by a source that had nothing; an open-ended
\* response whose head fills the send buffer exactly.
Unwritten(r) == IF r.state \in {"HEADERS", "CONTENT"} THEN Len(r.head) + Len(r.content) ELSE 0
ResponseWhole ==
  notes = {} =>
    /\ peer.whole
    /\ response # NULL =>
         /\ peer.got + Unwritten(response) = response.made
         /\ response.state \in {"WAIT_ACK", "END"} =>
              /\ peer.got = response.made
              /\ IF response.kind = "sized" THEN response.sent = response.length
                                            ELSE response.left = 0
         /\ Finished(response) /\ response.kind \in {"basic", "sized"} /\ ~request.expect =>
              inflight = 0 /\ \A i \in DOMAIN events : events[i].type # "SENT"

\* A source that has nothing yet costs nothing: the other end misses no byte of a
\* response whose writes succeed.
NothingIsMissed == "failed" \notin notes => peer.whole

\* Every connection comes to a finished response or is closed: a request that stops
\* coming is timed out, and a response goes on until it is complete - unless its source
\* ends before the length announced.
Starved == response # NULL /\ response.kind = "sized" /\ response.left = 0
             /\ response.sent < response.length
Served == handled > 0 /\ (response # NULL => Finished(response))
ConnectionSettles == Open ~> ~Open \/ Served \/ Starved
-----------------------------------------------------------------------------
(* Values for TLC: a GET; a POST whose body is followed by a stray byte; an empty first *)
(* line.  Responses with and without content, of a source too short for the length      *)
(* announced, and of one with more.                                                     *)

MCRequests ==
  {[bytes |-> <<"text", "newline", "text", "newline", "newline">>, length |-> 0],
   [bytes |-> <<"text", "newline", "expect", "newline", "length", "newline", "newline", "body", "body", "body">>,
    length |-> 2],
   [bytes |-> <<"newline", "text", "newline">>, length |-> 0]}

MCResponses ==
  {[kind |-> "basic", length |-> n, has |-> 0] : n \in {0, 12}} \cup
  {[kind |-> "sized", length |-> 3, has |-> n] : n \in {2, 4}} \cup
  {[kind |-> "open", length |-> 0, has |-> n] : n \in {0, 2}} \cup
  {[kind |-> "chunked", length |-> 0, has |-> n] : n \in {0, 2}}

MCGet == {[bytes |-> <<"text", "newline", "newline">>, length |-> 0]}
MCWaiting == {[kind |-> "sized", length |-> 3, has |-> 4], [kind |-> "chunked", length |-> 0, has |-> 3]}
=============================================================================
