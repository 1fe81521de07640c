----------------------------- MODULE EventSource -----------------------------
(***************************************************************************)
(* AsyncEventSource.cpp: the program's messages as events to every browser *)
(* that is connected.  acks are counted off the queue's messages           *)
(* from the front, whatever they acknowledge.  The lists are changed by    *)
(* both tasks without a lock; here each call is one step.  "data: " and    *)
(* the CR LF behind a line are one byte each.                              *)
(***************************************************************************)
EXTENDS Integers, SequencesExt, FiniteSetsExt

CONSTANTS
    Clients,        \* connections
    Messages,       \* sequences of characters
    HeadLen,        \* of the response's head
    AckSizes,       \* parts of what is in flight that are acknowledged alone
    Window,         \* the connection's send buffer
    MaxQueued,      \* SSE_MAX_QUEUED_MESSAGES
    MaxSends        \* bound on send()

CR == "\r"
LF == "\n"
Data == "data: "
Breaks == {CR, LF}
End == "\r\n"

VARIABLES
    conn,           \* "none", "head", "open", "closing", "gone"
    queue,          \* _messageQueue: [bytes, sent, acked]
    stream,         \* the bytes behind the head, as the browser will read them
    flight,         \* bytes sent and not acknowledged
    acks,           \* acknowledged, and not yet handled by the async task
    sends,
    accepted,       \* what was queued for the client
    miscounted      \* an ack was, or will be, counted for the wrong message

sourceVars == <<conn, queue, stream, flight, acks, sends, accepted, miscounted>>

\* mutant: the empty line behind a message is left out
EventBytesOpen(m) == <<Data>> \o SelectSeq(m, LAMBDA b : b \notin Breaks) \o <<End>>

\* generateEventMessage(), of a message without id, event and retry.
EventBytes(m) ==
    LET from[i \in 1..(Len(m) + 1)] ==
            LET ends == {j \in i..Len(m) : m[j] \in Breaks}
                e == Min(ends)
                next == IF e < Len(m) /\ m[e + 1] \in Breaks \ {m[e]} THEN e + 2 ELSE e + 1
            IN  IF ends = {} THEN <<Data>> \o SubSeq(m, i, Len(m)) \o <<End, End>>
                ELSE <<Data>> \o SubSeq(m, i, e - 1) \o <<End>>
                     \o (IF next > Len(m) THEN <<End>> ELSE from[next])
    IN  from[1]

Space(c, f) == Window - f
Unsent(m) == ~m.sent
Finished(m) == m.acked = Len(m.bytes)
DropFinished(q) ==
    LET busy == {i \in DOMAIN q : ~Finished(q[i])}
    IN  IF busy = {} THEN <<>> ELSE SubSeq(q, Min(busy), Len(q))

\* st is [q, stream, flight, odd]: _runQueue() sends each message there is room
\* for, one behind a message there was none for too.
RunQueue(c, st) ==
    LET q == DropFinished(st.q)
        from[i \in 0..Len(q)] ==
            IF i = 0 THEN [sent |-> {}, flight |-> st.flight]
            ELSE LET before == from[i - 1]
                     len == Len(q[i].bytes)
                 IN  IF q[i].sent \/ Space(c, before.flight) < len THEN before
                     ELSE [sent |-> before.sent \cup {i}, flight |-> before.flight + len]
        all == from[Len(q)]
        new == SelectSeq([i \in DOMAIN q |-> i], LAMBDA i : i \in all.sent)
    IN  [q |-> [i \in DOMAIN q |-> [q[i] EXCEPT !.sent = @ \/ i \in all.sent]],
         stream |-> st.stream \o FlattenSeq([j \in DOMAIN new |-> q[new[j]].bytes]),
         flight |-> all.flight,
         odd |-> st.odd \/ \E i \in all.sent : \E j \in 1..i : ~q[j].sent /\ j \notin all.sent]

State(c) == [q |-> queue[c], stream |-> stream[c], flight |-> flight[c], odd |-> miscounted[c]]

\* _queueMessage(): a full queue drops the new message.
Queued(c, st, m) ==
    LET kept == IF Len(st.q) >= MaxQueued THEN st
                ELSE [st EXCEPT !.q = Append(@, [bytes |-> EventBytes(m), sent |-> FALSE, acked |-> 0])]
    IN  IF Space(c, st.flight) > 0 THEN RunQueue(c, kept) ELSE kept

Becomes(c, new) == \E st \in {new} :
    /\ queue' = [queue EXCEPT ![c] = st.q]
    /\ stream' = [stream EXCEPT ![c] = st.stream]
    /\ flight' = [flight EXCEPT ![c] = st.flight]
    /\ miscounted' = [miscounted EXCEPT ![c] = st.odd]

\* _onAck() of len: AsyncEventSourceMessage::ack() carries the rest on, and what
\* is finished before there is nothing left to count goes.
Acked(q, len) ==
    LET owed(i) == SumFunction([j \in 1..i |-> Len(q[j].bytes) - q[j].acked])
        whole == {i \in DOMAIN q : len > 0 /\ owed(i) <= len}
    IN  [i \in 1..(Len(q) - Cardinality(whole)) |->
            LET m == q[i + Cardinality(whole)]
                n == len - owed(Cardinality(whole))
            IN  IF i = 1 THEN [m EXCEPT !.acked = @ + n] ELSE m]

-----------------------------------------------------------------------------
\* A browser asks: AsyncEventSourceResponse::_respond() sends the head.
Connect(c) ==
    /\ conn[c] = "none" /\ conn' = [conn EXCEPT ![c] = "head"]
    /\ flight' = [flight EXCEPT ![c] = HeadLen]
    /\ UNCHANGED <<queue, stream, acks, sends, accepted, miscounted>>

\* The browser's TCP acknowledges n bytes.
PeerAcks(c, n) ==
    /\ conn[c] \in {"head", "open"} /\ n \in 1..flight[c]
    /\ n \in AckSizes \cup {flight[c]}
    /\ flight' = [flight EXCEPT ![c] = @ - n]
    /\ acks' = [acks EXCEPT ![c] = Append(@, n)]
    /\ UNCHANGED <<conn, queue, stream, sends, accepted, miscounted>>

\* The head's first ack makes the client, and the program's onConnect may greet
\* it; what is left of the head will be counted for the messages.
Opens(c, greeting) ==
    /\ conn[c] = "head" /\ acks[c] # <<>>
    /\ conn' = [conn EXCEPT ![c] = "open"]
    /\ acks' = [acks EXCEPT ![c] = Tail(@)]
    /\ LET st == [State(c) EXCEPT !.odd = Head(acks[c]) < HeadLen]
       IN  IF greeting = {} THEN Becomes(c, st) /\ UNCHANGED <<sends, accepted>>
           ELSE \E m \in greeting :
                    /\ sends < MaxSends /\ sends' = sends + 1
                    /\ Becomes(c, Queued(c, st, m))
                    /\ accepted' = [accepted EXCEPT ![c] = <<m>>]

\* mutant: an ack does not run the queue, and nothing else has to
HandleAckOnly(c) ==
    /\ conn[c] = "open" /\ acks[c] # <<>>
    /\ acks' = [acks EXCEPT ![c] = Tail(@)]
    /\ queue' = [queue EXCEPT ![c] = Acked(@, Head(acks[c]))]
    /\ UNCHANGED <<conn, stream, flight, sends, accepted, miscounted>>

HandleAck(c) ==
    /\ conn[c] = "open" /\ acks[c] # <<>>
    /\ acks' = [acks EXCEPT ![c] = Tail(@)]
    /\ Becomes(c, RunQueue(c, [State(c) EXCEPT !.q = Acked(@, Head(acks[c]))]))
    /\ UNCHANGED <<conn, sends, accepted>>

Poll(c) ==
    /\ conn[c] = "open" /\ queue[c] # <<>>
    /\ Becomes(c, RunQueue(c, State(c)))
    /\ UNCHANGED <<conn, acks, sends, accepted>>

\* AsyncEventSource::send() to every client that is connected.
Send(m) ==
    /\ sends < MaxSends /\ sends' = sends + 1
    /\ LET to == {c \in Clients : conn[c] = "open"}
           st(c) == IF c \in to THEN Queued(c, State(c), m) ELSE State(c)
       IN  /\ to # {}
           /\ queue' = [c \in Clients |-> st(c).q]
           /\ stream' = [c \in Clients |-> st(c).stream]
           /\ flight' = [c \in Clients |-> st(c).flight]
           /\ miscounted' = [c \in Clients |-> st(c).odd]
           /\ accepted' = [c \in Clients |->
                  IF c \in to /\ Len(queue[c]) < MaxQueued THEN Append(accepted[c], m)
                  ELSE accepted[c]]
    /\ UNCHANGED <<conn, acks>>

\* The browser leaves; the async task hears of it later, and the client is gone.
Leaves(c) ==
    /\ conn[c] \in {"head", "open"} /\ conn' = [conn EXCEPT ![c] = "closing"]
    /\ UNCHANGED <<queue, stream, flight, acks, sends, accepted, miscounted>>
HandleDisconnect(c) ==
    /\ conn[c] = "closing" /\ conn' = [conn EXCEPT ![c] = "gone"]
    /\ queue' = [queue EXCEPT ![c] = <<>>] /\ acks' = [acks EXCEPT ![c] = <<>>]
    /\ UNCHANGED <<stream, flight, sends, accepted, miscounted>>

\* close(), of a client or of all of them, and _onTimeout(): the disconnect
\* handler runs within.
Close(cs) ==
    /\ cs # {} /\ \A c \in cs : conn[c] = "open"
    /\ conn' = [c \in Clients |-> IF c \in cs THEN "gone" ELSE conn[c]]
    /\ queue' = [c \in Clients |-> IF c \in cs THEN <<>> ELSE queue[c]]
    /\ acks' = [c \in Clients |-> IF c \in cs THEN <<>> ELSE acks[c]]
    /\ UNCHANGED <<stream, flight, sends, accepted, miscounted>>

Init ==
    /\ conn = [c \in Clients |-> "none"] /\ sends = 0
    /\ queue = [c \in Clients |-> <<>>] /\ stream = queue /\ acks = queue /\ accepted = queue
    /\ flight = [c \in Clients |-> 0]
    /\ miscounted = [c \in Clients |-> FALSE]

Greetings == {{}} \cup {{m} : m \in Messages}
Next ==
    \/ \E c \in Clients : \/ Connect(c) \/ HandleAck(c) \/ Poll(c)
                          \/ Leaves(c) \/ HandleDisconnect(c)
                          \/ \E n \in 1..Window : PeerAcks(c, n)
                          \/ \E g \in Greetings : Opens(c, g)
    \/ \E m \in Messages : Send(m)
    \/ \E cs \in SUBSET Clients : Close(cs)

\* The async task gets to an ack that waits: the steps of HandleAck(c), by what
\* they do to acks.
TakesAck(c) == conn[c] = "open" /\ acks[c] # <<>> /\ acks' = [acks EXCEPT ![c] = Tail(@)]
SourceFairness == \A c \in Clients : /\ WF_acks(TakesAck(c))
                                     /\ WF_sourceVars(\E n \in 1..Window : PeerAcks(c, n))
Spec == Init /\ [][Next]_sourceVars /\ SourceFairness

-----------------------------------------------------------------------------
\* Queues stay in their bound, and what is sent in the send buffer.
TypeOK ==
    \A c \in Clients :
        /\ conn[c] \in {"none", "head", "open", "closing", "gone"}
        /\ Len(queue[c]) <= MaxQueued
        /\ flight[c] \in 0..Window
        /\ \A i \in DOMAIN queue[c] : queue[c][i].acked <= Len(queue[c][i].bytes)

\* The events a browser dispatches from a stream: each empty line does.
Heard(s) ==
    LET end(st) ==
            IF st.line # <<>> THEN [st EXCEPT !.line = <<>>, !.data = Append(@, Tail(st.line))]
            ELSE IF st.data = <<>> THEN st
            ELSE [st EXCEPT !.data = <<>>, !.events = Append(@, st.data)]
        after[i \in 0..Len(s)] ==
            IF i = 0 THEN [line |-> <<>>, data |-> <<>>, events |-> <<>>]
            ELSE IF s[i] = End THEN end(after[i - 1])
            ELSE [after[i - 1] EXCEPT !.line = Append(@, s[i])]
    IN  after[Len(s)].events

\* A message's lines, however it breaks them; a last break ends the last line.
Lines(m) ==
    LET step(st, b) ==
            IF b \notin Breaks THEN [st EXCEPT !.line = Append(@, b), !.prev = {}, !.open = TRUE]
            ELSE IF b \in st.prev THEN [st EXCEPT !.prev = {}]
            ELSE [lines |-> Append(st.lines, st.line), line |-> <<>>, prev |-> Breaks \ {b}, open |-> FALSE]
        after[i \in 0..Len(m)] ==
            IF i = 0 THEN [lines |-> <<>>, line |-> <<>>, prev |-> {}, open |-> TRUE]
            ELSE step(after[i - 1], m[i])
        all == after[Len(m)]
    IN  IF all.open THEN Append(all.lines, all.line) ELSE all.lines

\* A browser hears the messages that were queued for it, each as one event with
\* its lines, in order and none left out, and all of them once the queue is
\* empty, whatever is acknowledged when - unless an ack was counted for a message
\* it does not belong to.
EventsAreHeard ==
    \A c \in Clients :
        LET heard == Heard(stream[c])
            due == [i \in DOMAIN accepted[c] |-> Lines(accepted[c][i])]
        IN  ~miscounted[c] => /\ IsPrefix(heard, due)
                              /\ conn[c] = "open" /\ queue[c] = <<>> => heard = due

\* A client's queue comes to an end, or its connection does - unless an ack was
\* counted for a message it does not belong to: a message that owes bytes nobody
\* will acknowledge stays at the head of the queue.
EventsGoOut ==
    \A c \in Clients :
        queue[c] # <<>> ~> queue[c] = <<>> \/ conn[c] \in {"closing", "gone"} \/ miscounted[c]

=============================================================================
