----------------------------- MODULE WifiSockets -----------------------------
(***************************************************************************)
(* WiFiClient.cpp and WiFiServer.cpp: client objects share a descriptor    *)
(* and a receive buffer when they are copied, the last one closes it; the  *)
(* server accepts connections ahead of the program.  A handle is named by  *)
(* its descriptor.  read() and peek() of an object without a buffer follow *)
(* a null pointer (439, 449), so the program does not call them then.      *)
(***************************************************************************)
EXTENDS Integers, FiniteSets, SequencesExt

CONSTANTS
    Clients,        \* the program's WiFiClient objects
    Fds,            \* lwIP's descriptors, naturals
    Size,           \* the receive buffer's _size
    MaxSent         \* bytes a peer sends, 1, 2, ..., on one connection at a time

None == -1

VARIABLES
    sock,           \* lwIP's open sockets: [use, peer, in, sent]
    rx,             \* each connection's WiFiClientRxBuffer: [buf, pos, failed],
                    \* with what was read from it, whether a flush bit into it,
                    \* and whether an old errno spoke for it: [got, skipped, misled]
    handle,         \* each object's clientSocketHandle (its _rxBuffer as well)
    connected,      \* the objects whose _connected is set
    server,         \* WiFiServer: [sockfd, listening, accepted]
    errno,          \* what the task's errno says: "reset" (the connection is gone), "other"
    lost,           \* descriptors nothing can close any more
    hung            \* a flush() does not end

sockVars == <<sock, rx, handle, connected, server, errno, lost, hung>>

Open == DOMAIN sock
Free == Fds \ Open
Lowest == CHOOSE f \in Free : \A g \in Free : f <= g
NewConnection == [use |-> "conn", peer |-> "up", in |-> <<>>, sent |-> 0]
NewBuffer == [buf |-> <<>>, pos |-> 0, failed |-> FALSE,
              got |-> <<>>, skipped |-> FALSE, misled |-> FALSE]
Holders(f) == {c \in Clients : handle[c] = f}
Rest(r) == SubSeq(r.buf, r.pos + 1, Len(r.buf))
Without(f, S) == [d \in DOMAIN f \ S |-> f[d]]
With(f, d, v) == [x \in DOMAIN f \cup {d} |-> IF x = d THEN v ELSE f[x]]

\* mutant: the last holder does not close the descriptor
HoldOpen(c, f, is, socks, bufs) ==
    /\ handle' = [handle EXCEPT ![c] = f]
    /\ connected' = IF is THEN connected \cup {c} ELSE connected \ {c}
    /\ sock' = socks /\ rx' = bufs

\* Object c lets go of what it holds and takes descriptor f; socks and bufs are
\* the sockets and buffers as the call has left them.
Hold(c, f, is, socks, bufs) ==
    LET old == handle[c]
        dead == IF old # None /\ old # f /\ Holders(old) = {c} THEN {old} ELSE {}
    IN  /\ handle' = [handle EXCEPT ![c] = f]
        /\ connected' = IF is THEN connected \cup {c} ELSE connected \ {c}
        /\ sock' = Without(socks, dead) /\ rx' = Without(bufs, dead)
StopWith(c, socks, bufs) == Hold(c, None, FALSE, socks, bufs)

Stop(c) == StopWith(c, sock, rx) /\ UNCHANGED <<server, errno, lost, hung>>

\* operator=(const WiFiClient &other): stop(), then share.
Copy(c, other) ==
    /\ c # other
    /\ handle[c] # handle[other] \/ handle[c] = None
    /\ Hold(c, handle[other], other \in connected, sock, rx)
    /\ UNCHANGED <<server, errno, lost, hung>>

\* connect(): a new socket, closed again by each way to fail (which leaves the
\* object's old connection alone).
ConnectFails ==
    /\ errno' \in {"reset", "other"}
    /\ UNCHANGED <<sock, rx, handle, connected, server, lost, hung>>
Connect(c) ==
    /\ Free # {}
    /\ Hold(c, Lowest, TRUE, With(sock, Lowest, NewConnection), With(rx, Lowest, NewBuffer))
    /\ errno' = "other"                 \* EINPROGRESS
    /\ UNCHANGED <<server, lost, hung>>

\* The peer's side of a connection.
Peer(f, s) == sock' = With(sock, f, s)
              /\ UNCHANGED <<rx, handle, connected, server, errno, lost, hung>>
PeerActs(f) ==
    /\ sock[f].use = "conn" /\ sock[f].peer = "up"
    /\ \/ /\ sock[f].sent < MaxSent
          /\ \A g \in Open \ {f} : sock[g].sent = 0
          /\ Peer(f, [sock[f] EXCEPT !.sent = @ + 1, !.in = Append(@, sock[f].sent + 1)])
       \/ \E end \in {"closed", "reset"} : Peer(f, [sock[f] EXCEPT !.peer = end])

-----------------------------------------------------------------------------
\* WiFiClientRxBuffer::fillBuffer(); st is [r, s], the buffer and the socket.
Reset(r) == IF r.pos = Len(r.buf) THEN [r EXCEPT !.buf = <<>>, !.pos = 0] ELSE r
FillBuffer(st) ==
    LET r == Reset(st.r)
        room == Size - Len(r.buf)
        n == IF Len(st.s.in) < room THEN Len(st.s.in) ELSE room
    IN  IF n = 0 THEN [st EXCEPT !.r = r]
        ELSE IF st.s.peer = "reset" THEN [st EXCEPT !.r = [r EXCEPT !.failed = TRUE]]
        ELSE [st EXCEPT !.r = [r EXCEPT !.buf = @ \o SubSeq(st.s.in, 1, n)],
                        !.s.in = SubSeq(@, n + 1, Len(@))]
Held(st) == Len(st.r.buf) - st.r.pos
TakeBytes(st, n) ==
    [st EXCEPT !.r.pos = @ + n, !.r.got = @ \o SubSeq(st.r.buf, st.r.pos + 1, st.r.pos + n)]

\* read(dst, left): what is held, a refill when the rest fits behind it, or
\* refills until there is nothing more.
RECURSIVE ReadMore(_, _)
ReadMore(st, left) ==
    LET full == FillBuffer(st)
        n == IF Held(full) < left THEN Held(full) ELSE left
    IN  IF left = 0 \/ Len(full.s.in) = Len(st.s.in) THEN [st EXCEPT !.r.failed = full.r.failed]
        ELSE ReadMore(TakeBytes(full, n), left - n)
RxRead(st0, n) ==
    LET st == IF Held(st0) = 0 THEN FillBuffer(st0) ELSE st0
        a == Held(st)
        full == FillBuffer(st)
    IN  IF a = 0 THEN st
        ELSE IF n <= a THEN TakeBytes(st, n)
        ELSE IF n - a <= Size - Len(st.r.buf)
             THEN TakeBytes(full, IF Held(full) >= n THEN n ELSE a)
        ELSE ReadMore(TakeBytes(st, a), n - a)

Started(c) == handle[c] # None
State(f) == [r |-> rx[f], s |-> sock[f]]
\* What a call of c leaves; a failed buffer stops the object.
Leave(c, st) ==
    LET f == handle[c]
        socks == With(sock, f, st.s)
        bufs == With(rx, f, st.r)
    IN  /\ IF st.r.failed THEN StopWith(c, socks, bufs)
           ELSE /\ sock' = socks /\ rx' = bufs
                /\ UNCHANGED <<handle, connected>>
        /\ errno' = IF st.r.failed /\ st.s.peer = "reset" THEN "reset" ELSE errno
        /\ UNCHANGED <<server, lost, hung>>

Read(c, n) == Started(c) /\ Leave(c, RxRead(State(handle[c]), n))
Peek(c) ==
    LET st == State(handle[c])
    IN  Started(c) /\ Leave(c, IF Held(st) = 0 THEN FillBuffer(st) ELSE st)
\* available(), or a first read, fails: ioctl() or malloc() would not.
NoBuffer(c) ==
    Started(c) /\ rx[handle[c]].buf = <<>>
    /\ Leave(c, [State(handle[c]) EXCEPT !.r.failed = TRUE])

\* flush(): counts what the buffer and the socket hold, and reads it from the
\* socket alone: with bytes in the buffer recv() finds too few, and flush()
\* closes the connection, or never ends if the peer has closed.
Flush(c) ==
    LET f == handle[c]
        st == State(f)
        emptied == [st.s EXCEPT !.in = <<>>]
    IN  /\ Started(c) /\ Held(st) + Len(st.s.in) > 0
        /\ IF st.s.peer = "reset" \/ (Held(st) > 0 /\ st.s.peer = "up")
           THEN /\ StopWith(c, With(sock, f, emptied), [rx EXCEPT ![f].skipped = TRUE])
                /\ errno' = (IF st.s.peer = "reset" THEN "reset" ELSE "other")
                /\ UNCHANGED hung
           ELSE /\ sock' = With(sock, f, emptied)
                /\ hung' = (hung \/ Held(st) > 0)
                /\ rx' = [rx EXCEPT ![f].skipped = TRUE]
                /\ UNCHANGED <<handle, connected, errno>>
        /\ UNCHANGED <<server, lost>>

\* connected(): recv() of no bytes; with some waiting, or the peer gone, it
\* returns 0 and leaves errno as it was.
Connected(c) ==
    LET f == handle[c]
        s == sock[f]
        e == IF s.peer = "reset" THEN "reset"
             ELSE IF s.in = <<>> /\ s.peer = "up" THEN "other" ELSE errno
    IN  /\ Started(c) /\ c \in connected
        /\ errno' = e
        /\ connected' = IF e = "reset" THEN connected \ {c} ELSE connected
        /\ rx' = [rx EXCEPT ![f].misled = @ \/ (e = "reset" /\ s.peer = "up")]
        /\ UNCHANGED <<sock, handle, server, lost, hung>>

\* write(): ten tries of a second each time nothing moves; any error but EAGAIN
\* stops the object.  What was sent is counted and is not modelled.
Write(c) ==
    /\ Started(c) /\ c \in connected
    /\ \/ sock[handle[c]].peer # "reset" /\ errno' \in {errno, "other"}
          /\ UNCHANGED <<sock, rx, handle, connected>>
       \/ sock[handle[c]].peer # "up" /\ errno' = "reset" /\ StopWith(c, sock, rx)
    /\ UNCHANGED <<server, lost, hung>>

-----------------------------------------------------------------------------
\* begin(): a failing socket() forgets the one before, a failing bind() or listen()
\* returns with the socket made; the next begin() forgets it, and a connection
\* accepted before end() as well.
Begin ==
    LET listener == [use |-> "listen", peer |-> "up", in |-> <<>>, sent |-> 0]
    IN  /\ ~server.listening
        /\ \/ /\ Free # {} /\ sock' = With(sock, Lowest, listener)
              /\ server' = [sockfd |-> Lowest, listening |-> TRUE, accepted |-> None]
              /\ lost' = lost \cup ({server.sockfd, server.accepted} \ {None})
           \/ /\ Free # {} /\ sock' = With(sock, Lowest, listener)
              /\ server' = [server EXCEPT !.sockfd = Lowest]
              /\ lost' = lost \cup ({server.sockfd} \ {None})
           \/ /\ server' = [server EXCEPT !.sockfd = None] /\ UNCHANGED sock
              /\ lost' = lost \cup ({server.sockfd} \ {None})
        /\ UNCHANGED <<rx, handle, connected, errno, hung>>

End ==
    /\ server.sockfd # None
    /\ sock' = Without(sock, {server.sockfd})
    /\ server' = [server EXCEPT !.sockfd = None, !.listening = FALSE]
    /\ UNCHANGED <<rx, handle, connected, errno, lost, hung>>

CanAccept == server.listening /\ Free # {}
HasClient ==
    /\ server.accepted = None /\ CanAccept
    /\ sock' = With(sock, Lowest, NewConnection)
    /\ server' = [server EXCEPT !.accepted = Lowest]
    /\ UNCHANGED <<rx, handle, connected, errno, lost, hung>>

\* c = server.available(): the accepted connection or a new one; setsockopt()
\* failing leaves the descriptor to nobody.
Available(c) ==
    /\ server.listening
    /\ \E f \in IF server.accepted # None THEN {server.accepted}
                ELSE IF CanAccept THEN {Lowest} ELSE {} :
          LET socks == IF f \in Open THEN sock ELSE With(sock, f, NewConnection)
          IN  \/ Hold(c, f, TRUE, socks, With(rx, f, NewBuffer)) /\ UNCHANGED lost
              \/ StopWith(c, socks, rx) /\ lost' = lost \cup {f}
    /\ server' = [server EXCEPT !.accepted = None]
    /\ UNCHANGED <<errno, hung>>

Init ==
    /\ sock = <<>> /\ rx = <<>>
    /\ handle = [c \in Clients |-> None] /\ connected = {}
    /\ server = [sockfd |-> None, listening |-> FALSE, accepted |-> None]
    /\ errno = "other" /\ lost = {} /\ hung = FALSE

ClientCall(c) ==
    \/ Stop(c) \/ Connect(c) \/ Peek(c) \/ NoBuffer(c) \/ Flush(c)
    \/ Connected(c) \/ Write(c) \/ Available(c)
    \/ \E d \in Clients : Copy(c, d)
    \/ \E n \in 1 .. Size + 1 : Read(c, n)
Next ==
    \/ ~hung /\ (ConnectFails \/ Begin \/ End \/ HasClient \/ \E c \in Clients : ClientCall(c))
    \/ \E f \in Open : PeerActs(f)
Spec == Init /\ [][Next]_sockVars

-----------------------------------------------------------------------------
\* Every variable keeps its kind of value; buffers belong to connections.
TypeOK ==
    /\ Open \subseteq Fds /\ DOMAIN rx \subseteq Open
    /\ handle \in [Clients -> Fds \cup {None}]
    /\ \A f \in DOMAIN rx : rx[f].pos <= Len(rx[f].buf) /\ Len(rx[f].buf) <= Size
    /\ server.sockfd \in Fds \cup {None} /\ server.accepted \in Fds \cup {None}

\* Every open descriptor is held by objects that share it, by the server as its
\* listener, or as an accepted connection, and by one of these only, except
\* those that a failing begin(), a failing setsockopt() or an end() lost; and
\* what is held is open.
DescriptorsOwned ==
    LET held == {handle[c] : c \in Clients} \ {None}
        listener == {server.sockfd} \ {None}
        waiting == {server.accepted} \ {None}
    IN  /\ Open = held \cup listener \cup waiting \cup lost
        /\ \A S, T \in {held, listener, waiting, lost} : S # T => S \cap T = {}

\* What the program has read of a connection, what the buffer holds and what
\* waits in the socket are the peer's bytes in their order, without a gap unless
\* the program called flush(); an object says it is not connected to a peer that
\* is there only when an errno of another call told it so.
StreamsAreWhole ==
    /\ \A f \in DOMAIN rx : f \notin lost =>
          LET all == rx[f].got \o Rest(rx[f]) \o sock[f].in
          IN  /\ \A i, j \in DOMAIN all : i < j => all[i] < all[j]
              /\ ~rx[f].skipped => Len(all) = sock[f].sent
    /\ \A c \in Clients : Started(c) /\ sock[handle[c]].peer = "up"
                              => c \in connected \/ rx[handle[c]].misled
=============================================================================
