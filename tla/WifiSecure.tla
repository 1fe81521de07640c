------------------------------ MODULE WifiSecure ------------------------------
(***************************************************************************)
(* WiFiClientSecure.cpp and ssl_client.cpp: objects that own a number of a *)
(* descriptor and an mbedtls session; _peek is a byte read ahead.  The     *)
(* certificates, keys and fingerprints a session is set up with are left   *)
(* out: setting up and the handshake succeed or fail.                      *)
(***************************************************************************)
EXTENDS Integers, FiniteSets, Sequences, Functions

CONSTANTS
    Objects,        \* the program's WiFiClientSecure objects, one task each
    Fds,            \* lwIP's descriptors
    Bytes           \* bytes the server sends, on one connection at a time

None == -1

VARIABLES
    fds,            \* the open descriptors and the objects that opened them
    obj,            \* [socket, connected, peek, up, at]; up: the session is set up
    wire,           \* each object's connection: [in, ended, got]; ended: notified
    shared,         \* operator= has copied a number
    leaked,         \* descriptors overwritten by connect() or socket()
    stale           \* objects whose peeked byte connect() kept

secureVars == <<fds, obj, wire, shared, leaked, stale>>

Idle(o) == obj[o].at = "idle"
Lowest == CHOOSE f \in Fds \ DOMAIN fds : \A g \in Fds \ DOMAIN fds : f <= g
Fresh == [in |-> <<>>, ended |-> FALSE, got |-> <<>>]

\* stop(): the number, whoever opened it, and the session.
Closed(r) == IF r.socket = None THEN [r EXCEPT !.up = FALSE, !.at = "idle"]
             ELSE [socket |-> None, connected |-> FALSE, peek |-> None,
                   up |-> FALSE, at |-> "idle"]
StopObj(o) ==
    /\ fds' = Restrict(fds, DOMAIN fds \ {obj[o].socket})
    /\ obj' = [obj EXCEPT ![o] = Closed(@)]
    /\ wire' = [wire EXCEPT ![o] = Fresh]
    /\ UNCHANGED <<shared, leaked, stale>>
Stop(o) == Idle(o) /\ StopObj(o)

\* operator=(): the number is copied and the session is not.
Assign(o, p) ==
    /\ o # p /\ Idle(o) /\ ~shared            \* bound: one assignment
    /\ fds' = Restrict(fds, DOMAIN fds \ {obj[o].socket})
    /\ wire' = [wire EXCEPT ![o] = Fresh]
    /\ obj' = [obj EXCEPT ![o] = [Closed(@) EXCEPT !.socket = obj[p].socket,
                                                   !.connected = obj[p].connected]]
    /\ shared' = TRUE
    /\ UNCHANGED <<leaked, stale>>

\* socket(): its `= -1' forgets the number.
Overwritten(o) == leaked' = leaked \cup ({obj[o].socket} \cap DOMAIN fds)
Socket(o) ==
    /\ Idle(o) /\ Overwritten(o)
    /\ obj' = [obj EXCEPT ![o].socket = None]
    /\ UNCHANGED <<fds, wire, shared, stale>>

\* connect(): without credentials start_ssl_client() returns at once, and
\* stop() follows; else the old number is overwritten.
ConnectRefused(o) == Stop(o)
ConnectNoSocket(o) ==
    /\ Idle(o) /\ Overwritten(o)
    /\ obj' = [obj EXCEPT ![o].socket = None, ![o].up = FALSE]
    /\ UNCHANGED <<fds, wire, shared, stale>>
Connect(o) ==
    /\ Idle(o) /\ Fds \ DOMAIN fds # {} /\ Overwritten(o)
    /\ obj' = [obj EXCEPT ![o].socket = Lowest, ![o].up = FALSE,
                          ![o].at = "handshake"]
    /\ fds' = [f \in DOMAIN fds \cup {Lowest} |-> IF f = Lowest THEN o ELSE fds[f]]
    /\ wire' = [wire EXCEPT ![o] = Fresh]
    /\ stale' = IF obj[o].peek # None THEN stale \cup {o} ELSE stale \ {o}
    /\ UNCHANGED shared

\* Name, connection, set-up, handshake or its timeout: each failure ends in
\* connect()'s stop().
Handshake(o) ==
    /\ obj[o].at = "handshake"
    /\ \/ StopObj(o)
       \/ /\ obj[o].socket \in DOMAIN fds /\ fds[obj[o].socket] = o
          /\ obj' = [obj EXCEPT ![o].connected = TRUE, ![o].up = TRUE, ![o].at = "idle"]
          /\ UNCHANGED <<fds, wire, shared, leaked, stale>>

\* The session still has the descriptor it was set up with.
Sound(o) ==
    /\ obj[o].up /\ obj[o].socket \in DOMAIN fds
    /\ fds[obj[o].socket] = o

\* data_to_read(), the first thing available(), read() and connected() do: the
\* end of the session stops the object; an end without notice looks like none.
Ends(o) ==
    /\ obj[o].connected
    /\ ~Sound(o) \/ (wire[o].in = <<>> /\ wire[o].ended)
Available(o) == Idle(o) /\ Ends(o) /\ StopObj(o)

\* read(buf, n): the peeked byte first; it stands for data even when there is
\* no session to read from.
Read(o, n) ==
    LET peeked == IF obj[o].peek = None THEN <<>> ELSE <<obj[o].peek>>
        more == n - Len(peeked)
        k == IF more < Len(wire[o].in) THEN more ELSE Len(wire[o].in)
    IN  /\ Idle(o) /\ ~Ends(o) /\ obj[o].connected
        /\ Len(peeked) + Len(wire[o].in) > 0
        /\ obj' = [obj EXCEPT ![o].peek = None]
        /\ wire' = [wire EXCEPT ![o].in = SubSeq(@, k + 1, Len(@)),
                                ![o].got = @ \o peeked \o SubSeq(wire[o].in, 1, k)]
        /\ UNCHANGED <<fds, shared, leaked, stale>>

\* peek(): timedRead() of one byte.
Peek(o) ==
    /\ Idle(o) /\ obj[o].connected /\ ~Ends(o)
    /\ obj[o].peek = None /\ wire[o].in # <<>>
    /\ obj' = [obj EXCEPT ![o].peek = Head(wire[o].in)]
    /\ wire' = [wire EXCEPT ![o].in = Tail(@)]
    /\ UNCHANGED <<fds, shared, leaked, stale>>

\* write(): send_ssl_data() tries until mbedtls has taken some of it, with no
\* limit; of an empty buffer mbedtls takes 0 bytes for ever.
Write(o) ==
    /\ Idle(o) /\ obj[o].connected
    /\ \E at \in {"write", "write nothing"} : obj' = [obj EXCEPT ![o].at = at]
    /\ UNCHANGED <<fds, wire, shared, leaked, stale>>
SendSslData(o) ==
    /\ \/ obj[o].at = "write"
       \/ obj[o].at = "write nothing" /\ ~(Sound(o) /\ ~wire[o].ended)
    /\ \/ Sound(o) /\ ~wire[o].ended
             /\ obj' = [obj EXCEPT ![o].at = "idle"]
             /\ UNCHANGED <<fds, wire, shared, leaked, stale>>
       \/ StopObj(o)

\* The server sends, takes what is sent to it, and ends the session.
Server(o) ==
    /\ Sound(o) /\ ~wire[o].ended
    /\ \/ LET k == Len(wire[o].got) + Len(wire[o].in) + (IF obj[o].peek = None THEN 0 ELSE 1)
          IN  /\ k < Bytes /\ \A p \in Objects \ {o} : wire[p] = Fresh
              /\ wire' = [wire EXCEPT ![o].in = Append(@, k + 1)]
       \/ wire' = [wire EXCEPT ![o].ended = TRUE]
    /\ UNCHANGED <<fds, obj, shared, leaked, stale>>

Init ==
    /\ fds = <<>> /\ shared = FALSE /\ leaked = {} /\ stale = {}
    /\ obj = [o \in Objects |-> [socket |-> None, connected |-> FALSE, peek |-> None,
                                 up |-> FALSE, at |-> "idle"]]
    /\ wire = [o \in Objects |-> Fresh]

Next == \E o \in Objects :
    \/ Stop(o) \/ Socket(o) \/ ConnectRefused(o) \/ ConnectNoSocket(o) \/ Connect(o)
    \/ Available(o) \/ Peek(o) \/ Write(o) \/ Handshake(o) \/ SendSslData(o) \/ Server(o)
    \/ \E p \in Objects : Assign(o, p)
    \/ \E n \in 1 .. 2 : Read(o, n)
Spec == Init /\ [][Next]_secureVars

-----------------------------------------------------------------------------
\* Every variable keeps its kind of value.
TypeOK ==
    /\ DOMAIN fds \subseteq Fds
    /\ \A o \in Objects :
          /\ obj[o].socket \in Fds \cup {None}
          /\ obj[o].peek \in 0 .. Bytes \cup {None}
          /\ obj[o].at \in {"idle", "handshake", "write", "write nothing"}
          /\ wire[o].ended \in BOOLEAN

\* Until operator= shares a number, an object's descriptor is one that it
\* opened and nobody closed, and every open descriptor is some object's, except
\* those that socket() or a connect() without a stop() forgot.
SocketsOwned ==
    ~shared =>
        /\ \A o \in Objects : obj[o].socket # None =>
              obj[o].socket \in DOMAIN fds /\ fds[obj[o].socket] = o
        /\ \A f \in DOMAIN fds : f \in leaked \/ obj[fds[f]].socket = f

\* The program reads the server's bytes in order and without a gap, unless
\* connect() kept a byte that peek() had read from the connection before.
BytesInOrder ==
    \A o \in Objects :
        LET peeked == IF obj[o].peek = None THEN <<>> ELSE <<obj[o].peek>>
            all == wire[o].got \o peeked \o wire[o].in
        IN  Sound(o) /\ o \notin stale => \A i \in DOMAIN all : all[i] = i
=============================================================================
