------------------------------- MODULE WifiUdp -------------------------------
(***************************************************************************)
(* WiFiUdp.cpp: one WiFiUDP object, its socket, the packet it builds, the  *)
(* packet it reads.  remote_ip and remote_port serve both the peer a       *)
(* packet is for and the peer the last packet came from.  write() without  *)
(* a tx_buffer follows a null pointer (192), so the program does not.      *)
(***************************************************************************)
EXTENDS Naturals, Sequences

CONSTANTS
    Peers,          \* addresses with a port; the group's is Group
    Bytes,
    TxSize,         \* 1460
    MaxData,        \* the bytes of a peer's datagram
    MaxWaiting      \* datagrams that wait in the socket

Nobody == "nobody"
Group == "group"
None == <<"none">>
Datagrams == UNION {[1 .. n -> Bytes] : n \in 0 .. MaxData}

VARIABLES
    open, joined,   \* udp_server # -1; multicast_ip is set
    tx, rx,         \* the packet being built, the rest of the one being read
    remote,         \* remote_ip and remote_port
    waiting,        \* datagrams lwIP holds for the socket: [from, data]
    packet,         \* what the program is writing since beginPacket(): [to, data]
    torn,           \* the packet was cut at TxSize, or its peer overwritten
    outgoing        \* the last datagram handed to lwIP: [to, data]

udpVars == <<open, joined, tx, rx, remote, waiting, packet, torn, outgoing>>
ghosts == <<packet, torn, outgoing>>

Closed == /\ tx' = None /\ rx' = None
          /\ open' = FALSE /\ waiting' = <<>>
          /\ joined' = (joined /\ ~open)    \* stop() returns early without a socket
Stop == Closed /\ UNCHANGED <<remote, packet, torn, outgoing>>

\* begin() and beginMulticast(): stop(), then a socket, or any step fails; the
\* tx_buffer is made first.
Begin ==
    /\ \/ Closed /\ UNCHANGED <<packet, torn>>
       \/ /\ tx' = <<>> /\ rx' = None /\ waiting' = <<>>
          /\ \/ open' = FALSE /\ joined' = (joined /\ ~open)   \* socket() failed
             \/ open' = TRUE /\ joined' \in {joined /\ ~open, TRUE}
          /\ packet' = [to |-> remote, data |-> <<>>] /\ torn' = FALSE
    /\ UNCHANGED <<remote, outgoing>>

\* beginPacket(ip, port) and beginMulticastPacket(); a socket of its own if
\* begin() made none.
BeginPacket(p) ==
    /\ p = Group => joined
    /\ remote' = p
    /\ tx' = <<>>
    /\ open' \in {open, TRUE}
    /\ packet' = [to |-> p, data |-> <<>>] /\ torn' = FALSE
    /\ UNCHANGED <<joined, rx, waiting, outgoing>>

\* beginPacket(): for the peer the last packet came from, or was for.
BeginReply == remote # Nobody /\ BeginPacket(remote)

\* endPacket(): sendto(); the length is left as it is.
Send == IF open THEN outgoing' = [to |-> remote, data |-> tx] ELSE UNCHANGED outgoing
EndPacket ==
    /\ tx # None
    /\ Send \/ UNCHANGED outgoing
    /\ UNCHANGED <<open, joined, tx, rx, remote, waiting, packet, torn>>

\* write(): a full buffer is sent as a datagram of its own.
Write(b) ==
    /\ tx # None
    /\ IF Len(tx) = TxSize
       THEN /\ tx' = <<b>> /\ torn' = TRUE
            /\ Send \/ UNCHANGED outgoing
       ELSE tx' = Append(tx, b) /\ UNCHANGED <<torn, outgoing>>
    /\ packet' = IF Len(packet.data) > TxSize THEN packet
                 ELSE [packet EXCEPT !.data = Append(@, b)]
    /\ UNCHANGED <<open, joined, rx, remote, waiting>>

\* parsePacket(): nothing while a packet is being read; an empty datagram is
\* consumed and looks like none.
ParsePacket ==
    /\ rx = None /\ open /\ waiting # <<>>
    /\ LET d == Head(waiting)
       IN  /\ waiting' = Tail(waiting)
           /\ remote' = d.from
           /\ rx' = IF d.data = <<>> THEN None ELSE d.data
           /\ torn' = (torn \/ packet.to # d.from)
    /\ UNCHANGED <<open, joined, tx, packet, outgoing>>

\* read() of n bytes: an emptied buffer is deleted.
Read(n) ==
    /\ rx # None /\ n <= Len(rx)
    /\ rx' = IF n = Len(rx) THEN None ELSE SubSeq(rx, n + 1, Len(rx))
    /\ UNCHANGED <<open, joined, tx, remote, waiting, packet, torn, outgoing>>
Flush ==
    /\ rx # None /\ rx' = None
    /\ UNCHANGED <<open, joined, tx, remote, waiting, packet, torn, outgoing>>

Arrives(p, d) ==
    /\ open /\ Len(waiting) < MaxWaiting
    /\ waiting' = Append(waiting, [from |-> p, data |-> d])
    /\ UNCHANGED <<open, joined, tx, rx, remote, ghosts>>

Init ==
    /\ open = FALSE /\ joined = FALSE /\ tx = None /\ rx = None
    /\ remote = Nobody /\ waiting = <<>> /\ torn = FALSE
    /\ packet = [to |-> Nobody, data |-> <<>>]
    /\ outgoing = packet

Next ==
    \/ Stop \/ Begin \/ BeginReply \/ EndPacket \/ ParsePacket \/ Flush
    \/ \E p \in Peers \cup {Group} : BeginPacket(p)
    \/ \E b \in Bytes : Write(b)
    \/ \E n \in 1 .. MaxData : Read(n)
    \/ \E p \in Peers, d \in Datagrams : Arrives(p, d)
Spec == Init /\ [][Next]_udpVars

-----------------------------------------------------------------------------
\* Every variable keeps its kind of value; what waits has a socket to wait in.
TypeOK ==
    /\ open \in BOOLEAN /\ joined \in BOOLEAN /\ torn \in BOOLEAN
    /\ tx = None \/ Len(tx) <= TxSize
    /\ rx # <<>> /\ Len(waiting) <= MaxWaiting
    /\ remote \in Peers \cup {Nobody, Group}
    /\ waiting # <<>> => open

\* A datagram that leaves holds exactly what the program wrote after
\* beginPacket() and goes where beginPacket() said, unless the packet outgrew
\* the buffer or parsePacket() came between; the stop() and write() of a later
\* begin() start from nothing as well.
PacketsLeaveWhole ==
    [][outgoing' # outgoing /\ ~torn' => outgoing' = packet']_udpVars
=============================================================================
