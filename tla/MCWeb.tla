------------------------------- MODULE MCWeb -------------------------------
(* What the web server adds to a request, for TLC: its body, the template of a page,   *)
(* the event source, and AsyncTCP's clients with nothing but ordinary ends.  They share *)
(* no state, so one run takes them side by side and not interleaved: a behaviour is of  *)
(* one of them, the others stay in a first state.                                       *)
EXTENDS Naturals, Sequences

CONSTANTS c1, c2, c3, p1, p2, NULL

VARIABLES
    part,
    kind, wire, parse, length, parsed, temp, item, params, uploads, done, sent, ending, nomem,
    page, rest, phase, data, room, at, out, clipped, split,
    conn, queue, stream, flight, acks, sends, accepted, miscounted,
    obj, pcb, slots, index, events, lwip, task, told, conns, received

bodyVars == <<kind, wire, parse, length, parsed, temp, item, params, uploads, done, sent,
              ending, nomem>>
pageVars == <<page, rest, phase, data, room, at, out, clipped, split>>
sourceVars == <<conn, queue, stream, flight, acks, sends, accepted, miscounted>>
tcpVars == <<obj, pcb, slots, index, events, lwip, task, told, conns, received>>
webVars == <<part, bodyVars, pageVars, sourceVars, tcpVars>>

-----------------------------------------------------------------------------
\* Bodies: data that hold the beginnings of a boundary, up to all of it but its last
\* byte, in fields, in files, and in both; plain ones with and without names.
CR == "\r"
LF == "\n"
Boundary == <<"b", "c">>
UploadMax == 2
Datas == {<<>>, <<"x">>, <<CR>>, <<CR, LF, "-">>, <<CR, LF, "-", "-", "b">>,
          <<CR, CR, LF, "-", "-", "b", CR>>, <<"x", CR, LF, "x", "-">>, <<CR, LF, "-", "-">>}
Few == {<<>>, <<"x">>, <<CR, LF, "-", "-", "b">>}
APart(isFile, d) == [file |-> isFile, data |-> d]
Item(n, v) == [name |-> n, value |-> v]
Bodies ==
    [kind : {"plain"}, items : {<<Item(<<"k">>, <<"v">>)>>,
                                <<Item(<<>>, <<"v">>), Item(<<"k">>, <<"=", "v">>)>>,
                                <<Item(<<"k">>, <<>>), Item(<<"k">>, <<"v">>)>>}]
    \cup [kind : {"multipart"},
          items : {<<APart(f, d)>> : f \in BOOLEAN, d \in Datas}
                  \cup {<<APart(f, d), APart(~f, e)>> : f \in BOOLEAN, d \in Few, e \in Datas}]
Ends == {<<CR, LF>>, <<>>, <<CR, LF, "x">>}
Body == INSTANCE WebBody WITH at <- parse

\* Pages: placeholders known, empty and unknown, next to each other and at the ends, no
\* name longer than NameMax; read into chunks smaller than a placeholder and larger.
Names == {<<"n">>, <<"m", "m">>}
Value == [name \in Names |-> IF name = <<"n">> THEN <<"1", "2", "3">> ELSE <<>>]
Parts == {<<"x">>, <<"%", "n", "%">>, <<"%", "m", "m", "%">>, <<"%", "%">>, <<"%", "y", "%">>}
Pages == {a \o b \o c : a, b \in Parts, c \in {<<>>, <<"x">>}}
Rooms == {1, 2, 3, 5}
NameMax == 2
Page == INSTANCE WebTemplate

\* Messages of one line and of several, with both line breaks.
Messages == {<<"a">>, <<"b", CR, LF, "b", LF>>}
Source == INSTANCE EventSource WITH
    Clients <- {1}, HeadLen <- 5, AckSizes <- {4}, Window <- 8, MaxQueued <- 3, MaxSends <- 3

\* Clients whose connections end by the peer's FIN or in the stack, and are not closed,
\* reset or handed out again: two with data, three without.  Addresses are taken in one
\* order, since nothing tells them apart and each is taken once.
Tcp == INSTANCE AsyncTcpClient WITH
    Clients <- {c1, c2, c3}, Pcbs <- {p1, p2}, NumSlots <- 2, Closes <- FALSE, Resets <- FALSE,
    Reuse <- FALSE, MaxConns <- 3, MaxData <- 1, data <- received, queue <- events
TcpBound == conns <= 2 \/ received = 0
TcpOrder == /\ obj[c2].conn # 0 => obj[c1].conn # 0
            /\ obj[c3].conn # 0 => obj[c2].conn # 0

-----------------------------------------------------------------------------
\* The parts that stand still are in one first state each.
AllParts == {"body", "page", "source", "tcp"}
OneBody == CHOOSE b \in Bodies : b.kind = "plain"
Init ==
    /\ part \in AllParts
    /\ Body!Init /\ (part = "body" \/ sent = OneBody.items)
    /\ Page!Init /\ (part = "page" \/ page = <<"x", "x">>)
    /\ Source!Init
    /\ Tcp!Init

Next ==
    /\ UNCHANGED part
    /\ \/ part = "body" /\ Body!Next
       \/ part # "body" /\ UNCHANGED bodyVars
    /\ \/ part = "page" /\ Page!Next
       \/ part # "page" /\ UNCHANGED pageVars
    /\ \/ part = "source" /\ Source!Next
       \/ part # "source" /\ UNCHANGED sourceVars
    /\ \/ part = "tcp" /\ Tcp!Next /\ TcpBound' /\ TcpOrder'
       \/ part # "tcp" /\ UNCHANGED tcpVars

\* Each part's own fairness, for the behaviours that are of it.
Fairness ==
    /\ WF_pageVars(part = "page" /\ Page!Next)
    /\ WF_acks(part = "source" /\ Source!TakesAck(1))
    /\ WF_sourceVars(part = "source" /\ \E n \in 1..8 : Source!PeerAcks(1, n))
    /\ WF_tcpVars(part = "tcp" /\ Tcp!LwipStep)
    /\ WF_tcpVars(part = "tcp" /\ Tcp!TaskStep)
Spec == Init /\ [][Next]_webVars /\ Fairness

-----------------------------------------------------------------------------
\* Each part's variables keep their kinds and bounds.
TypeOK ==
    /\ Body!TypeOK /\ Page!TypeOK /\ Source!TypeOK
    /\ part = "tcp" => Tcp!TypeOK

\* What a browser encoded is what the handler is given, however the packets are
\* cut and whatever in the data looks like a boundary (_parseMultipartPostByte,
\* _parsePlainPostChar); and the handler is called when the last byte has come.
BodiesAreRead == part = "body" => Body!BodyIsParsed /\ Body!BodyEnds

\* A page goes out with its placeholders replaced, whatever chunks it is read into
\* (_fillBufferAndProcessTemplates), but for the two cases the module names.
PagesAreFilled == part = "page" => Page!ValuesReplace

\* A browser hears every event that was queued for it, once and in order, with all its
\* lines (generateEventMessage, _runQueue), until an ack is counted for the wrong one.
EventsAreHeard == part = "source" => Source!EventsAreHeard

\* What is under way comes to an end: a connection that ended is told to its handler, an
\* event source's queue is sent, a page ends.
EverythingEnds ==
    /\ Tcp!EndedIsTold /\ Source!EventsGoOut
    /\ part = "page" => Page!PageEnds
=============================================================================
