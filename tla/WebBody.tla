------------------------------- MODULE WebBody -------------------------------
(***************************************************************************)
(* WebRequest.cpp's parsers of a request's body, fed byte by byte over     *)
(* packets cut anywhere: multipart/form-data, and pairs of a plain POST.   *)
(* A header line of a part is one byte, "field" or "file"; the handler     *)
(* wants the body (it is not trivial).  percent decoding is left out.      *)
(***************************************************************************)
EXTENDS Integers, SequencesExt

CONSTANTS
    Boundary,       \* the bytes of _boundary
    Bodies,         \* what browsers send: sequences of [file, data], or of [name, value]
    Ends,           \* what follows the last boundary's "--": <<CR, LF>> and an epilogue
    UploadMax       \* 1460, the size of _itemBuffer

CR == "\r"
LF == "\n"
Dashes == <<"-", "-">>
NoBuffer == <<"none">>

VARIABLES
    kind,           \* "multipart" or "plain"
    wire,           \* the bytes still to come
    at,             \* _multiParseState
    length, parsed, \* _contentLength, _parsedLength
    temp,           \* _temp
    item,           \* [file, value, size, buffer, pos]; pos is _boundaryPosition
    params,         \* _params: [file, data] with a file's size, or [name, value]
    uploads,        \* what handleUpload() got of the files: one sequence per file
    done,           \* PARSE_REQ_END: handleRequest() was called
    sent, ending,   \* what the browser sent, and behind the last boundary
    nomem           \* malloc() failed

bodyVars == <<kind, wire, at, length, parsed, temp, item, params, uploads, done,
              sent, ending, nomem>>

\* What a browser sends.
Part(p) == <<IF p.file THEN "file" ELSE "field", CR, LF, CR, LF>> \o p.data
Multipart(ps, end) ==
    FlattenSeq([i \in DOMAIN ps |-> (IF i = 1 THEN <<>> ELSE <<CR, LF>>)
                                    \o Dashes \o Boundary \o <<CR, LF>> \o Part(ps[i])])
    \o <<CR, LF>> \o Dashes \o Boundary \o Dashes \o end
Pair(p) == IF p.name = <<>> THEN p.value ELSE p.name \o <<"=">> \o p.value
Plain(ps) == FlattenSeq([i \in DOMAIN ps |-> (IF i = 1 THEN <<>> ELSE <<"&">>) \o Pair(ps[i])])

-----------------------------------------------------------------------------
\* st is [at, item, uploads, params, length, temp]; itemWriteByte() and, for a
\* file, _handleUploadByte(): a full buffer, or each byte of a packet's last.
Write(st, bs, last) ==
    LET one(b, s) ==
            IF ~s.item.file
            THEN [s EXCEPT !.item.value = Append(@, b), !.item.size = @ + 1]
            ELSE LET buffer == Append(s.item.buffer, b)
                     full == last \/ Len(buffer) = UploadMax
                 IN  [s EXCEPT !.item.size = @ + 1,
                               !.item.buffer = IF full THEN <<>> ELSE buffer,
                               !.uploads = IF full THEN [@ EXCEPT ![Len(@)] = @ \o buffer] ELSE @]
    IN  FoldLeft(LAMBDA s, b : one(b, s), st, bs)

\* mutant: the byte behind a false start is not looked at again
AsDataAlways(st, bs, data, last) == Write(Write([st EXCEPT !.at = "data"], bs, last), <<data>>, last)

\* The false start of a boundary is data after all, and the byte is looked at
\* again as data.
AsData(st, bs, data, last) ==
    LET s == Write([st EXCEPT !.at = "data"], bs, last)
    IN  IF data = CR THEN [s EXCEPT !.at = "feed1"] ELSE Write(s, <<data>>, last)

ExpectBoundary(st, data, n) ==
    IF \/ n < 2 /\ data # "-"
       \/ n >= 2 /\ n - 2 < Len(Boundary) /\ Boundary[n - 1] # data
       \/ n - 2 = Len(Boundary) /\ data # CR
       \/ n - 3 = Len(Boundary) /\ data # LF
    THEN [st EXCEPT !.at = "error"]
    ELSE IF n - 3 = Len(Boundary) THEN [st EXCEPT !.at = "headers", !.item.file = FALSE]
    ELSE st

Headers(st, data, memory) ==
    IF data = CR THEN st
    ELSE IF data # LF THEN [st EXCEPT !.temp = Append(@, data)]
    ELSE IF st.temp # <<>>
         THEN [st EXCEPT !.item.file = @ \/ "file" \in Range(st.temp), !.temp = <<>>]
    ELSE IF st.item.file /\ ~memory THEN [st EXCEPT !.at = "error", !.item.size = 0]
    ELSE [st EXCEPT !.at = "data", !.item.size = 0, !.item.value = <<>>,
                    !.item.buffer = IF st.item.file THEN <<>> ELSE @,
                    !.uploads = IF st.item.file THEN Append(@, <<>>) ELSE @]

\* The last byte of a boundary: a field is complete; a file is, if it has a byte.
EndItem(st) ==
    IF ~st.item.file
    THEN [st EXCEPT !.at = "after", !.params = Append(@, [file |-> FALSE, data |-> st.item.value])]
    ELSE [st EXCEPT !.at = "after", !.item.buffer = NoBuffer,
                    !.uploads = [@ EXCEPT ![Len(@)] = @ \o st.item.buffer],
                    !.params = IF st.item.size = 0 THEN @
                               ELSE Append(@, [file |-> TRUE, data |-> st.item.size])]
BoundaryOrData(st, data, last) ==
    LET pos == st.item.pos
    IN  IF Boundary[pos + 1] # data
        THEN AsData(st, <<CR, LF>> \o Dashes \o SubSeq(Boundary, 1, pos), data, last)
        ELSE IF pos = Len(Boundary) - 1 THEN EndItem(st)
        ELSE [st EXCEPT !.item.pos = @ + 1]

\* _contentLength is set to what there would be with a CR LF and nothing more.
AfterBoundary(st, data, n, last) ==
    LET s == IF data = "-" THEN [st EXCEPT !.length = n + 4] ELSE st
    IN  IF data = CR THEN [s EXCEPT !.at = "feed2"]
        ELSE IF data = "-" THEN [s EXCEPT !.at = "finished"]
        ELSE AsData(s, <<CR, LF>> \o Dashes \o Boundary, data, last)

\* _parseMultipartPostByte()
MultipartByte(st, data, n, last, memory) ==
    CASE st.at = "boundary" -> ExpectBoundary(st, data, n)
      [] st.at = "headers" -> Headers(st, data, memory)
      [] st.at = "data" -> AsData(st, <<>>, data, last)
      [] st.at = "feed1" -> IF data = LF THEN [st EXCEPT !.at = "dash1"]
                            ELSE AsData(st, <<CR>>, data, last)
      [] st.at = "dash1" -> IF data = "-" THEN [st EXCEPT !.at = "dash2"]
                            ELSE AsData(st, <<CR, LF>>, data, last)
      [] st.at = "dash2" -> IF data = "-" THEN [st EXCEPT !.at = "match", !.item.pos = 0]
                            ELSE AsData(st, <<CR, LF, "-">>, data, last)
      [] st.at = "match" -> BoundaryOrData(st, data, last)
      [] st.at = "after" -> AfterBoundary(st, data, n, last)
      [] st.at = "feed2" -> IF data = LF THEN [st EXCEPT !.at = "headers", !.item.file = FALSE]
                            ELSE AsData(st, <<CR, LF>> \o Dashes \o Boundary \o <<CR>>, data, last)
      [] st.at \in {"finished", "error"} -> st

\* _parsePlainPostChar(); n counts this byte already.
PlainByte(st, data, n) ==
    LET text == IF data = "&" THEN st.temp ELSE Append(st.temp, data)
        eq == SelectInSeq(text, LAMBDA c : c = "=")
        pair == IF eq > 1 THEN [name |-> SubSeq(text, 1, eq - 1),
                                value |-> SubSeq(text, eq + 1, Len(text))]
                ELSE [name |-> <<>>, value |-> text]    \* "body"
    IN  IF data = "&" \/ n = st.length
        THEN [st EXCEPT !.params = Append(@, pair), !.temp = <<>>]
        ELSE [st EXCEPT !.temp = text]

State == [at |-> at, item |-> item, uploads |-> uploads, params |-> params,
          length |-> length, temp |-> temp]

\* _onData(): the next byte, and the request's end behind the last one of a
\* packet; a packet may end anywhere, and does where nothing more is sent.
Feed(last, memory) ==
    /\ wire # <<>> /\ ~done
    /\ Len(wire) = 1 => last
    /\ ~memory => kind = "multipart" /\ at = "headers" /\ ~nomem
    /\ LET st == IF kind = "multipart" THEN MultipartByte(State, Head(wire), parsed, last, memory)
                 ELSE PlainByte(State, Head(wire), parsed + 1)
       IN  /\ at' = st.at /\ item' = st.item /\ uploads' = st.uploads
           /\ params' = st.params /\ length' = st.length /\ temp' = st.temp
           /\ done' = (last /\ parsed + 1 = st.length)
    /\ parsed' = parsed + 1
    /\ wire' = Tail(wire)
    /\ nomem' = (nomem \/ ~memory)
    /\ UNCHANGED <<kind, sent, ending>>

Init ==
    /\ \E b \in Bodies : /\ kind = b.kind /\ sent = b.items
                         /\ IF b.kind = "plain" THEN wire = Plain(b.items) /\ ending = <<>>
                            ELSE ending \in Ends /\ wire = Multipart(b.items, ending)
    /\ length = Len(wire) /\ parsed = 0
    /\ at = "boundary" /\ temp = <<>>
    /\ item = [file |-> FALSE, value |-> <<>>, size |-> 0, buffer |-> NoBuffer, pos |-> 0]
    /\ params = <<>> /\ uploads = <<>> /\ done = FALSE /\ nomem = FALSE

Next == \E last, memory \in BOOLEAN : Feed(last, memory)
Spec == Init /\ [][Next]_bodyVars

-----------------------------------------------------------------------------
\* Every variable keeps its kind of value, and a file's bytes have a buffer.
TypeOK ==
    /\ kind \in {"multipart", "plain"} /\ done \in BOOLEAN
    /\ item.pos < Len(Boundary)
    /\ item.file /\ at = "data" => item.buffer # NoBuffer /\ Len(item.buffer) < UploadMax

\* What the browser encoded is what the handler is given, however the packets
\* are cut and whatever in the data looks like the start of a boundary: a
\* parameter for each field and for each file that is not empty, in order, and
\* each file's bytes to handleUpload().
Files == SelectSeq(sent, LAMBDA p : p.file)
Params(ps) ==
    LET kept == SelectSeq(ps, LAMBDA p : ~p.file \/ p.data # <<>>)
    IN  [i \in DOMAIN kept |-> [file |-> kept[i].file,
                                data |-> IF kept[i].file THEN Len(kept[i].data) ELSE kept[i].data]]
BodyIsParsed ==
    done /\ ~nomem =>
        IF kind = "plain" THEN params = sent
        ELSE /\ params = Params(sent)
             /\ Len(uploads) = Len(Files)
             /\ \A i \in DOMAIN uploads : uploads[i] = Files[i].data

\* A request whose body has come, in whatever packets, is complete at its last
\* byte and the handler is called, unless the last boundary is not followed by
\* a CR LF and nothing else.
BodyEnds == wire = <<>> => done \/ (kind = "multipart" /\ ending # <<CR, LF>>)

=============================================================================
