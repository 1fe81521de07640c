----------------------------- MODULE HttpClient ------------------------------
(***************************************************************************)
(* An HTTP client on one TCP connection, which it may keep for the next    *)
(* request: begin(), the request with the redirects it follows, the header *)
(* of the response, the body, whole or in chunks, and end().  The server   *)
(* may be silent, slow, or close the connection at any byte.  A line of a  *)
(* header arrives whole.                                                   *)
(***************************************************************************)
EXTENDS Integers, Sequences

CONSTANTS
  Host,           \* a function: target (host and port) -> host
  Responses,      \* [code, size (-1: not said), chunked, close, location, body (bytes)]
  Follows,        \* settings: "disable", "strict", "force"
  RedirectLimit,  \* _redirectLimit
  MaxWire         \* bound: what the server has sent and has not arrived

VARIABLES
  client,    \* _client is set
  link,      \* its connection: the far end, what is on its way, what has arrived; whether the server
             \* has closed it, begin(client, host, ...) has kept it for another host, and body bytes
             \* of one response were still on their way when the next request was made on it
  target,    \* _host and _port
  reuse, canReuse, follow, location,
  response,  \* _returnCode, _size, _transferEncoding; what the server said it would send
  call,      \* the call in progress
  result     \* the last call: what it was, whether its answer was its own, and link.late

httpVars == <<client, link, target, reuse, canReuse, follow, location, response, call, result>>

Targets == DOMAIN Host
Nowhere == "nowhere"
None == "none"
NoLink == [to |-> Nowhere, wire |-> <<>>, in |-> <<>>, closed |-> FALSE, kept |-> FALSE, late |-> FALSE]
NoResponse == [code |-> 0, size |-> -1, chunked |-> FALSE, body |-> 0]
Idle == [pc |-> "idle", method |-> "GET", count |-> 0, left |-> 0, got |-> 0, right |-> TRUE]
NoResult == [of |-> "none", mine |-> TRUE, late |-> FALSE]
Init ==
  /\ client = FALSE /\ link = NoLink /\ target \in Targets /\ reuse = TRUE /\ canReuse = FALSE
  /\ follow \in Follows /\ location = None /\ response = NoResponse
  /\ call = Idle /\ result = NoResult

Connected == client /\ link.to # Nowhere /\ (link.in # <<>> \/ link.wire # <<>> \/ ~link.closed)
\* The connection is kept when both sides want it, what has arrived is thrown away.
Disconnected(can) ==
  IF ~Connected THEN link ELSE IF reuse /\ can THEN [link EXCEPT !.in = <<>>] ELSE NoLink
-----------------------------------------------------------------------------
(* The server.                                                             *)

Old(tokens) == [i \in DOMAIN tokens |-> [tokens[i] EXCEPT !.mine = FALSE]]
Token(kind, n) == [kind |-> kind, n |-> n, mine |-> TRUE, head |-> NoResponse, close |-> FALSE, location |-> None]
Heading(r) == [code |-> r.code, size |-> r.size, chunked |-> r.chunked, body |-> r.body]
HeadToken(r) ==
  [Token("head", 0) EXCEPT !.close = r.close, !.location = r.location, !.head = Heading(r)]
\* In chunks, each byte is a chunk with its end of line, and the last chunk is empty.
Body(r) ==
  IF ~r.chunked THEN [i \in 1..r.body |-> Token("byte", i)]
  ELSE [i \in 1..3 * r.body + 2 |->
          CASE i % 3 = 1 -> Token("chunk", IF i < 3 * r.body THEN 1 ELSE 0)
            [] i % 3 = 2 /\ i < 3 * r.body -> Token("byte", i \div 3 + 1)
            [] OTHER -> Token("crlf", 0)]
Answer(r) == <<HeadToken(r)>> \o Body(r)

Arrive ==
  /\ link.wire # <<>> /\ link' = [link EXCEPT !.wire = Tail(@), !.in = Append(@, Head(link.wire))]
  /\ UNCHANGED <<client, target, reuse, canReuse, follow, location, response, call, result>>
Close ==
  /\ link.to # Nowhere /\ ~link.closed
  /\ \E n \in 0..Len(link.wire) : link' = [link EXCEPT !.closed = TRUE, !.wire = SubSeq(@, 1, n)]
  /\ UNCHANGED <<client, target, reuse, canReuse, follow, location, response, call, result>>
-----------------------------------------------------------------------------
(* The program's calls.                                                    *)

\* mutant: a change of host leaves the connection as it is
BeginUrlKeeps(t) == target' = t /\ response' = NoResponse /\ UNCHANGED <<canReuse, link>>

\* The settings survive every call; a change of host ends a connection.
BeginUrl(t) ==
  /\ IF Host[target] # Host[t] /\ Connected THEN canReuse' = FALSE /\ link' = Disconnected(FALSE)
     ELSE UNCHANGED <<canReuse, link>>
  /\ target' = t /\ response' = NoResponse
Begin(t) ==
  /\ call.pc = "idle" /\ client' = TRUE /\ BeginUrl(t)
  /\ result' = NoResult /\ UNCHANGED <<reuse, follow, location, call>>
\* Nor does begin(client, host, port, uri) look at the connection.
BeginHost(t) ==
  /\ call.pc = "idle" /\ client' = TRUE /\ target' = t /\ response' = NoResponse
  /\ link' = [link EXCEPT !.kept = link.to # Nowhere /\ (@ \/ Host[link.to] # Host[t])]
  /\ result' = NoResult /\ UNCHANGED <<reuse, canReuse, follow, location, call>>
SetReuse(b) ==
  /\ call.pc = "idle" /\ b # reuse /\ reuse' = b
  /\ UNCHANGED <<client, link, target, canReuse, follow, location, response, call, result>>
End ==
  /\ call.pc = "idle" /\ client /\ link' = Disconnected(canReuse) /\ response' = NoResponse
  /\ client' = (Connected => reuse /\ canReuse)
  /\ result' = NoResult /\ UNCHANGED <<target, reuse, canReuse, follow, location, call>>

\* method "STREAM": the payload is a stream of known size; "ENDLESS": of a size not known.
SendRequest(method) ==
  /\ call.pc = "idle" /\ call' = [Idle EXCEPT !.pc = "connect", !.method = method]
  /\ result' = NoResult /\ UNCHANGED <<client, link, target, reuse, canReuse, follow, location, response>>

\* returnError(), whatever the code: a call that fails ends the connection.
Fail ==
  /\ link' = (IF Connected THEN NoLink ELSE link) /\ call' = Idle
  /\ result' = [NoResult EXCEPT !.of = "failure"]
  /\ UNCHANGED <<client, target, reuse, canReuse, follow, location, response>>

Connect ==
  /\ call.pc = "connect"
  /\ \/ /\ link' = (IF ~Connected THEN [NoLink EXCEPT !.to = target]
                   ELSE IF \E i \in DOMAIN link.wire : link.wire[i].kind # "head" THEN [link EXCEPT !.in = <<>>, !.wire = <<>>, !.late = TRUE]
                   ELSE [link EXCEPT !.in = <<>>])
        /\ client /\ call' = [call EXCEPT !.pc = "send"]
        /\ UNCHANGED <<client, target, reuse, canReuse, follow, location, response, result>>
     \/ ~Connected /\ Fail
Send ==
  /\ call.pc = "send"
  /\ \/ /\ Connected
        /\ \E answer \in {<<>>} \cup {Answer(r) : r \in Responses} :
             /\ Len(link.wire) + Len(answer) <= MaxWire
             /\ link' = [link EXCEPT !.wire = Old(@) \o (IF link.closed \/ link.late THEN <<>> ELSE answer), !.in = Old(@)]
        /\ call' = [call EXCEPT !.pc = IF call.method \in {"STREAM", "ENDLESS"} THEN "upload" ELSE "answer"]
        /\ UNCHANGED <<client, target, reuse, canReuse, follow, location, response, result>>
     \/ Fail
\* Without a size the stream is read until the connection is lost.
Upload ==
  /\ call.pc = "upload"
  /\ \/ (call.method = "ENDLESS" => ~Connected) /\ call' = [call EXCEPT !.pc = "answer"]
        /\ UNCHANGED <<client, link, target, reuse, canReuse, follow, location, response, result>>
     \/ call.method = "STREAM" /\ Fail
     \/ Fail
AwaitAnswer ==
  /\ call.pc = "answer"
  /\ IF ~Connected THEN Fail
     ELSE /\ response' = NoResponse /\ canReuse' = reuse /\ call' = [call EXCEPT !.pc = "head"]
          /\ UNCHANGED <<client, link, target, reuse, follow, location, result>>

ReadLine ==
  /\ call.pc = "head" /\ link.in # <<>>
  /\ LET t == Head(link.in) IN
     /\ link' = [link EXCEPT !.in = Tail(@)] /\ response' = t.head
     /\ location' = (IF t.location = None THEN location ELSE t.location)
     /\ canReuse' = (canReuse /\ ~t.close) /\ call' = [call EXCEPT !.pc = "code", !.right = t.mine]
  /\ UNCHANGED <<client, target, reuse, follow, result>>
\* Bytes of an earlier body make the lines, and the code, anything.
ReadMixed ==
  /\ call.pc = "head" /\ link.late /\ call' = [call EXCEPT !.pc = "code", !.right = FALSE]
  /\ \E c \in {0} \cup {r.code : r \in Responses} : response' = [NoResponse EXCEPT !.code = c]
  /\ UNCHANGED <<client, link, target, reuse, canReuse, follow, location, result>>
HeadMissing ==
  /\ call.pc = "head" /\ link.in = <<>> /\ Fail

\* The location of an earlier response counts when this one has none.
FollowsRedirect ==
  /\ follow # "disable" /\ call.count < RedirectLimit /\ location # None /\ call.method \in {"GET", "POST"}
  /\ response.code = 303 \/ (response.code = 301 /\ (follow = "force" \/ call.method = "GET"))
SetUrl ==
  IF location \notin Targets THEN response' = NoResponse /\ UNCHANGED <<link, canReuse, target>>
  ELSE /\ target' = location /\ response' = NoResponse
       /\ IF Host[target] # Host[location] /\ Connected /\ reuse
          THEN canReuse' = FALSE /\ link' = NoLink ELSE canReuse' = TRUE /\ link' = Disconnected(TRUE)
Redirect ==
  /\ call.pc = "code" /\ FollowsRedirect /\ location # "other protocol" /\ SetUrl
  /\ call' = [Idle EXCEPT !.pc = "connect", !.count = call.count + 1, !.method = IF response.code = 303 THEN "GET" ELSE call.method]
  /\ UNCHANGED <<client, reuse, follow, location, result>>
Return ==
  /\ call.pc = "code" /\ (~FollowsRedirect \/ location = "other protocol")
  /\ IF response.code = 0 THEN Fail
     ELSE /\ call' = Idle /\ result' = [of |-> "request", mine |-> call.right, late |-> link.late]
          /\ UNCHANGED <<client, link, target, reuse, canReuse, follow, location, response>>
-----------------------------------------------------------------------------
(* writeToStream(): the body, once.                                        *)

ReadBody ==
  /\ call.pc = "idle" /\ result.of = "request"
  /\ IF ~Connected THEN Fail
     ELSE /\ call' = [Idle EXCEPT !.pc = IF response.chunked THEN "chunk" ELSE "data", !.left = response.size, !.right = result.mine]
          /\ UNCHANGED <<client, link, target, reuse, canReuse, follow, location, response, result>>
Finish ==
  /\ link' = Disconnected(canReuse) /\ call' = Idle
  /\ result' = [of |-> IF response.size = -1 /\ ~response.chunked THEN "rest" ELSE "body", late |-> link.late,
                mine |-> call.right /\ call.got = response.body]
  /\ UNCHANGED <<client, target, reuse, canReuse, follow, location, response>>
ReadData ==
  /\ call.pc = "data" /\ call.left # 0 /\ link.in # <<>>
  /\ \/ /\ link' = [link EXCEPT !.in = Tail(@)]
        /\ call' = [call EXCEPT !.got = @ + 1, !.left = IF @ > 0 THEN @ - 1 ELSE @,
                      !.right = @ /\ Head(link.in).mine /\ Head(link.in).kind = "byte" /\ Head(link.in).n = call.got + 1]
        /\ UNCHANGED <<client, target, reuse, canReuse, follow, location, response, result>>
     \/ Fail   \* the stream takes too little, or there is no memory
DataEnds ==
  /\ call.pc = "data" /\ (call.left = 0 \/ ~Connected \/ link.late)
  /\ IF call.left > 0 THEN Fail
     ELSE IF ~response.chunked THEN Finish
     ELSE call' = [call EXCEPT !.pc = "crlf"] /\ UNCHANGED <<client, link, target, reuse, canReuse, follow, location, response, result>>
ReadChunk ==
  /\ call.pc \in {"chunk", "crlf"} /\ link.in # <<>>
  /\ LET t == Head(link.in)
         rest == [link EXCEPT !.in = Tail(@)]
     IN CASE call.pc = "crlf" /\ t.kind = "crlf" ->
               /\ link' = rest /\ call' = [call EXCEPT !.pc = "chunk"]
               /\ UNCHANGED <<client, target, reuse, canReuse, follow, location, response, result>>
          [] call.pc = "chunk" /\ t.kind = "chunk" /\ t.n > 0 ->
               /\ link' = rest /\ call' = [call EXCEPT !.pc = "data", !.left = t.n]
               /\ UNCHANGED <<client, target, reuse, canReuse, follow, location, response, result>>
          [] call.pc = "chunk" /\ t.kind = "chunk" /\ t.n = 0 -> Finish
          [] OTHER -> Fail
ChunkMissing == call.pc \in {"chunk", "crlf"} /\ link.in = <<>> /\ Fail

RequestStep == Connect \/ Send \/ Upload \/ AwaitAnswer \/ ReadLine \/ ReadMixed \/ HeadMissing \/ Redirect \/ Return
BodyStep == ReadData \/ DataEnds \/ ReadChunk \/ ChunkMissing
Next ==
  \/ \E t \in Targets : Begin(t) \/ BeginHost(t)
  \/ (\E b \in BOOLEAN : SetReuse(b)) \/ End \/ ReadBody
  \/ \E method \in {"GET", "POST", "STREAM", "ENDLESS"} : SendRequest(method)
  \/ RequestStep \/ BodyStep \/ Arrive \/ Close
Spec == Init /\ [][Next]_httpVars /\ WF_httpVars(RequestStep)
-----------------------------------------------------------------------------
\* Every variable keeps its kind of value, and redirects are limited.
TypeOK ==
  /\ {client, reuse, canReuse} \subseteq BOOLEAN /\ target \in Targets /\ link.to \in Targets \cup {Nowhere}
  /\ Len(link.wire) <= MaxWire /\ call.count \in 0..RedirectLimit

\* A code that a request returns was sent for this very request, and a body of a known
\* size or in chunks that was read is the whole body of its response, also on a
\* connection used before, unless body bytes of a response, which nobody had read,
\* were still on their way when a later request was made on the connection.
ResponseIsOwn == result.of \in {"request", "body"} => result.mine \/ result.late

\* A request goes to the host it is for, also after redirects, unless begin(client,
\* host, ...) has kept the connection to another.
SentToItsHost == call.pc = "answer" /\ link.to # Nowhere => Host[link.to] = Host[target] \/ link.kept

\* A request returns, whatever the server does: redirects are limited and waits end.
\* A stream of a size not known is read for ever.
Requesting == call.pc \in {"connect", "send", "answer", "head", "code"}
RequestOver == call.pc \in {"idle", "upload"}
RequestReturns == Requesting ~> RequestOver
=============================================================================
