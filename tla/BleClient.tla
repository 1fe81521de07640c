------------------------------ MODULE BleClient ------------------------------
(***************************************************************************)
(* A BLE client, one service of its server, a characteristic of it and the *)
(* characteristic's 2902 descriptor: connecting, finding the services,     *)
(* reading, writing and registering for notifications, while the link may  *)
(* be lost at any moment and the stack may refuse or fail a request.       *)
(***************************************************************************)
EXTENDS BleCalls

CONSTANTS
  Contents,   \* values the server's characteristic may have
  MaxLinks    \* bound: connections opened

VARIABLES
  peer,       \* the client is in BLEDevice's map of peers
  gattIf,     \* m_gattc_if is set
  connected,  \* m_isConnected
  link,       \* the stack's connection: "down", "opening", "up"
  links,      \* connections opened so far
  found,      \* m_servicesMap is filled, and for which connection
  have,       \* m_haveServices
  code,       \* the value last given with each semaphore that has one
  content,    \* the server's value
  valueRead,  \* m_value
  answer,     \* what the last call returned, and what it should have returned
  excused     \* something happened that the call in progress does not survive

clientVars == <<todo, taken, asked, peer, gattIf, connected, link, links, found, have, code, content, valueRead, answer, excused>>

Me == 0
NoContent == ""
Valued == {"register", "open", "search"}
Init ==
  /\ todo = <<>> /\ taken = {} /\ asked = <<>>
  /\ peer = FALSE /\ gattIf = FALSE /\ connected = FALSE /\ link = "down" /\ links = 0
  /\ found = 0 /\ have = FALSE /\ code = [k \in Valued |-> "ok"] /\ excused = FALSE
  /\ content \in Contents /\ valueRead = NoContent /\ answer = [of |-> "none", is |-> NoContent, was |-> NoContent]
-----------------------------------------------------------------------------
(* The calls.                                                              *)

\* A wait whose value says that the connection failed ends the function.
Open == Take("open", Me) \o Ask("open", Me, Fallible("wait", "open", Me, <<>>))
Connect == Take("register", Me) \o Ask("register", Me, Fallible("wait", "register", Me, Open))
\* The services are asked for before the semaphore is taken, and a refusal is looked at after.
GetServices == Ask("search", Me, <<>>) \o Take("search", Me) \o Wait("search", Me) \o Do("done", "search", Me)
RefuseSearch == Doing("ask") /\ todo' = Take("search", Me) /\ UNCHANGED <<taken, asked>>
ReadValue == Exchange("read", Me) \o Do("done", "read", Me)
WriteValue == Exchange("write", Me)
\* The results of asking are not looked at; the descriptor is written if the link is still there.
RegisterForNotify == Take("notify", Me) \o Ask("notify", Me, <<>>) \o Do("if", "", Me) \o
                     Take("descr", Me) \o Ask("descr", Me, <<>>) \o Wait("descr", Me) \o Wait("notify", Me)
GetRssi == Exchange("rssi", Me)

Call ==
  /\ todo = <<>>
  /\ \/ /\ ~connected /\ ~peer /\ links < MaxLinks /\ todo' = Connect /\ peer' = TRUE /\ UNCHANGED <<found, have>>
     \/ /\ connected /\ ~have /\ todo' = GetServices /\ found' = 0 /\ have' = FALSE /\ UNCHANGED peer
     \/ /\ connected /\ found # 0 /\ todo' \in {ReadValue, WriteValue, RegisterForNotify}
        /\ UNCHANGED <<peer, found, have>>
     \/ connected /\ todo' = GetRssi /\ UNCHANGED <<peer, found, have>>
  /\ answer' = [answer EXCEPT !.of = "none"]
  /\ UNCHANGED <<taken, asked, gattIf, connected, link, links, code, content, valueRead, excused>>

\* esp_ble_gattc_close; the DISCONNECT event comes later.
Disconnect == connected /\ todo = <<>> /\ link = "up" /\ link' = "closing" /\ UNCHANGED <<todo, taken, asked, peer, gattIf, connected, links, found, have, code, content, valueRead, answer, excused>>

OnLink(kind) == kind \notin {"register", "open"}
\* The stack takes a request for a link that is gone and never answers it.
AskStep ==
  /\ \/ Accept /\ (todo[1].kind = "open" => link = "down") /\ (OnLink(todo[1].kind) => link = "up") /\ UNCHANGED <<peer, excused>>
     \/ Doing("ask") /\ OnLink(todo[1].kind) /\ link # "up" /\ Proceed /\ excused' = TRUE /\ UNCHANGED <<taken, asked, peer>>
     \/ /\ Doing("ask") /\ excused' = TRUE
        /\ IF todo[1].kind = "search" THEN RefuseSearch ELSE Refuse
        /\ peer' = (peer /\ todo[1].kind \notin {"register", "open"})
  /\ link' = (IF Doing("ask") /\ asked' # asked /\ todo[1].kind = "open" THEN "opening" ELSE link)
  /\ UNCHANGED <<gattIf, found, have, answer>>

\* connect() takes the client out of the map again when a wait brings an error.
WaitResult ==
  /\ Doing("wait") /\ todo[1].kind \in {"register", "open"} /\ Sem \notin taken /\ UNCHANGED <<taken, asked>>
  /\ IF code[todo[1].kind] = "ok" THEN Proceed /\ UNCHANGED <<peer, gattIf>>
     ELSE /\ Fail /\ peer' = FALSE /\ gattIf' = (gattIf /\ todo[1].kind # "open")
  /\ answer' = IF todo[1].kind = "open" THEN [answer EXCEPT !.of = "connect", !.is = code["open"]] ELSE answer
  /\ UNCHANGED <<found, have, link, excused>>

Local ==
  /\ \/ /\ Doing("done") /\ Proceed /\ todo[1].kind = "search" /\ have' = (code["search"] = "ok") /\ UNCHANGED answer
     \/ /\ Doing("done") /\ Proceed /\ todo[1].kind = "read"
        /\ answer' = [answer EXCEPT !.of = "read", !.is = valueRead] /\ UNCHANGED have
     \/ /\ Doing("if") /\ (IF connected THEN Proceed ELSE todo' = SubSeq(todo, 5, Len(todo))) /\ UNCHANGED <<have, answer>>
  /\ UNCHANGED <<taken, asked, peer, gattIf, found, link, excused>>

Step ==
  /\ \/ (TakeStep \/ (WaitStep /\ todo[1].kind \notin {"register", "open"})) /\ UNCHANGED <<peer, gattIf, found, have, answer, link, excused>>
     \/ AskStep \/ WaitResult \/ Local
  /\ UNCHANGED <<connected, links, code, content, valueRead>>
-----------------------------------------------------------------------------
(* The events.                                                             *)

Give(sems) == taken' = taken \ {<<k, Me>> : k \in sems}
GiveValue(kind, v) == Give({kind}) /\ code' = [code EXCEPT ![kind] = v]
Same == UNCHANGED <<found, valueRead, answer, excused, connected, links, link, gattIf>>

\* Without m_gattc_if an event would be ignored; no request is pending then.
Answer ==
  /\ asked # <<>> /\ asked' = Tail(asked)
  /\ LET kind == Head(asked)[1] IN
     CASE kind = "register" ->
            /\ gattIf' = TRUE /\ \E status \in {"ok", "error"} : GiveValue(kind, status)
            /\ UNCHANGED <<found, valueRead, answer, excused, connected, links, link>>
       [] kind = "open" ->
            \/ /\ connected' = TRUE /\ link' = "up" /\ links' = links + 1 /\ GiveValue(kind, "ok")
               /\ UNCHANGED <<found, valueRead, answer, excused, gattIf>>
            \/ /\ link' = "down" /\ GiveValue(kind, "error") /\ UNCHANGED <<found, valueRead, answer, excused, connected, links, gattIf>>
       \* A search that fails gives nothing; one that ends before the semaphore is taken, too soon.
       [] kind = "search" ->
            \/ /\ found' = links /\ GiveValue(kind, "ok") /\ excused' = (excused \/ Doing("take"))
               /\ UNCHANGED <<valueRead, answer, connected, links, link, gattIf>>
            \/ /\ excused' = TRUE /\ UNCHANGED <<taken, code, found, valueRead, answer, connected, links, link, gattIf>>
       [] kind = "read" ->
            /\ \/ valueRead' = content \/ valueRead' = NoContent
            /\ answer' = [answer EXCEPT !.was = valueRead'] /\ Give({kind})
            /\ UNCHANGED <<code, found, excused, connected, links, link, gattIf>>
       [] OTHER -> Give({kind}) /\ UNCHANGED code /\ Same
  /\ UNCHANGED <<todo, peer, have, content>>

\* The link is lost with all requests on it.  Only some semaphores are given.
WaitsFor(kinds) == \E i \in DOMAIN todo : todo[i].do = "wait" /\ todo[i].kind \in kinds
LostLink ==
  /\ link \in {"up", "closing"} /\ link' = "down" /\ asked' = SelectSeq(asked, LAMBDA q : ~OnLink(q[1]))
  /\ connected' = FALSE /\ gattIf' = FALSE /\ peer' = FALSE
  /\ Give({"open", "rssi", "search", "write"}) /\ code' = [code EXCEPT !["open"] = "error", !["search"] = "error"]
  /\ excused' = (excused \/ WaitsFor({"read", "notify", "descr"}) \/ \E i \in DOMAIN todo : todo[i].do \in {"take", "ask"})
  /\ UNCHANGED <<todo, links, found, have, content, valueRead, answer>>

ContentChanges == content' \in Contents /\ UNCHANGED <<todo, taken, asked, peer, gattIf, connected, link, links, found, have, code, valueRead, answer, excused>>

Next == Call \/ Disconnect \/ Step \/ Answer \/ LostLink \/ ContentChanges
Spec == Init /\ [][Next]_clientVars /\ WF_clientVars(Step) /\ WF_clientVars(Answer)
-----------------------------------------------------------------------------
\* Every variable keeps its kind of value.
TypeOK ==
  /\ {peer, gattIf, connected, have, excused} \subseteq BOOLEAN /\ link \in {"down", "opening", "up", "closing"}
  /\ links \in 0..MaxLinks /\ found \in 0..MaxLinks /\ code \in [Valued -> {"ok", "error"}]
  /\ content \in Contents /\ valueRead \in Contents \cup {NoContent}

\* Between calls the client is in BLEDevice's map of peers exactly while it is
\* connected, and then the stack has the link or is about to say that it is lost.
PeerWhileConnected == todo = <<>> => peer = connected /\ (connected <=> link \in {"up", "closing"}) /\ (connected => gattIf)

\* A read returns what the server answered to this very read.
ReadsOwnAnswer == answer.of = "read" => answer.is = answer.was

\* A call waits for ever only after a request was refused or failed, when the link
\* is lost during a read or a registration or before the stack was asked, or when
\* the services were found before getServices() took its semaphore.
CallsReturn == todo # <<>> ~> (todo = <<>> \/ excused)
=============================================================================
