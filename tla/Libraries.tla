------------------------------ MODULE Libraries -------------------------------
(***************************************************************************)
(* The libraries a program of the board calls: the WiFi libraries and what *)
(* is built on them (scans, the station, event callbacks, name lookups,    *)
(* datagrams, HTTP requests, the two updates over HTTP), what it stores    *)
(* (EEPROM, files), and the handlers of its web server.  They share no     *)
(* state, so a behaviour is of one part, the others stay in a first state. *)
(***************************************************************************)
EXTENDS Integers, Sequences, FiniteSets

CONSTANTS
    Surveys, Lists,
    Networks, MaxQueue, MaxCalls, MaxLosses,
    Functions, Events, MaxIds,
    Callers, Names,
    Peers, PacketBytes, TxSize, MaxData, MaxWaiting,
    Host, Responses, Follows, RedirectLimit, MaxWire,
    Room,
    MaxTasks,
    Sizes, Values, MaxHandles,
    FilePaths, Objects, MaxLength,
    HandlerConfig, Rewrites, Urls, Pieces, Paths, Contents, ContentSize, MaxWrites

\* Sizes and bounds are natural numbers, and nothing of no size is stored; a server sends
\* as much as it says, or does not say.
ASSUME LibrarySizes ==
    /\ Room \in Nat /\ MaxHandles \in Nat /\ TxSize \in Nat \ {0}
    /\ Sizes \subseteq Nat \ {0}
    /\ \A r \in Responses : r.body \in Nat /\ (~r.chunked => r.size \in {-1, r.body})

\* Surveys and lists are sequences, and a signal has a strength.
ASSUME LibraryNetworks ==
    /\ \A s \in Surveys : /\ s \in Seq({s[i] : i \in 1 .. Len(s)})
                          /\ \A i \in 1 .. Len(s) : s[i].rssi \in Int
    /\ \A l \in Lists : l \in Seq({l[k] : k \in 1 .. Len(l)})

\* A server has finitely many handlers of the two kinds, besides the one that catches all.
ASSUME LibraryHandlers ==
    /\ IsFiniteSet(DOMAIN HandlerConfig)
    /\ "_catchAllHandler" \notin DOMAIN HandlerConfig
    /\ \A h \in DOMAIN HandlerConfig : HandlerConfig[h].kind \in {"static", "callback"}

\* A file's tag is its size, so it tells contents apart only when no two have one size; 0
\* stands for no tag, so none is empty.
ASSUME LibraryTags ==
    /\ \A c \in Contents : ContentSize[c] # 0
    /\ \A c, d \in Contents : ContentSize[c] = ContentSize[d] => c = d

VARIABLES
    part,
    scanBits, started, count, scanResult, radio, survey, scanTask, scanCall, list, chosen,
    overtaken, givenUp, scanLeaked,
    drv, dhcp, status, staBits, auto, staTask, smart, calls, losses, expired, quiet, staLost,
    cbEventList, current_id, walk, heard, due, shifted,
    dnsBits, lookup, aResult, asked, failed, overlapped,
    open, joined, tx, udpRx, remote, waiting, packet, torn, outgoing,
    client, link, target, reuse, canReuse, follow, location, response, request, outcome,
    updating, http, update, installed, updateResult, lastError, unended, crashed,
    otaBits, tasks, told,
    nvs, mem, call, handles, stored, halfStored, pointed,
    files, dirs, file, unlisted,
    handlers, rewrites, served, gzipStats, gzipFirst, asking, answers, copy, gets, writes

scanVars == <<scanBits, started, count, scanResult, radio, survey, scanTask, scanCall, list,
              chosen, overtaken, givenUp, scanLeaked>>
stationVars == <<drv, dhcp, status, staBits, auto, staTask, smart, calls, losses, expired,
                 quiet, staLost>>
callbackVars == <<cbEventList, current_id, walk, heard, due, shifted>>
dnsVars == <<dnsBits, lookup, aResult, asked, failed, overlapped>>
udpVars == <<open, joined, tx, udpRx, remote, waiting, packet, torn, outgoing>>
httpVars == <<client, link, target, reuse, canReuse, follow, location, response, request,
              outcome>>
updateVars == <<updating, http, update, installed, updateResult, lastError, unended, crashed>>
otaVars == <<otaBits, tasks, told>>
storeVars == <<nvs, mem, call, handles, stored, halfStored, pointed>>
fileVars == <<files, dirs, file, unlisted>>
serveVars == <<handlers, rewrites, served, gzipStats, gzipFirst, asking, answers, copy, gets,
               writes>>
vars == <<part, scanVars, stationVars, callbackVars, dnsVars, udpVars, httpVars, updateVars,
          otaVars, storeVars, fileVars, serveVars>>

-----------------------------------------------------------------------------
Scan == INSTANCE WifiScan WITH
    bits <- scanBits, result <- scanResult, task <- scanTask, call <- scanCall,
    leaked <- scanLeaked
Station == INSTANCE WifiStation WITH bits <- staBits, task <- staTask, lost <- staLost
Callbacks == INSTANCE WifiCallbacks
Dns == INSTANCE WifiDns
Udp == INSTANCE WifiUdp WITH rx <- udpRx, Bytes <- PacketBytes
Http == INSTANCE HttpClient WITH call <- request, result <- outcome
Update == INSTANCE HttpUpdate WITH call <- updating, result <- updateResult
Ota == INSTANCE HttpsOta WITH bits <- otaBits
Store == INSTANCE EepromStore WITH torn <- halfStored
Fs == INSTANCE FsFiles WITH Paths <- FilePaths
Serve == INSTANCE WebServe WITH
    files <- served, request <- asking, Config <- HandlerConfig, Size <- ContentSize

Parts == {"scan", "station", "callbacks", "dns", "udp", "http", "update", "ota", "store",
          "files", "serve"}

-----------------------------------------------------------------------------
\* The parts that stand still are in one first state each.
Init ==
    /\ part \in Parts
    /\ Scan!Init /\ Station!Init /\ Callbacks!Init /\ Dns!Init /\ Udp!Init
    /\ Http!Init
    /\ part = "http" \/ target = CHOOSE one \in DOMAIN Host : TRUE
    /\ Update!Init /\ Ota!Init
    /\ Store!Init /\ Fs!Init
    /\ Serve!Init
    /\ part = "serve" \/ (handlers = <<>> /\ \A p \in Paths : served[p] = "none")

Next ==
    /\ UNCHANGED part
    /\ \/ part = "scan" /\ Scan!Next
       \/ part # "scan" /\ UNCHANGED scanVars
    /\ \/ part = "station" /\ Station!Next
       \/ part # "station" /\ UNCHANGED stationVars
    /\ \/ part = "callbacks" /\ Callbacks!Next
       \/ part # "callbacks" /\ UNCHANGED callbackVars
    /\ \/ part = "dns" /\ Dns!Next
       \/ part # "dns" /\ UNCHANGED dnsVars
    /\ \/ part = "udp" /\ Udp!Next
       \/ part # "udp" /\ UNCHANGED udpVars
    /\ \/ part = "http" /\ Http!Next
       \/ part # "http" /\ UNCHANGED httpVars
    /\ \/ part = "update" /\ Update!Next
       \/ part # "update" /\ UNCHANGED updateVars
    /\ \/ part = "ota" /\ Ota!Next
       \/ part # "ota" /\ UNCHANGED otaVars
    /\ \/ part = "store" /\ Store!Next
       \/ part # "store" /\ UNCHANGED storeVars
    /\ \/ part = "files" /\ Fs!Next
       \/ part # "files" /\ UNCHANGED fileVars
    /\ \/ part = "serve" /\ Serve!Next
       \/ part # "serve" /\ UNCHANGED serveVars

\* Each part's own fairness, for the behaviours that are of it.
Fairness ==
    /\ WF_scanVars(part = "scan" /\ Scan!Program)
    /\ WF_scanVars(part = "scan" /\ Scan!Found)
    /\ WF_scanVars(part = "scan" /\ Scan!Handler)
    /\ WF_stationVars(part = "station" /\ Station!Task)
    /\ WF_stationVars(part = "station" /\ Station!Joins)
    /\ WF_stationVars(part = "station" /\ Station!GetsAddress)
    /\ WF_dnsVars(part = "dns" /\ Dns!LwipStep)
    /\ \A t \in Callers : SF_dnsVars(part = "dns" /\ Dns!LookupStep(t))
    /\ WF_httpVars(part = "http" /\ Http!RequestStep)
    /\ WF_otaVars(part = "ota" /\ Ota!TaskStep)
    /\ WF_otaVars(part = "ota" /\ Ota!Status)
Spec == Init /\ [][Next]_vars /\ Fairness

-----------------------------------------------------------------------------
\* Each part's variables keep their kinds and bounds.
TypeOK ==
    /\ part = "scan" => Scan!TypeOK
    /\ part = "station" => Station!TypeOK
    /\ part = "callbacks" => Callbacks!TypeOK
    /\ part = "dns" => Dns!TypeOK
    /\ part = "udp" => Udp!TypeOK
    /\ part = "http" => Http!TypeOK
    /\ part = "update" => Update!TypeOK
    /\ part = "ota" => Ota!TypeOK
    /\ part = "store" => Store!TypeOK
    /\ part = "files" => Fs!TypeOK
    /\ Serve!TypeOK

\* What a program gets is its own: an address is that of the name asked for
\* (hostByName), an answer that of the request, which went to its own host (HTTPClient).
AnswersAreOwn ==
    /\ part = "dns" => Dns!LookupsAreOwn
    /\ part = "http" => Http!ResponseIsOwn /\ Http!SentToItsHost

\* What the libraries say is so once they have caught up: the station's status and
\* bits, and that it is off (WiFiGeneric, WiFiSTA), the count of networks found
\* (WiFiScan), the result of an update and that the next may begin (HTTPUpdate,
\* HttpsOTAUpdate).
StatusIsTrue ==
    /\ part = "station" => Station!StatusIsTrue /\ Station!OffStaysOff
    /\ part = "scan" => Scan!ResultsFit
    /\ part = "update" => Update!OkMeansInstalled /\ Update!UpdaterIsFree
    /\ part = "ota" => Ota!StatusIsTrue

\* What was committed is kept over restarts and refused sets, and a copy that is not
\* dirty is what is stored (EEPROMClass); a file's size is told right once it is flushed
\* (VFSFileImpl), but for an object that another one, or its own mode, has fooled.
StoredIsKept ==
    /\ part = "store" => Store!StoredIsKept /\ Store!CleanMeansStored
    /\ part = "files" => Fs!SizeIsTrue

\* One answer to each request; nothing of a refused upload reaches the program.
AnsweredOnce == part = "serve" => Serve!AnsweredOnce

\* run() joins the strongest usable network (WiFiMulti), an event reaches everyone
\* registered for it (_eventCallback), a datagram leaves as it was written (WiFiUDP).
ActsRightly == Scan!JoinsTheStrongest /\ Callbacks!EveryoneHears /\ Udp!PacketsLeaveWhole

\* A 304 is only said of what the browser really has, and a file is found, whole or
\* compressed, whatever was asked for before (_fileExists).
FilesAreServed == Serve!NotModifiedIsTrue /\ Serve!FilesAreFound

\* What is waited for comes: a scan's end, the network after a loss, the lookup, the
\* request, the news of an update; but for the cases the modules name.  A behaviour is
\* of one part, so this is the conjunction of ScanningEnds, LossIsRetried, LookupReturns,
\* RequestReturns and EndIsTold, in one formula for each task that looks names up.
Waiting(t) ==
    \/ part = "scan" /\ Scan!Scanning
    \/ part = "station" /\ Station!LostFromNet
    \/ part = "dns" /\ ~Dns!Returned(t)
    \/ part = "http" /\ Http!Requesting
    \/ part = "ota" /\ Ota!Started
Served(t) ==
    \/ part = "scan" /\ Scan!ScanOver
    \/ part = "station" /\ Station!RetryOver
    \/ part = "dns" /\ Dns!Returned(t)
    \/ part = "http" /\ Http!RequestOver
    \/ part = "ota" /\ Ota!TheEndIsTold
CallsReturn == \A t \in Callers : Waiting(t) ~> Served(t)
-----------------------------------------------------------------------------
(* Values for TLC: nothing found, or three networks, and the first entry for the         *)
(* strongest has no passphrase; two hosts, a redirect with a body of a known size and an *)
(* answer in chunks; a directory with a default file, served with a tag and with a date, *)
(* and a callback that wants a password.                                                 *)

Net(s, r, o) == [ssid |-> s, rssi |-> r, open |-> o]
Entry(s, p) == [ssid |-> s, pass |-> p]
MCSurveys == {<<>>, <<Net("a", 2, TRUE), Net("c", 1, TRUE), Net("b", 3, FALSE)>>}
MCLists == {<<Entry("a", FALSE), Entry("b", FALSE), Entry("b", TRUE), Entry("c", TRUE)>>}

MCNames == [t1 |-> {"h1", "h2"}, t2 |-> {"h2"}]

Answer(code, size, chunked, close, to, body) ==
    [code |-> code, size |-> size, chunked |-> chunked, close |-> close, location |-> to, body |-> body]
MCHost == [a80 |-> "a", b80 |-> "b"]
MCResponses == {Answer(303, 2, FALSE, FALSE, "b80", 2),
                Answer(200, -1, TRUE, FALSE, "none", 1),
                Answer(200, -1, FALSE, TRUE, "none", 1)}

Handler(k, uri, path, f, cache, date, lock, ms) ==
    [kind |-> k, uri |-> uri, path |-> path, isDir |-> k = "static", file |-> f,
     cached |-> cache, modified |-> date, locked |-> lock, method |-> ms]
MCConfig ==
    [s |-> Handler("static", <<"/">>, <<"/", "d", "/">>, <<"i">>, TRUE, "none", FALSE, {}),
     t |-> Handler("static", <<"/">>, <<"/", "d", "/">>, <<"i">>, FALSE, "date", FALSE, {}),
     c |-> Handler("callback", <<"/", "o">>, <<>>, <<>>, FALSE, "none", TRUE, {"POST"})]
MCRewrites == {[from |-> <<"/", "o">>, to |-> <<"/">>]}
MCUrls == {<<"/">>, <<"/", "o">>}
MCPaths == {<<"/", "d", "/", "i">>, <<"/", "d", "/", "i", ".gz">>}
MCSize == [x |-> 1, y |-> 2]
=============================================================================
