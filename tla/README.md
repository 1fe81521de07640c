# TLA+ models of the JEDGE libraries

JEDGE is laser-tag firmware for the ESP32. This repository does not hold the sketch itself: its
program code is the set of libraries under `src/Essential Libraries` that the sketch is built with
(an asynchronous TCP stack and web server, over-the-air update, Bluetooth, Wi-Fi, EEPROM), next to
a circuit board and a text about the HC-05 module. This directory models the libraries in TLA+,
checks the models with TLC and proves some of the results with TLAPS. `PROJECT.json` names, for
every definition, the lines of the source it stands for; for every property, a plausible bug (a
*mutant* of a definition) that breaks it; and every hazard of the code with the properties that
watch it.

Contents: [inventory](#inventory), [how the models are built](#how-the-models-are-built),
[the modules](#the-modules), [runs and bounds](#runs-and-bounds), [proofs](#proofs),
[where the code and its documents differ](#where-the-code-and-its-documents-differ),
[seen on the way](#seen-on-the-way), [not modelled](#not-modelled), [what is next](#what-is-next).

## Inventory

`Libs/` below is `src/Essential Libraries/`.

### The network stack

| Component | State | Operations | Talks to | What is hard | What makes it correct |
|---|---|---|---|---|---|
| AsyncTCP event queue (`AsyncTCP.cpp` 36-342) | FreeRTOS queue of 32 packets, each with the address of its client | callbacks send; the async task receives and dispatches; CLEAR rotates the queue and frees the packets of one client | LwIP's thread above, the clients below, the sketch's loop task | three threads between any two queue calls; the only consumer also sends | no packet lost, freed twice or purged for another client; silence after CLEAR |
| AsyncTCP client (`AsyncTCP.cpp` 397-1100) | `_pcb`, `_closed_slot`, callbacks; the global `_closed_slots`, `_closed_index` | accept, write, ack, close, abort, FIN, error, poll, destructor | LwIP through `tcpip_api_call`; the application's callbacks, which delete it | two cores, no lock on slots; address reuse of clients and pcbs; close racing FIN | a call never reaches another connection's pcb; events reach the client they are meant for; one disconnect report each |
| AsyncTCP connect, DNS, server | the same, and `_connect_port`, the listening pcb | connect, dns found, begin, end, timeouts in `_poll` | LwIP | DNS answers after a deletion; the ack timeout | as above |
| Web server request (`WebRequest.cpp`) | parse state, line buffer, `_contentLength`, `_parsedLength`, response | `_onData`, `_onAck`, `_onPoll`, `_onTimeout`, `_onDisconnect`, `send` | AsyncClient's events, handlers | any segmentation of the input; a body longer than announced; deletion from a callback | handler called once, with the whole request; every connection comes to an end |
| Web server response (`WebResponses.cpp`) | state, head, `_sentLength`, `_ackedLength`, `_writtenLength` | `_respond`, `_ack`, `_fillBuffer` of five kinds of source | request, file system, sketch | send buffer smaller than the head; a source that has nothing yet; partial writes | the other end reads the response whole and in order |
| Request bodies and templates (`WebRequest.cpp` 260-600, `WebResponses.cpp` 300-460) | parser of a body, byte by byte; the chunk and what waits for the next one | `_parseMultipartPostByte`, `_parsePlainPostChar`, `_fillBufferAndProcessTemplates` | request, handlers, file system | a boundary begun in the data and cut by a packet; a placeholder that spans two chunks | what was encoded is what is read; a page goes out with its placeholders replaced |
| Web server routing (`WebServer.cpp`, `WebHandlers.cpp`, `WebAuthentication.cpp`) | lists of handlers and rewrites | add, remove, `_attachHandler`, static files, authentication | request | a file changed between a request and the browser's next one; the guess whether a file is compressed | one answer to a request; a 304 only of what the browser has; nothing refused reaches the program |
| Web socket client (`AsyncWebSocket.cpp` 242-720) | control queue, message queue, `_status`, counters per message | `_onAck`, `_onPoll`, `_onData`, `text`, `ping`, `close` | AsyncClient, the web socket server | one acknowledgement for several frames; closing handshakes that cross | messages read whole and in order; a queued message is sent; a handshake completes |
| Web socket server (`AsyncWebSocket.cpp` 780-1294) | client list, shared buffers with a count and a lock bit | `textAll`, `makeBuffer`, `_cleanBuffers`, `cleanupClients`, handshake | clients, the loop task | loop task and async task on unsynchronised lists; buffers freed too early | a buffer lives while a message uses it; a closed client leaves the list |
| AsyncEventSource | client list, message queue per client | `send`, `_onAck`, `_onPoll`, `_runQueue` | AsyncClient | acknowledgement booking, as the web socket's | messages in order, none lost while connected |
| SPIFFSEditor, AsyncJson | a file per upload, a body buffer | handler methods | file system | pure I/O | - |

### Update and storage

| Component | State | Operations | Talks to | What is hard | What makes it correct |
|---|---|---|---|---|---|
| UpdateClass (`Update/src/Updater.cpp`) | buffer of a sector, `_progress`, `_size`, the held back first block, the partition, `_error` | `begin`, `write`, `writeStream`, `end`, `abort`, `rollBack` | flash, `otadata`, the boot loader | power loss between flash operations; flash and malloc failures; premature `end` | a partial image never boots; a bootable one is always there |
| HTTPUpdate (`HTTPUpdate.cpp`) | `_lastError` | `handleUpdate`, `runUpdate` | HTTPClient, UpdateClass | errors after `begin` that leave the update running (`setMD5`, 401; `writeStream` without memory, 410) | the next update can begin; restart only after a complete image |
| HttpsOTAUpdate | status, a task | start, events | IDF | the task ends itself | - |
| HTTPClient (`HTTPClient.cpp`) | connection, reuse flags, headers, redirects | `begin`, `sendRequest`, `getString`, `writeToStream`, `end` | WiFiClient | reuse of a kept-alive connection with unread bytes; chunked sizes; redirect loops | a response belongs to its request; a reused connection is clean |
| EEPROM (`EEPROM.cpp`) | RAM copy, `_size`, `_dirty`, NVS blob | `begin`, `write`, `commit`, `end`, `convert` | NVS | power loss between the erase and the rewrite in `begin` (119-125); changes through `getDataPtr` | what was committed survives; no write is lost by `end` |
| FS (`FS.cpp`, `vfs_api.cpp`) | per object: a `FILE*`, a cached `stat`, `_written` | open, read, write, seek, flush, size, close, directories | VFS, stdio's buffer | two objects on one path; a size cached before the truncation | what size() says of a flushed file is so |
| Arduino_JSON (`cJSON.c`, `JSONVar.cpp`) | trees of nodes; handles into them | parse, print, add, insert, detach, replace, duplicate, compare; `operator[]`, assignments | `malloc` | an allocation failing anywhere; handles into a tree that changes; buffers that must not grow | each node is owned once; a printed text is parsed to the same value |

### Radio

| Component | State | Operations | Talks to | What is hard | What makes it correct |
|---|---|---|---|---|---|
| BLE server (`BLEServer`, `BLEService`, `BLECharacteristic`, `BLEAdvertising`) | services, characteristics, peers, binary semaphores with a value | start, notify, indicate, read, write, prepare/execute write | the Bluetooth task's callbacks | `take`, call, `wait` on a semaphore a callback gives, with disconnection and timeouts between (`BLECharacteristic.cpp` 520-544) | nobody waits for ever; an answer is taken by the call it belongs to |
| BLE client and scan (`BLEClient`, `BLERemoteService`, `BLERemoteCharacteristic`, `BLEScan`) | connection, discovered services, semaphores | connect, discovery, read, write, notifications, scan | the Bluetooth task | a failed call that leaves its semaphore taken (`BLEClient.cpp` 103-111); discovery cut off by a disconnection | as above |
| BluetoothSerial | receive queue 512, transmit queue 32, transmit buffer 330, event bits, `_spp_client` | write, flush, SPP and GAP callbacks, connect, disconnect | the Bluetooth task, a transmit task | congestion, an acknowledgement that times out and comes late, a second connection | bytes in order; `flush` returns |
| WiFi (generic, STA, AP, scan, multi, ETH) | event bits, status, callbacks list, scan results | begin, disconnect, mode, scan, events | the IDF's event loop, the network event task | status bits against the calls that wait for them; scans that time out | the status follows the events; a scan ends |
| WiFi sockets, WiFiClientSecure | a socket, a receive buffer, shared handles | connect, read, write, available, stop | lwIP sockets | partial writes, errors that close | bytes in order, no use after stop |
| BLE formats and utilities | none | conversions | - | formatting | - |

### How they interact

`sketch -> web server, web sockets, event source -> AsyncClient -> event queue -> LwIP`: downwards
by calls (which cross to LwIP's thread by `tcpip_api_call`, blocking), upwards by callbacks, which
all run on the one async task and may close and delete what called them. `HTTPUpdate -> HTTPClient
-> WiFiClient` and `HTTPUpdate -> UpdateClass -> flash -> boot loader` run on the loop task. The
Bluetooth libraries answer callbacks of the Bluetooth task, which meet the sketch's calls at
semaphores, queues and event bits.

## How the models are built

One module per component; parameters are CONSTANTS with named assumptions; one action per handler,
call or callback. Where two threads run, the accesses to what they share and the calls of FreeRTOS
or LwIP are steps of their own. In `AsyncTcpEvents`, `AsyncTcpClient` and `HttpsOta` this is so of
every access to what these modules model. In the others some accesses are grouped: in `WifiStation`
a call of the program that reads and writes the station's configuration is one step (`begin()` on
the event task too, `WiFiSTA.cpp` 200-225); in `WifiScan` the records with their array and count,
what `scanComplete()` looks at, and the deletion of results; in `WifiDns` lwIP's callback; in
`BleNotification` what lies between two calls of the stack; in `BleScan` `stop()`, the recording of
a device, and the walk that deletes the devices. The clearing of the map behind that walk is a step
of its own; that the map may change under the walk is not modelled. Where power may be lost, every
operation on flash or NVS is a step (`Updater`, `EepromStore`). Handlers of the web server, of web
sockets and of the event source run whole on one task, and are one step each. Code outside the
repository (LwIP, FreeRTOS, the ESP-IDF, Bluedroid, the flash) is modelled from the way the
libraries use it, and marked external in `PROJECT.json`.

Bounds on otherwise endless counters are CONSTANTS named `Max...` and stand in the guards of
actions. Definitions marked *mutant* are not part of any specification: each is a wrong variant of
the definition that follows it, to show that a property can fail.

Many of these libraries do not keep their promise in every case, and a property that ignored this
would be false, one that was weakened until it held would be empty. Such a property names its
exceptions: a history variable (`miscounted`, `torn`, `overlapped`, ...; `notes` in the older
modules) is set by exactly the step of the code that breaks the promise, and the property says
"unless". So the property still fails for every cause that is not named, and the history variables
are a list of what a program has to avoid. Each is explained in its module's section. Where the
exception is the very case of a hazard, so that the property states it rather than excludes it, the
hazard's `note` in `PROJECT.json` says so.

Four modules, `MCWeb`, `MCBluetooth`, `MCData` and `Libraries`, take several components that share no
state side by side: a behaviour is of one `part`, which is chosen in the first state, and the
variables of the others stand still. This checks each part completely, without multiplying the
parts' states; the constants of a part are those of its `INSTANCE ... WITH`. `Libraries` is the
system that is proved about: its constants are parameters, which `libraries.cfg` gives values.

## The network core

### AsyncTcpEvents: the event queue

`queue` is `_async_queue`, `lwip` the packet a callback of the tcpip thread is sending, `pc`,
`cur`, `first`, `hand` the async task inside `_async_service_task`, `_handle_async_event` and
`_remove_events_with_arg`, `app` the loop task inside `close()`. Sends to a full queue wait
(`portMAX_DELAY`); a `tcpip_api_call` waits until the tcpip thread is out of its callback. RECV
stands for RECV, SENT, POLL and DNS, which are queued and dispatched alike, ACCEPT for ACCEPT and
CONNECTED, which go to the front. `open` and `conn` tell for which clients LwIP can still make
callbacks and which still have a `_pcb`, so that callbacks come only when the program allows them.

`_close` is modelled by its accesses to `_pcb`: the test (:801), with which LwIP stops calling back
for the client; the sending of the CLEAR (808); the reading for `_tcp_close`, which returns at once
when `_pcb` is NULL by then (448) and waits for the tcpip thread otherwise; the clearing (813).
`closing` is the client the async task is closing. `_lwip_fin` tests `_pcb`, clears it (899), and
then sends its FIN: `nulls` says that it has still to clear it.

`EventDelivery` is what the queue promises, without a queue: a packet made stays pending until the
task takes it, once, or frees it while it handles a CLEAR of that packet's client. The property
`DeliversEvents` says the queue implements it.

Clients that the loop task may close (`AppClosed`) are left out of `NoDispatchAfterClear`: for them
the CLEAR may be handled while LwIP's last packet is still to be sent, because the async task does
not wait for the loop task's `tcp_close`. For a client closed in a callback, `_tcp_close` returns,
and with it the task, only once the tcpip thread is idle, and this is what the property rests on
(its mutant lets `tcp_close` run on the caller). There is one way round it: if `_lwip_fin` clears
`_pcb` between 801 and `_tcp_close`, nothing waits, and the CLEAR may be handled before the FIN is
sent. The FIN, and the CLEAR that `_fin` makes of it, are then dispatched for a client that may be
deleted. `late` has these clients, and the property excepts these two packets of theirs and nothing
else: no data, poll or error comes behind a CLEAR.

### AsyncTcpClient: clients, closed slots, close against FIN

`obj` holds the objects at each address of a client, with the connection they serve; `pcb` LwIP's
pcbs; `slots` and `index` are `_closed_slots` and `_closed_index`. The tcpip thread and the async
task interleave between any two accesses: the two arguments `_pcb` and `_closed_slot` of an api call
are read in either order, the purge goes packet by packet, and `_free_closed_slot` takes four steps:
it gives the slot back (`freeSlot`, :838), forgets it (`forget`, 839), loads `_closed_index`
(`load`) and stores its successor (`count`, 840). A callback sends its packet some time after it has
read the pcb's arg. The application installs its callbacks when it is handed the connection
(`Accepted`); in a callback it writes, closes, aborts or returns; its disconnect callback deletes
the client, as the server's and the web socket's do. If it was a data callback that ended in this,
`_recv` goes on with the object that is deleted (the place `deleted`): it reads `_ack_pcb` and
`_pcb` as the destructor left them (936-939) and hands the rest of a chain of pbufs to the callback
it still finds there (922-945). What the heap may have written over the object by then is left out.
Addresses of clients and of pcbs are reused as the heap would.

`SlotsExclusive` is what the slots need: at most one client holds a slot, and a slot is marked as
held exactly while one does. Between 838 and 839 a client still has the number of a slot that
`_accept` may have given to another by now; such a client is `Forgetting` and does not count as the
holder (what it can do with the number is the matter of `StrayCallsExplained`). A lost update of
`_closed_index` happens in the model; it gives two slots one stamp, which changes the order in which
slots are reused, and no property is about that order. `ArgIsLiveOwner` says that LwIP holds no
address of a deleted client, `ClientsEndOnce` that no connection is reported ended twice and no live
client is left without its connection. `StrayCallsExplained` is the honest form of what the closed
slots are for. "No call reaches the pcb of another connection" is false; the property says through
which four holes a call gets past the guard, so that a fifth would be found: the slot read as -1
next to an old `_pcb`; a slot number that a new client holds by now; `close()` on a pcb it has just
detached, which LwIP closed by itself and reused; a pcb LwIP freed with an error that `_error` has
not handled yet. A client hit by such a call may itself go on with a pcb that is gone; so may one
whose pcb is detached by another client, which `_close` (:801) and `_error` (:863) do without a
guard and outside the LwIP thread, on whatever connection has the pcb by now. The history field
`hit` marks both. `OnlyFinComesLate` says that of the events taken from the queue a FIN is the only
one that can reach a client after it was deleted (see "Seen on the way"); besides it, only the rest
of a chain of data does, in whose callback the client was deleted.

### Updater: over-the-air update

`u` holds the members of `UpdateClass`, `call` the call in progress, and `flash` every cell of the
two application partitions and of SPIFFS, each with the update and the place in its image it comes
from. The unit is half an encrypted block, and a block is programmed at once; a sector is erased,
then programmed; each of these may fail, power may be lost between them and between two blocks, and
`malloc` may fail. The boot loader and `esp_ota_set_boot_partition` validate a whole image
(external); `_partitionIsBootable` only looks at the magic byte, which is the first unit of the
first block: the updater holds that block back until `end()`.

`notes` holds "noMemory" when `malloc` of the held back block failed (write() then keeps bytes
that it does not count), and "uncheckedEnd" when `end(true)` went past a failed or missing write
without an MD5. `PartialNotBootable` and `StreamInOrder` except these, and only these.
`ErrorEndsUpdate` says that with an error set the update is over and its buffer empty, so that the
next `begin()` is not refused.

`FirmwareSlots` is the promise: the running image is not touched, the boot selection only moves to
complete images, and a restart at any time finds an image to run. `KeepsSlots` says the updater
implements it, without exception.

### AsyncWebSocketClient

`control` and `message` are the two queues; a message has its length, `sent`, `ack` and `acked` as
in the code. `RunQueue` is `_runQueue`, called by every handler. `inflight` is what TCP's send
buffer holds and `acks` the SENT events on their way; acknowledgements come for any amount in
`AckLens` or for all there is. `peer` is what the other end makes of the frames. PING and PONG
behave alike and are "OTHER". The counters of a message are unsigned in the code; here they go
below zero, and the comparisons treat a negative one as huge. Frames have fewer than 126 bytes.

`notes`: "repeated" (a control frame sent twice), "split" (a control frame acknowledged in
pieces), "failed" (a write or `malloc` that failed), "closing" (a CLOSE frame queued). After the
first three the booking of acknowledgements is off, and with it delivery; the properties except
them, and the run `websocket_stalls` shows what happens then.

### AsyncWebServerRequest

`wire` is the rest of the request, `request` the parser, `response` the `_response`, `events` the
RECV and SENT events on their way. Of a byte of the request only its kind is kept (text, a
Content-Length line, an Expect line, newline, body); of a byte of the response its place. Packets
are cut anywhere. `RequestsAssumption` says what requests are: an empty first line, or a head that
ends with its first empty line and announces a body no longer than what follows. The handler answers
when it is called, with a basic response, one of known length (file, stream or callback), an
open-ended one, or a chunked one; a source may have less or more than its length says, have nothing
yet (`RESPONSE_TRY_AGAIN`, and a failing `malloc`, which the caller treats the same), or be closed
meanwhile. `malloc(0)` is NULL.

`notes`: "failed" (a write that failed), "lateHead" (a source that had nothing when the head was
still to be sent), "cutShort" (an open-ended response whose head fills the send buffer exactly:
asked for 0 bytes, it answers 0 and counts as complete). `HandledOnce` says in which case the
handler is never called: the last packet held more than the body's rest.

## The web server's other parts (`MCWeb`)

* **WebBody**: `_parseMultipartPostByte` and `_parsePlainPostChar`, one byte of a body per step,
  with `wire` the bytes to come, `at` the parser's state, `item` the `_item...` members and
  `params` what the handler will be given. A packet may end behind any byte (`last`), and the
  upload buffer's `malloc` may fail. The bodies are those a browser encodes, with data that hold
  any beginning of a boundary. `BodyIsParsed` compares with what was encoded; `BodyEnds` says the
  handler is called at the last byte, unless the final boundary is not followed by CR LF.
* **WebTemplate**: `_fillBufferAndProcessTemplates`. The cache is read before the source and only
  ever added to in front, so the two are one sequence `rest`. `ValuesReplace` compares what went
  out with the page expanded as a whole, whatever the sizes of the chunks were; its exceptions are
  `clipped` (a value longer than what is left of the chunk, behind the last byte of the page) and
  `split` (a `%%` over two chunks, whose first half is then read as the start of a placeholder).
* **EventSource**: per connection the response's head, the message queue, the bytes in flight and
  the acknowledgements on their way. `EventsAreHeard` parses the stream as a browser does;
  `EventsGoOut` says a queue is emptied. Both except `miscounted`: acknowledgements are counted off
  the queue from the front, whatever they acknowledge, the head of the response included.
* **AsyncTcpClient** once more, with connections that end by FIN only, for its liveness property
  `EndedIsTold`: each ended connection is told to its disconnect handler, unless its FIN overtook
  its ACCEPT. (Its other instances use symmetry, which liveness does not allow; here `TcpOrder`
  has the three addresses taken in one order, which stands for every other, since no address is
  taken twice.)

## The Bluetooth libraries (`MCBluetooth`)

* **BleCharacteristic**: the value of a characteristic with the one read offset and the one list
  of prepared parts that all clients share. `LongReadIsWhole` holds for a read that no other
  client's read and no write disturbs.
* **BleNotification**: `notify()` stops at its semaphore and at each packet; clients come, go and
  confirm in between, and waits time out. The stack also reports disconnections of clients that were
  never counted; each gives the semaphore. `SuccessIsConfirmed`, and `NotifyReturns`.
* **BleCalls**, used by the next two: how the library makes a call out of the stack's events. A
  call is a sequence of steps (take a binary semaphore, ask the stack, wait), so the order and the
  early returns of each function are data that one set of actions runs.
* **BleServerSetup**: creating and starting services, characteristics and descriptors.
  `HandlesAreRight`: each object ends with the handle the stack gave it, also with two services of
  one UUID; `CallsReturn` excepts `refused`: a request the stack refuses leaves its semaphore
  taken, and the next call of that kind waits for ever.
* **BleClient**: connect, discovery, read, write, registration, on a link that may go at any
  moment. `PeerWhileConnected`, `ReadsOwnAnswer`; `CallsReturn` excepts `excused`, which is set
  where the code has no way out: a refused or failed request, and a link lost while a read or
  registration waits, or before the stack was asked. (A refused search for services returns.)
* **BleScan**: two steps of the Bluetooth task per device, against `start`, `stop`, `clearResults`
  and restarts. The devices are deleted in one step and the map is cleared in the next, and the
  Bluetooth task may record a device in between. `DevicesOwned`: no device object is deleted twice,
  and none is lost but those recorded there (`late`).
* **BleAdvData**: records put into an advertisement and a scan response, and the parser a scanner
  runs over both; `ScannerFindsWhatWasPut`.
* **BtSerial**: the queue, the task that gathers packets into its buffer and writes it, congestion
  and acknowledgements. `PeersReadInOrder` excepts, for the addressee of a byte, `carried` (a
  connection that opened onto bytes unsent on the one before); `ConnectedIsTrue` excepts `muddled`
  (a second connection came: its CLOSE clears the first one's state); `CallsReturn`.

## What a program's objects hold (`MCData`)

* **JsonText**: cJSON's parser and printer as functions over short texts of symbols, the printer
  with the growth of its buffer and the room it asks for. The state machine writes texts and damages
  printed ones; the invariants parse them. `TextRoundTrips`, `MinifyKeepsValue`, `PrintFits` (the
  header's promise of 5 bytes of slack for a buffer that may not grow). A number that is infinite or
  none is printed as null, and comes back as null.
* **CJsonTree**, **CJson**: the heap of nodes, every operation that links, detaches, replaces,
  duplicates or deletes, each allocation of which may fail. `NodesOwnedOnce`: lists are linked both
  ways and each node has one owner; items that a failed call drops are counted (`lost`), because
  the functions return nothing. `CopiesAreEqual`: a duplicate compares equal, both ways.
* **JsonVar**: a handle points at a node and its parent; handles into one tree do not know of each
  other. `OwnersAreSound`, and `NothingSlips` unless `strained` (an allocation failed, an index was
  negative, an empty object was copied to an element). `stale` handles are those a program must not
  use; `hung` is an `operator[]` that never returns. The move constructor swaps the pointers of its
  new object, which nobody has initialised, into its source: the source is `garbage`, as is what it
  is moved to next, and destroying either may delete whatever the pointers name (`wild`), after
  which nothing is promised any more.
* **WifiSockets**: clients that share descriptor and receive buffer, a server that accepts ahead.
  `begin()` may find no descriptor left. `DescriptorsOwned` excepts `lost` ones; `StreamsAreWhole`
  excepts `skipped` (a flush() bit into the stream) and `misled` (another call's `errno` spoke for
  the connection).
* **WifiSecure**: `SocketsOwned` excepts `shared` (operator= copies the number) and `leaked`;
  `BytesInOrder` excepts a byte that `connect()` kept from the connection before (`stale`).

## The libraries a program calls (`Libraries`)

* **WifiScan**: `scanNetworks`, `scanComplete`, `_scanDone` and `WiFiMulti::run`, by accesses to the
  bits and results both tasks use without a lock. `ResultsFit` (a count without its array is a read
  beyond the end) and `JoinsTheStrongest` except `givenUp` (a scan declared failed that still goes
  on; records that cannot be had leave a count of 0), `ScanningEnds` excepts `overtaken` (SCAN_DONE
  handled before the scan was marked).
* **WifiStation**: the driver's queue, `_eventCallback` by its steps, and the program's calls in
  between. `StatusIsTrue` once the task has caught up, but for `expired` (AUTH_EXPIRE leaves the
  status as it was); `OffStaysOff`; `LossIsRetried`.
* **WifiCallbacks**: the vector that is walked by index while it changes. `EveryoneHears` excepts
  `shifted` (an entry the walk had passed was erased).
* **WifiDns**: two tasks in `hostByName`. `LookupsAreOwn` excepts `overlapped`: the wait for the
  idle bit and the clearing of it are two steps, and two tasks can pass together. `LookupReturns`
  also then.
* **WifiUdp**: `PacketsLeaveWhole` excepts `torn` (longer than the buffer, or `parsePacket()` in
  between, which overwrites the peer the packet is for).
* **HttpClient**: the whole request, from `begin()` to the last byte of a body of a known size, in
  chunks, or up to the end of the connection, with redirects between two hosts. `ResponseIsOwn`
  excepts `late` (unread body bytes still under way when the kept connection is used again);
  `SentToItsHost` excepts `kept` (`begin(client, host, ...)` keeps the connection to another host);
  `RequestReturns`.
* **HttpUpdate**: `handleUpdate` and `runUpdate` by their early returns; Update is running or not,
  with the bytes it has (its detail is `Updater`). `writeStream()` fails in two ways: with an error,
  which ends the update, and without memory for the block held back (`Updater.cpp` 190-194), which
  leaves it running. `OkMeansInstalled`; `UpdaterIsFree` excepts `unended`: after a refused digest
  and after that lack of memory nobody ends the update, and no other can begin before a restart.
* **HttpsOta**: the task sets and clears bits one at a time, `status()` reads at any time, and
  `begin()` may be called twice; without memory for the event group it restarts the board, so nothing
  has begun. `StatusIsTrue`, `EndIsTold` for the only update.
* **EepromStore**: the copy in RAM against the blob in NVS, every operation on NVS one step, a
  restart between any two. `StoredIsKept` excepts `torn`: `begin()` with a larger size erases the
  blob and sets it again, and a restart or a refused set in between loses it. `CleanMeansStored`
  excepts `pointed`: a pointer of `getDataPtr()` that is used after `commit()`.
* **FsFiles**: files are their lengths; objects have stdio's buffer and a `stat` cached at times.
  `SizeIsTrue` excepts an object that was `fooled`: by opening with "w", by another object's
  writes, or by looking while stdio held bytes.
* **WebServe**: handlers and rewrites in their lists, static files with the statistics that guess at
  the compressed form first, a callback handler behind a password, and a browser that caches. The
  program changes lists and files between requests. `NotModifiedIsTrue` holds as long as two
  contents differ in size, which is what the tag is, and excepts a copy with the handler's own date
  (`Dated`): the date of `setLastModified()` is a text that no change of the file moves, and a
  browser that sends it back is told 304 whatever the file holds; `AnsweredOnce` excepts a body
  whose pieces are refused one by one; `FilesAreFound` says that what was asked for before does not
  matter to whether a file is found.

## Runs and bounds

| Run | States | What it shows | Bounds, and why they are enough |
|---|---|---|---|
| `events` | 252 649 | the queue under three threads: `TypeOK`, `PacketOwnedOnce`, `NoDispatchAfterClear`, `RemovalIsExact`, `DeliversEvents`, `EveryPacketLeaves` | 2 clients, one of them closed by the loop task; a queue of 3; 3 callbacks besides the CLEARs: a purge meets packets of its own client, of the other and of nobody, the queue fills up, and others send between any two of its calls. The proofs cover all values |
| `client_peers` | 349 142 | `SlotsExclusive`, `ArgIsLiveOwner` when peers end and reset | 3 connections on 2 client and 2 pcb addresses and 2 slots: each address and each slot is reused once while another connection lives |
| `client_closes` | 4 091 811 | `LwipTouchesLive`, `ClientsEndOnce`, `OnlyFinComesLate`, `StrayCallsExplained` when the application closes and aborts too | 3 connections on 3 client and 2 pcb addresses and 1 slot: a pcb and the slot are reused, a client address is not, and a client may find no slot; 1 data callback, which may be a chain of pbufs. The choice among slots is checked by `client_peers` |
| `update` | 576 286 | `PartialNotBootable`, `ErrorEndsUpdate`, `StreamInOrder`, `KeepsSlots` | 2 updates (the second finds what the first left in flash and members); images of 3 blocks on partitions of 2 sectors of 2 blocks, so an image ends inside a sector; sizes unknown, exact and larger |
| `websocket` | 333 824 | `PeerReadsInOrder`, `MessagesArriveUnlessNoted`, `CloseCompletes` | 2 messages, one in a shared buffer, that take two frames each; 2 control frames; 2 SENT events on their way; one failing write |
| `websocket_stalls` | - | `MessagesArrive` fails | 1 message, 1 control frame, nothing fails |
| `request` | 545 724 | `HandledOnce`, `ResponseWhole`, `ConnectionSettles` | send buffers that hold exactly the head, and the head with a part of the content; 8 responses; a GET, a POST with Expect and a stray byte, an empty first line; 1 wait of a source; 2 events on their way |
| `request_waits` | - | `NothingIsMissed` fails | one GET, two responses, nothing fails |
| `web` | 144 973 | bodies, pages, events, ends of connections | a boundary of 2 bytes and data with all its beginnings, one and two parts, an upload buffer of 2; pages of two placeholders and a byte in chunks of 1 to 5; 3 events under a send buffer of 8; 3 connections, 1 data packet while they are two |
| `bluetooth` | 381 001 | values, handles, device objects, returning calls | 2 clients with packets of 3 and 4 bytes; 2 connections; 2 services of one UUID; 2 links; 2 addresses; 3 records; 3 bytes through a buffer of 2 and a queue of 1 |
| `data` | 388 164 | JSON, descriptors | texts of 3 symbols, and printed values nested twice with one damage; 4 nodes; 2 handles; 2 clients for 2 descriptors |
| `libraries` | 237 338 | scans, status, callbacks, lookups, datagrams, requests, updates, NVS, files, handlers | no network or three; 2 calls and 1 loss; 4 registrations; 2 tasks; 1 datagram of 1 byte; 1 redirect, 2 hosts, bodies of 1 and 2 bytes; 2 bytes of an image; 2 tasks; blobs of 1 and 2 bytes; 2 objects on 2 paths; 3 handlers (one with a tag, one with a date, a callback), a file plain and compressed, 1 change. The proofs cover all values |

Deadlock checking is off where the system really stops: a client or a connection that is closed,
and a behaviour that has used up its callbacks, calls or texts. It is on for the updater, where a
call can always be made. `TypeOK` of each module is an invariant too; only that of `events` stands
in a configuration.

Fairness:
* `AsyncTcpEvents`: weak fairness of the async task, and of each send and api call that another
  thread has begun: the scheduler runs ready threads, and FreeRTOS serves the waiters of a queue.
  Nothing is assumed of the network or the sketch. `EveryPacketLeaves` is conditional on the async
  task not ending up waiting for room in the queue that it alone empties (see below).
* `AsyncTcpClient` (in `web`): weak fairness of each thread's steps in what it has begun.
* `Updater`: none; no liveness is claimed.
* `AsyncWebSocketClient`: one weak fairness for "TCP acknowledges, or the client handles an
  acknowledgement or a poll". Separate fairness is not assumed: the code does not decide between
  them, and polls come every half second as long as the connection is open.
* `AsyncWebServerRequest`: the same, and weak fairness of the receive timeout, which each poll
  tests.
* `WebTemplate`, `HttpClient`: weak fairness of the response's and the request's own steps, which
  run in one loop or one call. `EventSource`: the peer acknowledges what is in flight, and the
  async task gets to each acknowledgement.
* Bluetooth: weak fairness of the steps of a call and of the stack's answers to what it accepted;
  not of clients, links or confirmations.
* `WifiScan`, `WifiStation`, `HttpsOta`: weak fairness of the event task, of the task of the
  program inside a call, and of the driver in what it has begun (a scan, joining, DHCP).
* `WifiDns`: LwIP answers or gives up (it does after 14 s); strong fairness of each task's steps,
  because a task waiting for the idle bit is woken each time the bit is set and the other may take
  it again: FreeRTOS wakes all who wait for a bit.

## Proofs

Checked by `tlapm` with no step left out, for every value of the constants that the assumptions
allow.

`AsyncTcpEvents_proofs` (assumptions: `Capacity` a positive number, `NULL` and `Server` are no
clients). The inductive invariant `IInv` has three parts.
* `Bookkeeping`: the types, what the task holds at each program point, that packets are numbered
  below `nextId`, and that no packet is in two places. The numbers are needed to see that a new
  packet is in no place yet.
* `Rotation`: while the purge turns the queue, the packet it started from is in it
  (`FirstStaysQueued`), it is not at the head between the peek and the receive, and the packets
  of the purged client that are left lie before it. The last is only true of clients that LwIP has
  stopped calling back for, hence the third part.
* `Silence`: for a client that only the async task closes, what comes of it after each step of its
  end. Without its `_pcb` it gets no packet but the FIN that is being sent (`ForgottenIsQuiet`); from
  the test in `_close` on LwIP makes none, and the one it is sending is gone when `_tcp_close`
  returns (`ClosingIsQuiet`); a FIN, an error and a CLEAR that are queued are the last of their
  client (`FinIsLast`, `ErrorIsLast`, `ClearIsLast`), and after the CLEAR has been handled nothing is
  left (`ClearedIsGone`) - but for what is `Excused`: the FIN, and the CLEAR it makes, of a client
  whose `_close` did not wait.

From it follow `SpecTypeOK`, `SpecFirstStaysQueued`, `SpecPacketOwnedOnce`,
`SpecNoDispatchAfterClear`. `Exact` adds the order: a packet at or behind the first one has been
`Turned`; of two packets queued when the removal began, the earlier one is turned no later and, if
both are or neither is, lies ahead of the other (`InOrder`), whatever was sent in between. When the
first is at the head again all are turned, and `SpecRemovalIsExact` follows. `SpecDeliversEvents` is
the refinement: each step of a thread is a step of `EventDelivery` or a stutter under the mapping
that takes as pending the packets queued and in the hands of a sender; the invariant is needed to
see that what is taken from the queue is nowhere else.

`AsyncTcpClient_proofs` has four inductive invariants, two of them for the two halves of the runs;
the theorems about the runs' properties have the hypothesis `~Closes \/ ~Reuse`, but for
`SpecStrayCallsExplained`, which has `~Reuse`, and `SpecOnlyFinComesLate`, which has `~Reuse` and
`~Resets`, as the run that checks it.
* `Inv` (`~Closes`: connections end by the peer's FIN or an error of the stack, as in the run
  `client_peers`; addresses of clients and of pcbs may be handed out again). The argument is about
  who brings a client's end. A client with a `_pcb` has it in the pcb's argument; after that the end
  is with LwIP's callback, in the queue, or in the hands of the async task, and in one of these
  places only (`OneEnd`). An end that is on its way is that of the client that lives at the address
  (`LwipEndsLive`, `QueueEndsLive`, `TaskEndsLive`), so that nothing else deletes it meanwhile.
  With `Held` (what a thread holds at each place), `ConnsOwn` (a live client's connection is its
  own), `GoneHoldNothing` (a deleted client holds no slot, a free pcb no client) and `ToldIsOver`
  (whose disconnect callback has run is being deleted) these make `Inv`, in which `SlotsExclusive`
  and `ArgIsLiveOwner` are conjuncts of their own: that a slot is marked as held exactly while a
  client holds it needs that two clients in `_free_closed_slot` on the two cores are never the same
  client. A client between 838 and 839 holds nothing (`Holds`, `Forgetting`): giving the slot back
  and marking it as free are one step, forgetting it another that changes no holder.
* `OnceInv` (`~Reuse`: `close()` and `abort()` in any callback, at addresses that are not handed out
  again, as in the run `client_closes`). One bearer is no longer true: a FIN can follow a `close()`,
  and find the client deleted. The argument is about the moment a client is over (`Over`): it has
  had a connection and no pcb has it as its argument any more. What comes before that moment is the
  stack's, what comes after the async task's: every step but `Accept` takes from a client its `_pcb`,
  its slot or its life only if the client is over (`Recedes`), and what is over stays so. An event
  that ends a client is that of a client that is over (`OwnEvent`); what the task has read of a
  client before a call into the LwIP thread is so still, or the client is over (`TaskOwn`); and
  nobody is about to end the client that `_lwip_fin` works on (`LwipAlone`), which is why the
  callback of a client that was closed in between writes to no deleted one.
* `StrayInv` (`~Reuse`) adds to `OnceInv` what is known of a client that is over and still has its
  `_pcb` and its slot: its ERROR is on its way, or the task or `_lwip_fin` is at the step that takes
  them, or it was `hit` (`LostKnown`). `ClosedHit` says that a closed pcb that still has its client
  was closed by a call of another one, `PurgesEnded` that no purge takes the ERROR of a client that
  has its `_pcb`, and `PcbStays` that the `_pcb` the task has read is still the client's while the
  client holds its slot. A call that reaches another connection therefore finds its client in one of
  these cases, and each is a hole that `StrayCallsExplained` names. The
  attempt at this proof corrected the property: an earlier form let only calls hit a client. With
  resets and three connections TLC shows `_error` detach a pcb that LwIP has given to the next
  client already; that client is then never told of its end, keeps its `_pcb`, and calls on a third
  connection.
* `LateInv` (`~Reuse`, `~Resets`) adds to `StrayInv` the order of the queue, for
  `SpecOnlyFinComesLate`. Whether what is queued for a deleted client is still handled depends on
  which comes first, and a purge under way turns the queue; so the order is that in which the task
  will take the events (`Earlier`: those a purge has turned already come before the others, each
  group in the order of the queue), and the steps of a purge keep it (`OrderTaking`,
  `OrderTurning`). `ErrorsLast`: an error, whose client is deleted without a purge, comes after the
  data of its client. `DataPurged`: of a client that is deleted, or that the task will delete, the
  data that is queued will meet a purge first. `ClearsFirst`: the purge is in front of the
  client's FIN, and when the tcpip thread is about to send that FIN, at the head of the queue; a
  second purge never waits behind it. `DataKeepsClient`: data the tcpip thread has in its hands
  is for a client nobody is deleting, since a call that would detach it waits for that thread.
  `Installs`, `LwipFresh` and `QueueSound` say that events are queued once. `WorksLive` and
  `GoneTold`, which the theorem is about, follow step by step: what the task handles, but for a FIN,
  is for a client that lives, until `_recv` deletes it and goes on with its data.

With these, what the theorems with `~Closes \/ ~Reuse` say is not true of the code: `close()` can
run while `_lwip_fin` has closed the pcb and not sent its FIN yet. The FIN then comes after the
purge, and if the client was deleted and the next one is made at its address before the async task
is done with that FIN, it ends the next one. The hypothesis is the boundary of what the code
promises, not of the proof.

`Updater_proofs` (assumptions: sizes are positive and multiples of each other as the hardware's
are, an image fits its partition, there are two application partitions and SPIFFS is none of them).
* `SlotsInv` says that the running partition holds a complete image and is not the one an update
  writes; it is inductive because `begin()` only chooses `NextPartition` or SPIFFS and every flash
  step changes the partition of the update alone (`OthersKept`). `SpecKeepsSlots` is the refinement
  of `FirmwareSlots` that follows.
* `ErrorInv` says that with an error the update is over and its buffer is empty, and that a call
  past the point where it tests for errors has none; `SpecErrorEndsUpdate` follows.
* `ImageInv` follows the image into the buffer and onto the flash. `InCall` is what each place of a
  call has found out; `InOrder` says that what is summed and what is buffered are the image's first
  bytes, and how many: those of the calls before and the part of this one that is copied
  (`Buffered`). `SumIsOnFlash` says that what is summed is on the flash but for the first block,
  which is in `_skipBuffer`, `SectorIsErased` that a sector is programmed after it was erased, and
  `FirstIsErased` that the first block stays erased until `_enablePartition`. `EndIsChecked` and
  `SizeIsEnough` say what an `end()` has checked on its way there. `SpecStreamInOrder` and
  `SpecPartialNotBootable` follow. The latter has the hypothesis `AnnouncesAll`: `begin()` is told
  of at least the image's size, or of none, as `HTTPUpdate` and `ArduinoOTA` tell it; of a caller
  that announces less, the update ends with what was announced. `end(true)` without an MD5 is
  excepted in the property itself (see below).

`AsyncWebSocketClient_proofs` (assumptions: a frame and its head fit the send buffer, messages have
1 to 125 bytes, a queue holds at least one). `ReadingInv` relates the queue to what the other end
has read. The other end has read the messages 1 to some n whole (`ReadsWhole`); of the queue, those
and no others are sent in full (`SentAsRead`); one sent in part is the next and the other end is
exactly as far with it (`BegunAsRead`); and the queue is in order (`Ordered`) and has every message
after n (`AllQueued`). The last two are what makes the head of the queue the next one: `_runQueue`
drops the finished messages in front only, so the first that is left is either the next, or one
already read whose acknowledgement is missing (`DropKeepsQueue`, by the least index of an
unfinished message). `SpecPeerReadsInOrder` follows, and `SpecTypeOK`. A frame that TCP takes in
part only (`failed`) ends what is promised.

`AsyncWebServerRequest_proofs` (assumptions: a response has a head, buffers are not empty and hold
more than a chunk's frame where there are chunked responses, and what requests are, see above). `Inv`
has three parts.
* `Typed`: the types, and that a response counts no more bytes sent than it has, a text no others
  than it holds (`Sound`). The latter is what keeps `_ack` of a basic response from counting beyond
  its content.
* `RequestInv`: some request was sent, and there are marks in its bytes, one for each event on its
  way, such that the packets are what lies between the marks and `wire` is what lies after the last
  (`Cut`). The parser is at the first mark (`ParserAt`): in the head, with the state, the line and
  the length that the bytes before the mark give, or behind it, with the body's bytes counted. A
  byte moves the parser one place (`ParserAtByte`), a packet to the next mark (`PacketParsed`, by
  induction over the packet). That a handler is called once follows: the parser enters `END` once,
  and only at a mark behind the head with the announced bytes counted.
* `ResponseInv`: if nothing of `notes` has happened, what is made of the response beyond the bytes
  that the other end has is in the response, in order (`Keeps`): in `_head` before the content is
  begun, in `_content` of a text afterwards, and nowhere when all is written; and what is
  acknowledged so far and by the events on their way adds up to what is counted as written and is
  not in flight any more (`Acks`), unless a "100 Continue" has gone before. Each way of writing is
  shown once to keep this, whatever TCP takes (`PutSound`, `PutKeeps`), and each state's handler is
  one of them (`BasicBegins`, `BasicGoesOn`, `ContentWritten`, `ContentGoesOn`, `AbstractGoesOn`).

From it follow `SpecTypeOK`, `SpecHandledOnce` (when nothing is left to be read the first mark is at
the end, so the body was counted to its end or beyond it) and `SpecResponseWhole` (acknowledgements
only add up, so a response with as many acknowledged as written has none left on its way).

`DataInduction` has what the others cite: that a set of natural numbers that is not empty has a
least element, induction, stated for sets instead of operators, and what appending, prepending and
taking leave of the order of a sequence's elements.

`BtSerial` has its proofs in the module itself (assumptions: the buffer is not empty, connections
are numbered from 1). The bytes that wait are in the buffer, the rest of a packet that did not fit,
and the queue, in this order; `InOrder` says that they ascend, within each and from one to the next,
and lie above all that a peer has read (`Ordered`, `Below`). `ForClient` says that they were written
for the present connection, unless it took over bytes of an earlier one (`carried`). A step of the
task takes bytes off the front or drops some, which keeps both (`Keeps`, `InvDrops`), and only
`Write` adds any, at the end (`InvWrite`); `SpecPeersReadInOrder` follows, and `SpecTypeOK`.
`Linked` follows the events of a connection beside this: the bit `connected`, `_spp_client` and what
Bluedroid has of the connection agree until a second connection is attempted, which gives
`SpecConnectedIsTrue`. These are what `ValuesAreWhole` and `ObjectsAgree` of the run `bluetooth`
check of this module.

`Libraries_proofs` (assumptions: sizes and bounds are natural numbers, the buffer of a datagram holds
something, nothing of no size is stored, a server sends as much of a body as it announces, or
announces nothing; a signal's strength is an integer; a server has finitely many handlers, static
ones and callbacks, besides the one that catches all; and files of different contents have
different sizes, none of them 0: a tag is the size, so without this `NotModifiedIsTrue` is not true
of the code). `LibraryInv` has one
inductive invariant for each part; a part's steps keep its own, and all others leave its variables
alone.
* `ScanInv`: while the driver scans, or the event task handles the end of a scan, WIFI_SCANNING_BIT
  keeps other calls out, except for the call that starts it; the results are empty until the records
  come, and `_scanCount` is their number from then on. `scanComplete()` that gives up a scan that
  goes on (`givenUp`) breaks all of it.
* `ScanPicks`: the loops of `run()` start from the count that `scanNetworks()` returned. What they
  choose is `Strongest` of the networks looked at so far, by induction over the recursive function
  that is the outer loop (`SetInduction`, which states it for a set of numbers).
* `CallbackInv`: identifiers ascend with registration and are held once, and until an entry that the
  walk has passed is erased, who is due has been called or still lies before the walk. A
  registration adds at the end, and `removeEvent`, by induction over its loop, leaves the entries it
  does not erase in their order.
* `UdpInv`: what is in the transmit buffer is what was written since `beginPacket()`, for the peer it
  named, unless the packet is `torn`.
* `StationInv`: six facts (started, connected, has an address, the access point is up, what
  `status()` says, AUTH_EXPIRE came last) each follow events. `Told(f, q, was, now)` says that the
  last event of the queue `q` that concerns the fact `f` makes it what the driver is `now`, or none
  concerns it and it `was` so already; `was` is what the event at hand makes of the bit. A driver
  that posts an event for each of its changes keeps this (`FitsMore`), the task's taking and setting
  too (`FitsTake`, `StatusSays`, `BitsDo`), and with no event waiting it is what `StatusIsTrue` says.
  `StationQuiet` has what `OffStaysOff` needs: no loss that would be retried is queued or at hand
  when the program has switched the station off.
* `DnsInv`: only one task is past the idle bit (`DnsAlone`), what lwIP was asked is what that task
  waits for (`DnsAsked`), and its variable holds nothing before the answer and the answer afterwards
  (`DnsGot`), unless two passed the bit at once.
* `HttpInv`: what is on the connection, received and on the wire, is the rest of one response behind
  the tokens the call has read of it (`Comes`), and the place the call is at tells how many these
  are (`HttpRead`: in chunks, three for each byte). So the next head a request reads is its own
  answer's, and a body ends where the response does. Redirects and `end()` either read the
  rest, or close, or leave bytes that make the connection `late`. `HttpTo` says that a connection is
  to the host asked for, which `connected()` and `setURL` see to.
* `UpdateInv`: nothing is installed or returned while a call goes on, the image is whole when it is
  ended, and an update that runs while no call is between `begin()` and its end was left so by a
  refused digest or by missing memory (`unended`). `OtaInv`: a bit names an end that some task has
  come to.
* `StoreInv`: a `begin()` that extends the blob reads it, erases it and sets it. `StoreKey` says that
  the bytes it carries from one to the next are the blob's, filled up, since nothing else writes the
  blob until it is erased; `StoreHandles` that an object has a size only while its handle is open, so
  that a commit reaches NVS; `StoreCopy` is what `_dirty` stands for: a copy of the blob's size that
  is not dirty, and of which no pointer was given out, is the blob.
* `FsInv`: an object knows its file's size, or has written since, or was fooled; and what stdio
  holds for it was written by it. Every change of a file's length goes to all that have it open
  (`FsChange`).
* `ServeInv`: while a body comes, who may ask has had no answer, and who may not has had refusals
  and nothing of his has reached the program. `ServeTags`: the tag of a browser's copy, if it has
  one and not only a date, is the size of what it holds, and a body only comes for a handler that
  takes one. That a file is found does not depend on what was asked for before, since `_fileExists`
  tries both names whichever the statistics tell it to try first.

`SpecAnswersAreOwn`, `SpecStatusIsTrue`, `SpecStoredIsKept` and `SpecAnsweredOnce` follow, and, since
the invariant says in which state a step starts, the action properties `SpecActsRightly` and
`SpecFilesAreServed`.

Only model-checked:
* In `web`: `BodiesAreRead`, `PagesAreFilled`, `EventsAreHeard`, which compare with a parser, a page
  expanded or a stream read as a whole, all recursive.
* In `bluetooth`: `ValuesAreWhole` and `ObjectsAgree`, but for what they say of `BtSerial`.
* In `data`: `TextRoundTrips`, `NodesOwnedOnce`, `OwnersAreSound` and `SocketsAreSound`; cJSON's
  parser, printer and trees are recursive, and so is a read that refills its buffer.
* Every liveness property: fairness is out of the prover's reach.

## Where the code and its documents differ

Each of these is a run that TLC finds violated; `PROJECT.json` quotes both sides.

1. `websocket_stalls`: a ping that is not acknowledged is sent again with the next message; the
   bytes of the copy are credited to the message, which then waits for ever.
2. `request_waits`: a source that answers `RESPONSE_TRY_AGAIN` when it is first asked leaves the
   head to be sent without room for it; what does not fit is dropped.

## Seen on the way

What the properties except, and what was found while reading and modelling, without a run of its
own:

* The async task waits for ever when the purge (`AsyncTCP.cpp` 135, 147) or `_tcp_clear_events`
  (237) finds the queue full, since it is the only consumer: `AsyncTcpEvents` reaches that state
  (`TaskWaits`).
* A packet that LwIP sends while the purge turns the queue overtakes older packets of its
  connection; an ACCEPT sent to the front meanwhile may be overtaken by the data of its own
  connection, whose client then has no callbacks, and by its FIN: then the client is handed to the
  application after its end, and neither told of it nor deleted (`FinBeforeAccept`; three
  connections are needed, two waiting while the third is purged).
* `close()` that finds `_pcb` already cleared by `_lwip_fin` does not wait for the tcpip thread,
  and the FIN event reaches a client that is deleted: both `AsyncTcpEvents` (`late`) and
  `AsyncTcpClient` reach this, and `NoDispatchAfterClear` and `OnlyFinComesLate` allow this one.
* `_recv` uses the client after the callback that deleted it (`AsyncTCP.cpp` 936-939), and hands it
  the rest of a chain of pbufs (place `deleted`).
* Between giving a closed slot back and forgetting it (838, 839) the slot may be another client's.
* A device the Bluetooth task records between the deletion of the old ones and the clearing of the
  map is lost (`BLEScan.cpp` 213-217, 327-330).
* JSONVar's move constructor swaps uninitialised pointers into its source, whose destructor may
  delete what they name (`JSONVar.cpp` 79-92, 106-113).
* `writeStream` that gets no memory for the block held back returns with no error and the update
  still running; `HTTPUpdate` reports the failure and does not end it (`Updater.cpp` 190-194,
  `HTTPUpdate.cpp` 410).
* With `setLastModified()` a 304 is sent on an equal date, whatever the file holds by now
  (`WebHandlers.cpp` 198).
* A CLEAR outlives its client and purges the packets of a later one at the same address; `_error`
  calls `tcp_arg` on a pcb LwIP has freed before it reported the error.
* `end(true)` on a truncated image without an MD5 writes the held back block before the image is
  validated, and leaves it there; the boot selection still does not move.
* `writeStream` reads up to `remaining()`, which does not count what is in the buffer
  (`Updater.cpp` 345, `Update.h` 110), so a stream that goes on after the image overruns its size.
* `AsyncWebServerRequest::send(NULL)` closes the client, whose disconnect handler deletes the
  request, and deletes it again (`WebRequest.cpp` 714); an empty first line closes the client and
  goes on parsing (558). The model's handlers answer with a response, and the model stops there.
* The history variables above: each names a step after which a library's promise no longer holds.
  The ones a program can hardly avoid are `overtaken` and `givenUp` (a scan), `overlapped` (two
  tasks that resolve names), `torn` in `EepromStore` (power loss in a `begin()` that extends), and
  `refused` and `excused` (a Bluetooth call the stack refuses, or a link lost during it).

## Not modelled

`PROJECT.json` lists every part with its reason; for a part that is modelled in part, what is left
out. In short:

* AsyncTCP's outgoing connections, DNS, timeouts and the server's start: they use the slots and
  the queue of an accepted client, and nothing in the repository connects through `AsyncClient`.
* The web socket server's client list and shared buffers: two tasks on unsynchronised lists, whose
  every access would have to be a step. `AsyncWebSocketClient` has the message in a shared buffer.
* SPIFFSEditor, AsyncJson: I/O around handlers. BLE formats and utilities: tables and formatting.
  The board and the HC-05 text: no program.
* Inside modelled parts: the contents of data, logging, callbacks for progress, percent decoding,
  digest authentication, certificates, WPS, Ethernet, IPv6, pairing, cookies; frames of 126 bytes
  and more; the statements of a web handler interleaved with calls of other tasks.

## What is next

`AsyncTcpClient` with `connect()`, DNS and timeouts; the web socket server with two tasks on its
list; received bytes of `BtSerial`; the notifications of a `BleClient`; digest authentication with
its nonces. Of the proofs: `ObjectsAgree` of the run `bluetooth`, part by part as for `Libraries`;
and the trees of `CJson`, whose operators are recursive and would first have to be written as
functions.
