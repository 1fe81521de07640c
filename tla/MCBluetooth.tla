----------------------------- MODULE MCBluetooth -----------------------------
(* The Bluetooth libraries, for TLC: a characteristic's value, its notifications, a   *)
(* server's setup, a client's calls, a scan, advertising data, and the serial port.   *)
(* A program uses one of them at a time here: a behaviour is of one part, the others  *)
(* stay in their first state.                                                         *)
EXTENDS Integers, Sequences

VARIABLES
    part,
    mtu, text, readOffset, parts, writeEvt, reader,
    peers, count, connId, joins, cccd, conf, sender, owing, told,
    steps, held, requests, handle, given, services, chars, bound, last, started, refused,
    todo, taken, asked, peer, gattIf, connected, link, links, found, have, code, content,
    valueRead, answer, excused,
    free, stopped, callback, repeats, results, alive, handling, radio, ended, scanner, late,
    adv, rsp, puts,
    bits, connections, client, second, queue, buffer, task, done, unacked, app, owner, got,
    carried, muddled

valueVars == <<mtu, text, readOffset, parts, writeEvt, reader>>
notifyVars == <<peers, count, connId, joins, cccd, conf, sender, owing, told>>
serverVars == <<steps, held, requests, handle, given, services, chars, bound, last, started,
                refused>>
clientVars == <<todo, taken, asked, peer, gattIf, connected, link, links, found, have, code,
                content, valueRead, answer, excused>>
scanVars == <<free, stopped, callback, repeats, results, alive, handling, radio, ended, scanner, late>>
advVars == <<adv, rsp, puts>>
serialVars == <<bits, connections, client, second, queue, buffer, task, done, unacked, app,
                owner, got, carried, muddled>>
vars == <<part, valueVars, notifyVars, serverVars, clientVars, scanVars, advVars, serialVars>>

-----------------------------------------------------------------------------
\* Packets smaller than a value, and two clients with different ones.
Char == INSTANCE BleCharacteristic WITH
    Readers <- {1, 2}, Mtus <- {3, 4}, Texts <- {<<"a">>, <<"b", "c">>}, MaxParts <- 2, MaxOffset <- 6

Notify == INSTANCE BleNotification WITH Clients <- {1, 2}, MaxJoins <- 2

\* Two services of one UUID, one with two characteristics and a descriptor.
Parent == [x \in 3..6 |-> IF x = 4 THEN 2 ELSE IF x = 6 THEN 3 ELSE 1]
Uuid == [x \in 1..6 |-> IF x \in {1, 2} THEN "s" ELSE "other"]
Server == INSTANCE BleServerSetup WITH
    Services <- {1, 2}, Chars <- {3, 4}, Descrs <- {6}, todo <- steps, taken <- held, asked <- requests

Client == INSTANCE BleClient WITH Contents <- {"a", "b"}, MaxLinks <- 2

Scan == INSTANCE BleScan WITH Addresses <- {"a1", "a2"}, Devices <- {1, 2, 3}

\* UUIDs of all three sizes; three records do not always fit one packet.
Uuids == [u |-> 2, v |-> 4, w |-> 16]
Adv == INSTANCE BleAdvData WITH Contents <- {<<>>, <<"y", "x">>}, MaxPuts <- 3

\* More bytes than the transmit buffer holds, more packets than its queue.
Serial == INSTANCE BtSerial WITH
    Handles <- {1, 2}, TxMax <- 2, TxQueue <- 1, MaxBytes <- 3, link <- connections

-----------------------------------------------------------------------------
Init ==
    /\ part \in {"value", "notify", "server", "client", "scan", "adv", "serial"}
    /\ Char!Init /\ Notify!Init /\ Server!Init
    /\ Client!Init /\ (part = "client" \/ content = "a")
    /\ Scan!Init /\ Adv!Init /\ Serial!Init

Next ==
    /\ UNCHANGED part
    /\ \/ part = "value" /\ Char!Next
       \/ part # "value" /\ UNCHANGED valueVars
    /\ \/ part = "notify" /\ Notify!Next
       \/ part # "notify" /\ UNCHANGED notifyVars
    /\ \/ part = "server" /\ Server!Next
       \/ part # "server" /\ UNCHANGED serverVars
    /\ \/ part = "client" /\ Client!Next
       \/ part # "client" /\ UNCHANGED clientVars
    /\ \/ part = "scan" /\ Scan!Next
       \/ part # "scan" /\ UNCHANGED scanVars
    /\ \/ part = "adv" /\ Adv!Next
       \/ part # "adv" /\ UNCHANGED advVars
    /\ \/ part = "serial" /\ Serial!Next
       \/ part # "serial" /\ UNCHANGED serialVars

\* Each part's own fairness, for the behaviours that are of it.
Fairness ==
    /\ WF_notifyVars(part = "notify" /\ Notify!Send)
    /\ WF_serverVars(part = "server" /\ Server!Step)
    /\ WF_serverVars(part = "server" /\ Server!Answer)
    /\ WF_clientVars(part = "client" /\ Client!Step)
    /\ WF_clientVars(part = "client" /\ Client!Answer)
    /\ WF_scanVars(part = "scan" /\ Scan!StartSteps)
    /\ WF_scanVars(part = "scan" /\ Scan!Task)
    /\ WF_scanVars(part = "scan" /\ Scan!StackEnds)
    /\ WF_serialVars(part = "serial" /\ Serial!TxStep)
    /\ WF_serialVars(part = "serial" /\ Serial!AppReturns)
Spec == Init /\ [][Next]_vars /\ Fairness

-----------------------------------------------------------------------------
\* Each part's variables keep their kinds and bounds.
TypeOK ==
    /\ part = "value" => Char!TypeOK
    /\ part = "notify" => Notify!TypeOK
    /\ part = "server" => Server!TypeOK
    /\ part = "client" => Client!TypeOK
    /\ part = "scan" => Scan!TypeOK
    /\ part = "adv" => Adv!TypeOK
    /\ part = "serial" => Serial!TypeOK

\* A value comes whole: a long read nobody disturbs returns exactly the value
\* (handleGATTServerEvent, BLECharacteristic.cpp), a read what the server answered to it
\* (BLERemoteCharacteristic::readValue), a scanner finds what was advertised, and the
\* serial port's peers read, in order, what was written for them (tx_spp).
ValuesAreWhole ==
    /\ part = "value" => Char!LongReadIsWhole
    /\ part = "client" => Client!ReadsOwnAnswer
    /\ part = "adv" => Adv!ScannerFindsWhatWasPut
    /\ part = "serial" => Serial!PeersReadInOrder

\* What the objects of a library hold is what the stack and the peer have: the handles,
\* whatever the events leave out (BLEServer, BLEService); each scanned device, once
\* (BLEScan); a confirmed indication; the map of peers; SPP_CONNECTED.
ObjectsAgree ==
    /\ part = "server" => Server!HandlesAreRight
    /\ part = "scan" => Scan!DevicesOwned
    /\ part = "notify" => Notify!SuccessIsConfirmed
    /\ part = "client" => Client!PeerWhileConnected
    /\ part = "serial" => Serial!ConnectedIsTrue

\* No call waits for ever, but for the cases the modules name: what was refused, failed
\* or lost while the call waits.
CallsReturn ==
    /\ Notify!NotifyReturns /\ Server!CallsReturn /\ Client!CallsReturn
    /\ Scan!StartReturns /\ Serial!CallsReturn
=============================================================================
