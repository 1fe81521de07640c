----------------------------- MODULE BleAdvData ------------------------------
(***************************************************************************)
(* Advertised data: a device puts records into its advertisement and its   *)
(* scan response, each of at most 31 bytes; a scanner parses the two, one  *)
(* after the other.  Lengths and types are numbers, the other bytes are    *)
(* symbols.                                                                *)
(***************************************************************************)
EXTENDS Integers, SequencesExt

CONSTANTS
  Uuids,       \* a function: UUID -> its length in bytes, 2, 4 or 16
  Contents,    \* byte sequences: names, data
  MaxPuts      \* bound: records put

VARIABLES
  adv, rsp,    \* m_payload of the advertisement and of the scan response
  puts         \* what was put and fitted, in the order of the packet

advVars == <<adv, rsp, puts>>

MaxLen == 31   \* ESP_BLE_ADV_DATA_LEN_MAX
UuidBytes(u) == [i \in 1..Uuids[u] |-> <<u, i>>]
Record(type, bytes) == <<Len(bytes) + 1, type>> \o bytes
OfWidth(u, t16, t32, t128) == CASE Uuids[u] = 2 -> t16 [] Uuids[u] = 4 -> t32 [] Uuids[u] = 16 -> t128

\* What a program can put: the kind, the UUID and the data of it.
Puts ==
  [kind : {"name", "short", "manufacturer"}, uuid : {"none"}, data : Contents]
    \cup [kind : {"complete", "partial"}, uuid : DOMAIN Uuids, data : {<<>>}]
    \cup [kind : {"serviceData"}, uuid : DOMAIN Uuids, data : Contents]
    \cup [kind : {"flags"}, uuid : {"none"}, data : {<<"f">>}] \cup [kind : {"appearance"}, uuid : {"none"}, data : {<<"a", "b">>}]
Encode(p) ==
  CASE p.kind = "flags"        -> Record(1, p.data)
    [] p.kind = "partial"      -> Record(OfWidth(p.uuid, 2, 4, 6), UuidBytes(p.uuid))
    [] p.kind = "complete"     -> Record(OfWidth(p.uuid, 3, 5, 7), UuidBytes(p.uuid))
    [] p.kind = "short"        -> Record(8, p.data)
    [] p.kind = "name"         -> Record(9, p.data)
    [] p.kind = "serviceData"  -> Record(OfWidth(p.uuid, 22, 32, 33), UuidBytes(p.uuid) \o p.data)
    [] p.kind = "appearance"   -> Record(25, p.data)
    [] p.kind = "manufacturer" -> Record(255, p.data)

Fits(payload, p) == Len(payload) + Len(Encode(p)) <= MaxLen

Init == adv = <<>> /\ rsp = <<>> /\ puts = <<>>
\* A record that does not fit is left out; the response is filled after the advertisement.
Put(p) ==
  /\ Len(puts) < MaxPuts
  /\ \/ rsp = <<>> /\ UNCHANGED rsp /\ adv' = (IF Fits(adv, p) THEN adv \o Encode(p) ELSE adv)
        /\ puts' = IF Fits(adv, p) THEN Append(puts, p) ELSE puts
     \/ adv # <<>> /\ UNCHANGED adv /\ rsp' = (IF Fits(rsp, p) THEN rsp \o Encode(p) ELSE rsp)
        /\ puts' = IF Fits(rsp, p) THEN Append(puts, p) ELSE puts
Next == \E p \in Puts : Put(p)
Spec == Init /\ [][Next]_advVars
-----------------------------------------------------------------------------
(* The scanner.                                                            *)

NoDevice == [uuids |-> <<>>, dataUuids |-> <<>>, datas |-> <<>>, name |-> <<>>, manufacturer |-> <<>>, appearance |-> <<>>, flags |-> <<>>]
Groups(bytes, n) == [i \in 1..(Len(bytes) \div n) |-> SubSeq(bytes, n * (i - 1) + 1, n * i)]
ServiceData(dev, bytes, n) ==
  IF Len(bytes) < n THEN dev
  ELSE [dev EXCEPT !.dataUuids = Append(@, SubSeq(bytes, 1, n)),
                   !.datas = IF Len(bytes) > n THEN Append(@, SubSeq(bytes, n + 1, Len(bytes))) ELSE @]
ParseRecord(dev, type, bytes) ==
  CASE type = 1         -> [dev EXCEPT !.flags = SubSeq(bytes, 1, 1)]
    [] type \in {2, 3}  -> [dev EXCEPT !.uuids = @ \o Groups(bytes, 2)]
    [] type \in {4, 5}  -> [dev EXCEPT !.uuids = @ \o Groups(bytes, 4)]
    [] type \in {6, 7}  -> [dev EXCEPT !.uuids = Append(@, SubSeq(bytes, 1, 16))]
    [] type = 9         -> [dev EXCEPT !.name = bytes]
    [] type = 22        -> ServiceData(dev, bytes, 2)
    [] type = 32        -> ServiceData(dev, bytes, 4)
    [] type = 33        -> ServiceData(dev, bytes, 16)
    [] type = 25        -> [dev EXCEPT !.appearance = SubSeq(bytes, 1, 2)]
    [] type = 255       -> [dev EXCEPT !.manufacturer = bytes]
    [] OTHER            -> dev

\* The whole packet, at least one byte; a record of length 0 is one byte of padding.
ParseAdvertisement(payload) ==
  LET parse[s \in 0..Len(payload)] ==
        IF s >= Len(payload) THEN <<>>
        ELSE LET len == payload[s + 1] IN
             (IF len = 0 THEN <<>> ELSE <<SubSeq(payload, s + 2, s + 1 + len)>>) \o parse[s + 1 + len]
      records == parse[0]
  IN FoldLeft(LAMBDA dev, r : ParseRecord(dev, r[1], Tail(r)), NoDevice, records)
-----------------------------------------------------------------------------
Put2(kinds) == SelectSeq(puts, LAMBDA p : p.kind \in kinds)
LastOf(kind) == IF Put2({kind}) = <<>> THEN <<>> ELSE Put2({kind})[Len(Put2({kind}))].data

\* Both packets are records that fit into one.
TypeOK == Len(adv) <= MaxLen /\ Len(rsp) <= MaxLen /\ Len(puts) <= MaxPuts

\* The scanner finds exactly what was put and fitted, of the two packets together:
\* every service, every service's data in its order, and the last name, data of the
\* manufacturer, appearance and flags.
ScannerFindsWhatWasPut ==
  LET dev == ParseAdvertisement(adv \o rsp)
      services == Put2({"complete", "partial"})
      datas == Put2({"serviceData"})
  IN /\ dev.uuids = [i \in DOMAIN services |-> UuidBytes(services[i].uuid)]
     /\ dev.dataUuids = [i \in DOMAIN datas |-> UuidBytes(datas[i].uuid)]
     /\ dev.datas = SelectSeq([i \in DOMAIN datas |-> datas[i].data], LAMBDA d : d # <<>>)
     /\ dev.name = LastOf("name") /\ dev.manufacturer = LastOf("manufacturer")
     /\ dev.appearance = LastOf("appearance") /\ dev.flags = LastOf("flags")
=============================================================================
