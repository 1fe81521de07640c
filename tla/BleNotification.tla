--------------------------- MODULE BleNotification ---------------------------
(***************************************************************************)
(* Notifications and indications of a characteristic, and the server's     *)
(* list of clients.  The program's task runs notify(), stopping at the     *)
(* semaphore and at each packet; the Bluetooth task handles the clients'   *)
(* coming, going and confirming, an event in one step.                     *)
(***************************************************************************)
EXTENDS Integers, FiniteSets, SequencesExt

CONSTANTS
  Clients,     \* connection ids, positive numbers: the server's map is ordered by them
  MaxJoins     \* bound: connections made

VARIABLES
  peers,       \* m_connectedServersMap: the clients
  count,       \* m_connectedCount
  connId,      \* m_connId: the last client that connected, never reset
  joins,       \* connections made so far
  cccd,        \* the bits of the 2902 descriptor, shared by the clients
  conf,        \* m_semaphoreConfEvt: available or not, and the value given with it
  sender,      \* notify() in progress
  owing,       \* clients that have not confirmed an indication
  told         \* the last status, and whether the client confirmed or somebody came between

notifyVars == <<peers, count, connId, joins, cccd, conf, sender, owing, told>>

Idle == [pc |-> "idle", rest |-> <<>>, confirmed |-> FALSE, disturbed |-> FALSE]

Init ==
  /\ peers = {} /\ count = 0 /\ connId = 0 /\ joins = 0
  /\ cccd = [notify |-> FALSE, indicate |-> FALSE]
  /\ conf = [free |-> TRUE, value |-> 0] /\ sender = Idle /\ owing = {}
  /\ told = [status |-> "none", confirmed |-> FALSE, disturbed |-> FALSE]
-----------------------------------------------------------------------------
Connect(c) ==
  /\ c \notin peers /\ joins < MaxJoins /\ joins' = joins + 1
  /\ connId' = c /\ peers' = peers \cup {c} /\ count' = count + 1
  /\ UNCHANGED <<cccd, conf, sender, owing, told>>

\* The event also comes without a connection; only a client in the map counts.  Every
\* characteristic gives its semaphore, with the value of the last confirmation.
Disconnect(c) ==
  /\ connId # 0
  /\ peers' = peers \ {c} /\ count' = count - Cardinality(peers \cap {c})
  /\ conf' = [conf EXCEPT !.free = TRUE] /\ owing' = owing \ {c}
  /\ sender' = [sender EXCEPT !.disturbed = TRUE]
  /\ UNCHANGED <<connId, joins, cccd, told>>

WriteCccd(bits) == cccd' = bits /\ UNCHANGED <<peers, count, connId, joins, conf, sender, owing, told>>

\* Only the last client's confirmation counts, also one that comes too late.
Confirm(c, status) ==
  /\ c \in owing /\ owing' = owing \ {c}
  /\ conf' = (IF c = connId THEN [free |-> TRUE, value |-> status] ELSE conf)
  /\ sender' = IF sender.pc = "sent" /\ c = Head(sender.rest)
               THEN [sender EXCEPT !.confirmed = TRUE] ELSE [sender EXCEPT !.disturbed = TRUE]
  /\ UNCHANGED <<peers, count, connId, joins, cccd, told>>
-----------------------------------------------------------------------------
OnStatus(status) == told' = [status |-> status, confirmed |-> sender.confirmed, disturbed |-> sender.disturbed]
Notify(indicate) ==
  /\ sender.pc = "idle"
  /\ IF count = 0 \/ ~cccd[IF indicate THEN "indicate" ELSE "notify"]
     THEN OnStatus(IF count = 0 THEN "no client" ELSE "disabled") /\ UNCHANGED sender
     ELSE /\ sender' = [Idle EXCEPT !.pc = IF indicate THEN "indicate" ELSE "notify", !.rest = SetToSortSeq(peers, <)]
          /\ UNCHANGED told
  /\ UNCHANGED <<peers, count, connId, joins, cccd, conf, owing>>

NextPeer(pc) == sender' = IF Len(sender.rest) = 1 THEN Idle ELSE [Idle EXCEPT !.pc = pc, !.rest = Tail(sender.rest)]

\* The stack may refuse a packet, and does for a client that has gone.
Refused == conf' = [conf EXCEPT !.free = TRUE] /\ OnStatus("gatt error") /\ sender' = Idle /\ UNCHANGED owing
SendNotification ==
  /\ sender.pc = "notify"
  /\ \/ Refused
     \/ Head(sender.rest) \in peers /\ NextPeer("notify") /\ OnStatus("notified") /\ UNCHANGED <<owing, conf>>
  /\ UNCHANGED <<peers, count, connId, joins, cccd>>

TakeConf ==
  /\ sender.pc = "indicate" /\ conf.free
  /\ conf' = [conf EXCEPT !.free = FALSE] /\ sender' = [sender EXCEPT !.pc = "send"]
  /\ UNCHANGED <<peers, count, connId, joins, cccd, owing, told>>

SendIndication ==
  /\ sender.pc = "send"
  /\ \/ Refused
     \/ /\ Head(sender.rest) \in peers /\ owing' = owing \cup {Head(sender.rest)}
        /\ sender' = [sender EXCEPT !.pc = "sent"] /\ UNCHANGED <<conf, told>>
  /\ UNCHANGED <<peers, count, connId, joins, cccd>>

\* mutant: a wait that timed out does not give the semaphore back
AwaitConfKeeps(timeout) ==
  /\ sender.pc = "sent" /\ (timeout \/ conf.free)
  /\ OnStatus(IF ~conf.free THEN "timeout" ELSE IF conf.value = 0 THEN "indicated" ELSE "failure")
  /\ conf' = [conf EXCEPT !.free = FALSE] /\ NextPeer("indicate")
  /\ UNCHANGED <<peers, count, connId, joins, cccd, owing>>

\* timedWait takes the semaphore, if it can in time, and gives it in any case.
AwaitConf(timeout) ==
  /\ sender.pc = "sent" /\ (timeout \/ conf.free)
  /\ OnStatus(IF ~conf.free THEN "timeout" ELSE IF conf.value = 0 THEN "indicated" ELSE "failure")
  /\ conf' = [conf EXCEPT !.free = TRUE] /\ NextPeer("indicate")
  /\ UNCHANGED <<peers, count, connId, joins, cccd, owing>>

Send == SendNotification \/ TakeConf \/ SendIndication \/ \E timeout \in BOOLEAN : AwaitConf(timeout)
Next ==
  \/ \E c \in Clients : Connect(c) \/ Disconnect(c) \/ \E status \in {0, 1} : Confirm(c, status)
  \/ \E bits \in [notify : BOOLEAN, indicate : BOOLEAN] : WriteCccd(bits)
  \/ \E indicate \in BOOLEAN : Notify(indicate)
  \/ Send

Spec == Init /\ [][Next]_notifyVars /\ WF_notifyVars(Send)
-----------------------------------------------------------------------------
\* Every variable keeps its kind of value.
TypeOK ==
  /\ peers \subseteq Clients /\ count \in Nat /\ connId \in Clients \cup {0} /\ joins \in 0..MaxJoins
  /\ cccd \in [notify : BOOLEAN, indicate : BOOLEAN] /\ conf \in [free : BOOLEAN, value : {0, 1}]
  /\ sender.pc \in {"idle", "notify", "indicate", "send", "sent"} /\ owing \subseteq Clients

\* SUCCESS_INDICATE means that the client confirmed, unless a client disconnected
\* or confirmed something else meanwhile, or a disconnection of nobody was reported.
SuccessIsConfirmed == told.status = "indicated" => told.confirmed \/ told.disturbed

\* notify() always returns: the semaphore is never left taken, however clients
\* come and go between its steps.
NotifyReturns == sender.pc # "idle" ~> sender.pc = "idle"
=============================================================================
