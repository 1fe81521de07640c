---------------------------- MODULE EventDelivery ----------------------------
(***************************************************************************)
(* What the event queue of AsyncTCP.cpp promises the two sides, with no    *)
(* queue: a packet a thread has made stays pending until the async task    *)
(* takes it, once, to dispatch it; or until the task, while it handles a   *)
(* CLEAR, frees it because it is a packet of the cleared client.           *)
(***************************************************************************)
EXTENDS Naturals

CONSTANTS Args,      \* the receivers of events, and NULL
          NoPacket   \* what the task handles between two packets
VARIABLES
  pending,   \* the packets made and neither dispatched nor freed
  current,   \* the packet the task is handling
  made       \* how many packets have been made: the identity of the last

Kinds == {"RECV", "FIN", "ERROR", "ACCEPT", "CLEAR"}

Init == pending = {} /\ current = NoPacket /\ made = 0

\* A callback of LwIP, a close() or _fin makes a packet.
Make ==
  /\ \E kind \in Kinds, arg \in Args :
       pending' = pending \cup {[id |-> made + 1, event |-> kind, arg |-> arg]}
  /\ made' = made + 1
  /\ UNCHANGED current

\* One packet at a time goes to the receiver, in no order promised here.
Dispatch ==
  /\ current = NoPacket
  /\ current' \in pending
  /\ pending' = pending \ {current'}
  /\ UNCHANGED made

Return ==
  /\ current # NoPacket
  /\ current' = NoPacket
  /\ UNCHANGED <<pending, made>>

\* A CLEAR frees packets of its client only.
Purge ==
  /\ current # NoPacket /\ current.event = "CLEAR"
  /\ \E p \in pending : p.arg = current.arg /\ pending' = pending \ {p}
  /\ UNCHANGED <<current, made>>

Next == Make \/ Dispatch \/ Return \/ Purge

Spec == Init /\ [][Next]_<<pending, current, made>>
=============================================================================
