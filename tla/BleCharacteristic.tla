-------------------------- MODULE BleCharacteristic --------------------------
(***************************************************************************)
(* The value of a characteristic of the GATT server, read and written by   *)
(* the connected clients, each event in one step of the Bluetooth task,    *)
(* and set by the program's task.  The clients share the value, the offset *)
(* of a long read and the parts of a prepared write.                       *)
(***************************************************************************)
EXTENDS Integers, FiniteSets, SequencesExt

CONSTANTS
  Readers,     \* the clients
  Mtus,        \* sizes of a packet
  Texts,       \* values the program and the clients write
  MaxParts,    \* bound: parts of prepared writes kept
  MaxOffset    \* bound: offset of a long read

VARIABLES
  mtu,         \* the server's map: client -> its MTU, 0 when not connected
  text,        \* m_value.m_value
  readOffset,  \* m_value.m_readOffset
  parts,       \* m_value.m_accumulation
  writeEvt,    \* m_writeEvt
  reader       \* each client's read: the bytes it has got, whether they are the value's, and
               \* whether another client's read or a write came between

charVars == <<mtu, text, readOffset, parts, writeEvt, reader>>

NotConnected == 0
Connected == {c \in Readers : mtu[c] # NotConnected}
NotReading == [pc |-> "idle", got |-> 0, right |-> TRUE]

Init ==
  /\ mtu = [c \in Readers |-> NotConnected] /\ text = <<>> /\ readOffset = 0
  /\ parts = <<>> /\ writeEvt = FALSE /\ reader = [c \in Readers |-> NotReading]

\* Client c comes, agrees on another MTU, or goes; nothing else is reset.
SetMtu(c, n) ==
  /\ n # mtu[c] /\ mtu' = [mtu EXCEPT ![c] = n] /\ reader' = [reader EXCEPT ![c] = NotReading]
  /\ UNCHANGED <<text, readOffset, parts, writeEvt>>

Disturbed(r) == IF r.pc = "reading" THEN [NotReading EXCEPT !.pc = "disturbed"] ELSE r
\* The value changes under the clients that are reading it.
Become(t) == text' = t /\ reader' = [c \in Readers |-> Disturbed(reader[c])]

\* len bytes from offset n; beyond the end of the value, whatever lies there.
Bytes(n, len) == [i \in 1..len |-> IF n + i <= Len(text) THEN text[n + i] ELSE "wild"]
\* value.length() - readOffset < maxOffset, unsigned: never so once the value is shorter than the offset.
LastPart(max) == readOffset <= Len(text) /\ Len(text) - readOffset < max
\* mutant: a value that just fills a packet is taken for whole
TooLongByOne(max) == Len(text) > max

TooLong(max) == Len(text) + 1 > max

\* Client c appends bytes to what it has; a packet that is not full is its last.
Received(c, got, bytes) ==
  LET last == Len(bytes) < mtu[c] - 1
      now == got + Len(bytes)
      right == now <= Len(text) /\ bytes = SubSeq(text, got + 1, now) /\ (last => now = Len(text))
      next == IF reader[c].pc = "disturbed" THEN IF last THEN NotReading ELSE reader[c]
              ELSE [pc |-> IF last THEN "idle" ELSE "reading", got |-> IF last THEN 0 ELSE now, right |-> right]
  IN reader' = [d \in Readers |-> IF d = c THEN next ELSE Disturbed(reader[d])]

Read(c) ==
  /\ c \in Connected /\ reader[c].pc = "idle"
  /\ LET max == mtu[c] - 1
     IN /\ readOffset' = (IF TooLong(max) THEN max ELSE readOffset)
        /\ Received(c, 0, Bytes(0, IF TooLong(max) THEN max ELSE Len(text)))
  /\ UNCHANGED <<mtu, text, parts, writeEvt>>

\* The offset the client asks for is not looked at.
ReadLong(c) ==
  /\ c \in Connected /\ reader[c].pc # "idle"
  /\ LET max == mtu[c] - 1
         len == IF LastPart(max) THEN Len(text) - readOffset ELSE max
     IN /\ readOffset' = (IF LastPart(max) THEN 0 ELSE readOffset + max) /\ readOffset' <= MaxOffset
        /\ Received(c, reader[c].got, Bytes(readOffset, len))
  /\ UNCHANGED <<mtu, text, parts, writeEvt>>

\* The client gives its read up.
StopReading(c) ==
  /\ reader[c].pc # "idle" /\ reader' = [reader EXCEPT ![c] = NotReading]
  /\ UNCHANGED <<mtu, text, readOffset, parts, writeEvt>>

Write(t) == Become(t) /\ UNCHANGED <<mtu, readOffset, parts, writeEvt>>

PrepareWrite(t) ==
  /\ Len(parts) < MaxParts /\ parts' = Append(parts, t) /\ writeEvt' = TRUE
  /\ UNCHANGED <<mtu, text, readOffset, reader>>

\* Nothing is committed, and the offset is kept, when there are no bytes.
ExecWrite(execute) ==
  /\ writeEvt /\ writeEvt' = FALSE /\ parts' = <<>>
  /\ CASE ~execute -> readOffset' = 0 /\ reader' = [c \in Readers |-> Disturbed(reader[c])] /\ UNCHANGED text
       [] execute /\ FlattenSeq(parts) = <<>> -> UNCHANGED <<text, reader, readOffset>>
       [] OTHER -> readOffset' = 0 /\ Become(FlattenSeq(parts))
  /\ UNCHANGED mtu

Next ==
  \/ \E c \in Readers, n \in Mtus \cup {NotConnected} : SetMtu(c, n)
  \/ \E c \in Readers : Read(c) \/ ReadLong(c) \/ StopReading(c)
  \/ \E t \in Texts : Write(t)
  \/ Connected # {} /\ \E t \in Texts : PrepareWrite(t)
  \/ Connected # {} /\ \E execute \in BOOLEAN : ExecWrite(execute)

Spec == Init /\ [][Next]_charVars
-----------------------------------------------------------------------------
\* Every variable keeps its kind of value and its bounds.
TypeOK ==
  /\ mtu \in [Readers -> Mtus \cup {NotConnected}] /\ readOffset \in Nat /\ writeEvt \in BOOLEAN
  /\ text \in Seq(UNION {ToSet(t) : t \in Texts}) /\ Len(parts) <= MaxParts

\* A long read that neither another client's read nor a write disturbs gets exactly
\* the value, whatever the size of a packet and whatever reads were broken off before.
LongReadIsWhole == \A c \in Readers : reader[c].right
=============================================================================
