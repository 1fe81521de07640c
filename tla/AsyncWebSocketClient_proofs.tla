--------------------- MODULE AsyncWebSocketClient_proofs ---------------------
(***************************************************************************)
(* Proofs about the web socket client: its types, and that the other end   *)
(* reads the messages whole, in the order they were queued, none left out. *)
(***************************************************************************)
EXTENDS AsyncWebSocketClient, DataInduction, SequenceTheorems

(***************************************************************************)
(* The invariant.                                                          *)
(***************************************************************************)
PeerRecords == [open : Nat, got : Nat, done : Seq(Nat), whole : BOOLEAN]
Typed ==
  /\ TypeOK
  /\ peer \in PeerRecords /\ queued \in [messages : 0..MaxMessages, controls : Nat]

\* What is queued, against what the other end has read: ms is the queue, p the other end,
\* n the messages queued so far.
NoneRead(p) == Len(p.done)
ReadsWhole(p, n) ==
  /\ p.whole
  /\ p.done = [i \in 1..Len(p.done) |-> i] /\ Len(p.done) <= n
  /\ p.open # 0 => Len(p.done) < n

\* A message is sent out exactly when it is read; no other is finished.
SentAsRead(m, p, n) ==
  /\ m.id = 0 => m.status # "SENDING"
  /\ m.id # 0 => /\ m.id <= n /\ m.len >= 1 /\ m.status # "ERROR"
                 /\ m.sent = m.len <=> m.id <= Len(p.done)
  /\ m.status = "SENT" => m.sent = m.len

\* The other end is in the middle of the message sent in part, the next it will have read.
BegunAsRead(m, p) ==
  /\ 0 < m.sent /\ m.sent < m.len => m.id = Len(p.done) + 1 /\ p.open = m.id /\ p.got = m.sent
  /\ m.id = Len(p.done) + 1 /\ p.open # 0 => 0 < m.sent

\* The queue is in order, and has every message that is not read.
Ordered(ms) ==
  \A i, j \in 1..Len(ms) : i < j /\ ms[i].id # 0 /\ ms[j].id # 0 => ms[i].id < ms[j].id
AllQueued(ms, p, n) ==
  \A i \in (Len(p.done) + 1)..n : \E k \in 1..Len(ms) : ms[k].id = i

QueueIs(ms, p, n) ==
  /\ ReadsWhole(p, n)
  /\ \A k \in 1..Len(ms) : SentAsRead(ms[k], p, n) /\ BegunAsRead(ms[k], p)
  /\ Ordered(ms) /\ AllQueued(ms, p, n)

ReadingInv ==
  /\ Typed
  /\ "failed" \notin notes =>
       /\ ReadsWhole(peer, queued.messages)
       /\ Alive => QueueIs(message, peer, queued.messages)
-----------------------------------------------------------------------------
(***************************************************************************)
(* Queues of messages.                                                     *)
(***************************************************************************)
\* A queue with no more than its bytes sent of any message, and no more than it may hold.
Queues == {ms \in Seq(MessageRecords) : /\ \A k \in 1..Len(ms) : ms[k].sent <= ms[k].len
                                        /\ Len(ms) <= MaxQueued}

LEMMA Lens ==
  /\ \A x \in MessageLens \cup {0} : x \in 0..125
  /\ MessageLens \subseteq 1..125 /\ PayloadLens \subseteq 0..125 /\ SendBuf \in Nat
  /\ MaxQueued \in Nat /\ MaxMessages \in Nat /\ MaxControls \in Nat /\ MaxAcks \in Nat
  /\ HeaderLen = 2 /\ AckLens \subseteq Nat \ {0}
<1>1. \A n \in PayloadLens : n \in 0..125
  BY RoomAssumption
<1>2. MessageLens \subseteq 1..125 /\ SendBuf \in Nat /\ MaxQueued \in Nat /\ AckLens \subseteq Nat \ {0}
  BY RoomAssumption
<1>3. MaxMessages \in Nat /\ MaxControls \in Nat /\ MaxAcks \in Nat
  BY BoundsAssumption
<1>4. ASSUME NEW x \in MessageLens \cup {0} PROVE x \in 0..125
  <2>1. x \in MessageLens => x \in 1..125
    BY <1>2
  <2> QED
    BY <2>1
<1> QED
  BY <1>1, <1>2, <1>3, <1>4 DEF HeaderLen

LEMMA MessageFields ==
  ASSUME NEW m \in MessageRecords
  PROVE  /\ m.id \in 0..MaxMessages /\ m.id \in Nat /\ m.len \in 0..125 /\ m.len \in Nat /\ m.shared \in BOOLEAN /\ m.sent \in Nat
         /\ m.len \in MessageLens \cup {0}
         /\ m.ack \in Nat /\ m.acked \in Int /\ m.status \in {"SENDING", "SENT", "ERROR"}
<1>1. /\ m.id \in 0..MaxMessages /\ m.len \in MessageLens \cup {0} /\ m.shared \in BOOLEAN
      /\ m.sent \in Nat /\ m.ack \in Nat /\ m.acked \in Int
      /\ m.status \in {"SENDING", "SENT", "ERROR"}
  BY DEF MessageRecords
<1>2. \A x \in MessageLens \cup {0} : x \in 0..125
  BY Lens
<1>3. \A x \in 0..MaxMessages : x \in Nat
  BY Lens
<1>4. \A x \in 0..125 : x \in Nat
  OBVIOUS
<1> QED
  BY <1>1, <1>2, <1>3, <1>4

LEMMA PeerFields ==
  ASSUME NEW p \in PeerRecords
  PROVE  /\ p.open \in Nat /\ p.got \in Nat /\ p.done \in Seq(Nat) /\ p.whole \in BOOLEAN
         /\ Len(p.done) \in Nat
BY DEF PeerRecords

\* What DropFinished leaves is the queue from its first message that is not finished.
LEMMA DropFinishedIs ==
  ASSUME NEW ms \in Seq(MessageRecords)
  PROVE  \E n \in 0..Len(ms) :
           /\ DropFinished(ms) = SubSeq(ms, n + 1, Len(ms))
           /\ \A i \in 1..n : Finished(ms[i])
           /\ n < Len(ms) => ~Finished(ms[n + 1])
<1> DEFINE P(k) == /\ \A i \in 1..k : Finished(ms[i])
                   /\ k < Len(ms) => ~Finished(ms[k + 1])
           T == {k \in 0..Len(ms) : k < Len(ms) => ~Finished(ms[k + 1])}
<1>0. Len(ms) \in Nat
  OBVIOUS
<1>1. Len(ms) \in T /\ T \in SUBSET Nat
  BY <1>0
<1>2. PICK n \in T : \A k \in T : n <= k
  BY <1>1, LeastExists
<1>3. ASSUME NEW i \in 1..n PROVE Finished(ms[i])
  <2>0. n \in 0..Len(ms)
    BY <1>2
  <2>1. i - 1 \in 0..Len(ms) /\ ~(n <= i - 1) /\ i - 1 < Len(ms) /\ (i - 1) + 1 = i
    BY <1>0, <2>0
  <2>2. i - 1 \notin T
    BY <1>2, <2>1
  <2> QED
    BY <2>1, <2>2
<1>4. n \in 0..Len(ms) /\ P(n)
  BY <1>2, <1>3
<1> DEFINE c == CHOOSE k \in 0..Len(ms) : P(k)
<1>5. c \in 0..Len(ms) /\ P(c)
  BY <1>4
<1>6. DropFinished(ms) = SubSeq(ms, c + 1, Len(ms))
  BY DEF DropFinished
<1> QED
  BY <1>5, <1>6

\* A queue without its finished messages is one still: what it loses is read.
LEMMA DropKeepsQueue ==
  ASSUME NEW ms \in Queues
  PROVE  /\ DropFinished(ms) \in Queues
         /\ DropFinished(ms) # <<>> => DropFinished(ms)[1].status = "SENDING"
         /\ \A p \in PeerRecords, n \in Nat : QueueIs(ms, p, n) => QueueIs(DropFinished(ms), p, n)
<1> DEFINE d == DropFinished(ms)
<1>0. ms \in Seq(MessageRecords) /\ Len(ms) \in Nat /\ Len(ms) <= MaxQueued
  BY DEF Queues
<1>1. PICK n \in 0..Len(ms) :
        /\ d = SubSeq(ms, n + 1, Len(ms))
        /\ \A i \in 1..n : Finished(ms[i])
        /\ n < Len(ms) => ~Finished(ms[n + 1])
  BY <1>0, DropFinishedIs
<1> HIDE DEF d
<1>2. /\ d \in Seq(MessageRecords) /\ Len(d) = Len(ms) - n
      /\ \A k \in 1..Len(d) : d[k] = ms[n + k] /\ n + k \in 1..Len(ms)
  <2>1. \A i \in (n + 1)..Len(ms) : ms[i] \in MessageRecords
    BY <1>0
  <2>2. /\ d \in Seq(MessageRecords)
        /\ Len(d) = IF n + 1 <= Len(ms) THEN Len(ms) - (n + 1) + 1 ELSE 0
        /\ \A i \in 1..Len(ms) - (n + 1) + 1 : d[i] = ms[(n + 1) + i - 1]
    BY <1>0, <1>1, <2>1, SubSeqProperties
  <2>3. Len(d) = Len(ms) - n /\ Len(ms) - (n + 1) + 1 = Len(ms) - n
    BY <1>0, <2>2
  <2>4. \A k \in 1..Len(ms) - n : (n + 1) + k - 1 = n + k /\ n + k \in 1..Len(ms)
    BY <1>0
  <2> QED
    BY <2>2, <2>3, <2>4
<1>3. d \in Queues
  BY <1>0, <1>2, Lens DEF Queues
<1>4. d # <<>> => d[1].status = "SENDING"
  <2> SUFFICES ASSUME d # <<>> PROVE d[1].status = "SENDING"
    OBVIOUS
  <2>1. 1 \in 1..Len(d) /\ n < Len(ms)
    BY <1>0, <1>2
  <2> QED
    BY <1>1, <1>2, <2>1 DEF Finished
<1>5. ASSUME NEW p \in PeerRecords, NEW q \in Nat, QueueIs(ms, p, q) PROVE QueueIs(d, p, q)
  <2>1. ReadsWhole(p, q) /\ \A k \in 1..Len(d) : SentAsRead(d[k], p, q) /\ BegunAsRead(d[k], p)
    BY <1>2, <1>5 DEF QueueIs
  <2>2. Ordered(d)
    <3> SUFFICES ASSUME NEW i \in 1..Len(d), NEW j \in 1..Len(d),
                        i < j, d[i].id # 0, d[j].id # 0
                 PROVE  d[i].id < d[j].id
      BY DEF Ordered
    <3>1. n + i < n + j
      OBVIOUS
    <3>2. /\ n + i \in 1..Len(ms) /\ n + j \in 1..Len(ms)
          /\ ms[n + i].id # 0 /\ ms[n + j].id # 0 /\ d[i] = ms[n + i] /\ d[j] = ms[n + j]
      BY <1>2
    <3>3. Ordered(ms)
      BY <1>5 DEF QueueIs
    <3>4. ms[n + i].id < ms[n + j].id
      BY <3>1, <3>2, <3>3 DEF Ordered
    <3> QED
      BY <3>2, <3>4
  <2>3. AllQueued(d, p, q)
    <3> SUFFICES ASSUME NEW i \in (Len(p.done) + 1)..q PROVE \E k \in 1..Len(d) : d[k].id = i
      BY DEF AllQueued
    <3>1. PICK k \in 1..Len(ms) : ms[k].id = i
      BY <1>5 DEF QueueIs, AllQueued
    <3>2. ms[k].sent # ms[k].len /\ ms[k].status \in {"SENDING", "SENT", "ERROR"}
          /\ ms[k].id # 0 /\ i \in Nat
      BY <1>0, <1>5, <3>1, MessageFields, PeerFields DEF QueueIs, SentAsRead
    <3>3. ~Finished(ms[k])
      BY <1>0, <1>5, <3>1, <3>2 DEF QueueIs, SentAsRead, Finished
    <3>4. k \notin 1..n
      BY <1>1, <3>3
    <3>5. k - n \in 1..Len(d) /\ n + (k - n) = k
      BY <1>0, <1>2, <3>4
    <3> QED
      BY <1>2, <3>1, <3>5
  <2> QED
    BY <2>1, <2>2, <2>3 DEF QueueIs
<1> QED
  BY <1>3, <1>4, <1>5 DEF d

\* A queue is one still when only what is acknowledged of its messages changes, and when a
\* message is marked finished that is sent out.
SentAlike(ms, cs) ==
  /\ Len(cs) = Len(ms)
  /\ \A k \in 1..Len(ms) :
       /\ cs[k].id = ms[k].id /\ cs[k].len = ms[k].len /\ cs[k].sent = ms[k].sent
       /\ cs[k].status = ms[k].status \/ (cs[k].status = "SENT" /\ ms[k].sent = ms[k].len)

LEMMA SentAlikeKeepsQueue ==
  ASSUME NEW ms \in Queues, NEW cs \in Seq(MessageRecords), SentAlike(ms, cs)
  PROVE  /\ cs \in Queues
         /\ \A p \in PeerRecords, n \in Nat : QueueIs(ms, p, n) => QueueIs(cs, p, n)
<1>1. cs \in Queues
  BY DEF Queues, SentAlike
<1>2. ASSUME NEW p \in PeerRecords, NEW n \in Nat, QueueIs(ms, p, n) PROVE QueueIs(cs, p, n)
  <2>1. ASSUME NEW k \in 1..Len(cs) PROVE SentAsRead(cs[k], p, n) /\ BegunAsRead(cs[k], p)
    <3>1. k \in 1..Len(ms) /\ SentAsRead(ms[k], p, n) /\ BegunAsRead(ms[k], p)
      BY <1>2, <2>1 DEF SentAlike, QueueIs
    <3> QED
      BY <3>1 DEF SentAlike, SentAsRead, BegunAsRead
  <2>2. Ordered(cs) /\ AllQueued(cs, p, n)
    BY <1>2 DEF SentAlike, QueueIs, Ordered, AllQueued
  <2> QED
    BY <1>2, <2>1, <2>2 DEF QueueIs
<1> QED
  BY <1>1, <1>2

\* One message of a queue is replaced, a record by a record.
LEMMA Replaced ==
  ASSUME NEW ms \in Queues, ms # <<>>, NEW m \in MessageRecords
  PROVE  /\ [ms EXCEPT ![1] = m] \in Seq(MessageRecords)
         /\ Len([ms EXCEPT ![1] = m]) = Len(ms) /\ 1 \in 1..Len(ms)
         /\ [ms EXCEPT ![1] = m][1] = m
         /\ \A k \in 1..Len(ms) : k # 1 => [ms EXCEPT ![1] = m][k] = ms[k]
<1>1. ms \in Seq(MessageRecords) /\ 1 \in 1..Len(ms)
  BY DEF Queues
<1> QED
  BY <1>1, ExceptSeq

LEMMA CreditKeepsQueue ==
  ASSUME NEW ms \in Queues, ms # <<>>, NEW n \in Int
  PROVE  /\ [ms EXCEPT ![1] = Acked(@, n)] \in Queues
         /\ \A p \in PeerRecords, q \in Nat :
              QueueIs(ms, p, q) => QueueIs([ms EXCEPT ![1] = Acked(@, n)], p, q)
<1> DEFINE m == ms[1]
           g == m.acked + n
           a == [m EXCEPT !.acked = g]
<1>1. m \in MessageRecords
  BY DEF Queues
<1>2. g \in Int
  BY <1>1, MessageFields
<1>3. Acked(m, n) = IF AckedAll(a) THEN [a EXCEPT !.status = "SENT"] ELSE a
  BY DEF Acked
<1> HIDE DEF g, m
<1>4. /\ a \in MessageRecords /\ a.id = m.id /\ a.len = m.len /\ a.sent = m.sent
      /\ a.status = m.status
  BY <1>1, <1>2 DEF MessageRecords
<1>5. AckedAll(a) => m.sent = m.len
  BY <1>4 DEF AckedAll
<1> HIDE DEF a
<1> DEFINE b == Acked(m, n)
<1>6. /\ b \in MessageRecords /\ b.id = m.id /\ b.len = m.len /\ b.sent = m.sent
      /\ b.status = m.status \/ (b.status = "SENT" /\ m.sent = m.len)
  <2>1. CASE AckedAll(a)
    <3>1. b = [a EXCEPT !.status = "SENT"]
      BY <1>3, <2>1
    <3> QED
      BY <1>4, <1>5, <2>1, <3>1 DEF MessageRecords
  <2>2. CASE ~AckedAll(a)
    BY <1>3, <1>4, <2>2
  <2> QED
    BY <2>1, <2>2
<1>7. [ms EXCEPT ![1] = Acked(@, n)] = [ms EXCEPT ![1] = b]
  BY DEF m
<1> HIDE DEF b
<1>8. SentAlike(ms, [ms EXCEPT ![1] = b])
  BY <1>6, Replaced DEF SentAlike, m
<1> QED
  BY <1>6, <1>7, <1>8, Replaced, SentAlikeKeepsQueue

\* A message joins the queue at its end; one without data is none that is to be read.
LEMMA AppendKeepsQueue ==
  ASSUME NEW ms \in Queues, Len(ms) < MaxQueued, NEW m \in MessageRecords, m.sent = 0,
         NEW q \in Nat, NEW r \in Nat, NEW p \in PeerRecords, QueueIs(ms, p, q),
         \/ r = q + 1 /\ m.id = r /\ m.status = "SENDING" /\ m.len >= 1
         \/ r = q /\ m.id = 0 /\ m.status = "ERROR"
  PROVE  QueueIs(Append(ms, m), p, r)
<1> DEFINE a == Append(ms, m)
<1>0. ms \in Seq(MessageRecords) /\ Len(ms) \in Nat
  BY DEF Queues
<1>1. /\ a \in Seq(MessageRecords) /\ Len(a) = Len(ms) + 1
      /\ \A k \in 1..Len(ms) : a[k] = ms[k]
      /\ a[Len(ms) + 1] = m
  BY <1>0, AppendProperties
<1> HIDE DEF a
<1>2. \A k \in 1..Len(a) : k \in 1..Len(ms) \/ (k = Len(ms) + 1 /\ a[k] = m)
  BY <1>0, <1>1
<1>3. ReadsWhole(p, r) /\ r >= q
  BY PeerFields DEF QueueIs, ReadsWhole
<1>4. ASSUME NEW k \in 1..Len(ms) PROVE SentAsRead(ms[k], p, r) /\ BegunAsRead(ms[k], p)
  <2>1. ms[k].id \in Nat
    BY <1>0, MessageFields
  <2> QED
    BY <1>3, <2>1 DEF QueueIs, SentAsRead
<1>5. SentAsRead(m, p, r) /\ BegunAsRead(m, p)
  BY PeerFields, MessageFields DEF QueueIs, ReadsWhole, SentAsRead, BegunAsRead
<1>6. Ordered(a)
  <2> SUFFICES ASSUME NEW i \in 1..Len(a), NEW j \in 1..Len(a), i < j, a[i].id # 0, a[j].id # 0
               PROVE  a[i].id < a[j].id
    BY DEF Ordered
  <2>1. i \in 1..Len(ms)
    BY <1>0, <1>1
  <2>2. CASE j \in 1..Len(ms)
    BY <1>1, <2>1, <2>2 DEF QueueIs, Ordered
  <2>3. CASE j \notin 1..Len(ms)
    <3>1. a[j] = m /\ m.id = q + 1
      BY <1>2, <2>3
    <3>2. ms[i].id <= q /\ ms[i].id \in Nat
      BY <1>0, <1>1, <2>1, MessageFields DEF QueueIs, SentAsRead
    <3> QED
      BY <1>1, <2>1, <3>1, <3>2
  <2> QED
    BY <2>2, <2>3
<1>7. AllQueued(a, p, r)
  <2> SUFFICES ASSUME NEW i \in (Len(p.done) + 1)..r PROVE \E k \in 1..Len(a) : a[k].id = i
    BY DEF AllQueued
  <2>1. CASE i <= q
    <3>1. i \in (Len(p.done) + 1)..q
      BY <2>1, PeerFields
    <3>2. PICK k \in 1..Len(ms) : ms[k].id = i
      BY <3>1 DEF QueueIs, AllQueued
    <3>3. k \in 1..Len(a)
      BY <1>0, <1>1
    <3> QED
      BY <1>1, <3>2, <3>3
  <2>2. CASE ~(i <= q)
    <3>1. i = r /\ m.id = i
      BY <2>2, PeerFields
    <3>2. Len(ms) + 1 \in 1..Len(a)
      BY <1>0, <1>1
    <3> QED
      BY <1>1, <3>1, <3>2
  <2> QED
    BY <2>1, <2>2
<1>8. ASSUME NEW k \in 1..Len(a) PROVE SentAsRead(a[k], p, r) /\ BegunAsRead(a[k], p)
  BY <1>1, <1>2, <1>4, <1>5
<1> QED
  BY <1>3, <1>6, <1>7, <1>8 DEF QueueIs, a

\* The next part of the message at the head goes out, and the other end reads it: it is the
\* message it is in the middle of, or the next one and it is in the middle of none.
LEMMA PartKeepsQueue ==
  ASSUME NEW ms \in Queues, ms # <<>>, ms[1].status = "SENDING", ms[1].sent # ms[1].len,
         NEW p \in PeerRecords, NEW q \in Nat, QueueIs(ms, p, q),
         NEW n \in Nat \ {0}, ms[1].sent + n <= ms[1].len,
         NEW c \in MessageRecords, c.id = ms[1].id, c.len = ms[1].len,
         c.sent = ms[1].sent + n, c.status = ms[1].status
  PROVE  /\ Reads(p, ms[1], ms[1].sent = 0, n) \in PeerRecords
         /\ QueueIs([ms EXCEPT ![1] = c], Reads(p, ms[1], ms[1].sent = 0, n), q)
<1> DEFINE m == ms[1]
           R == Len(p.done)
           r == Reads(p, m, m.sent = 0, n)
           cs == [ms EXCEPT ![1] = c]
           s == m.sent + n
<1>0. /\ ms \in Seq(MessageRecords) /\ 1 \in 1..Len(ms) /\ m \in MessageRecords /\ R \in Nat
      /\ m.sent <= m.len /\ m.sent \in Nat /\ m.len \in Nat /\ m.id \in Nat /\ s \in Nat
      /\ Len(ms) \in Nat
  <2>1. ms \in Seq(MessageRecords) /\ 1 \in 1..Len(ms) /\ m.sent <= m.len /\ Len(ms) \in Nat
    BY DEF Queues
  <2>2. m \in MessageRecords
    BY <2>1
  <2>3. m.sent \in Nat /\ m.len \in Nat /\ m.id \in Nat
    BY <2>2, MessageFields
  <2>4. R \in Nat
    BY PeerFields
  <2>5. s \in Nat
    BY <2>3
  <2> QED
    BY <2>1, <2>2, <2>3, <2>4, <2>5
<1>1. m.id # 0 /\ m.id <= q /\ ~(m.id <= R) /\ SentAsRead(m, p, q) /\ BegunAsRead(m, p)
  BY <1>0 DEF QueueIs, SentAsRead
<1>2. ASSUME NEW k \in 1..Len(ms), k # 1 PROVE ms[k].id \in Nat /\ (ms[k].id = 0 \/ ms[k].id > m.id)
  <2>1. ms[k].id \in Nat
    BY <1>0, MessageFields
  <2>2. ms[k].id # 0 => m.id < ms[k].id
    BY <1>0, <1>1, <1>2 DEF QueueIs, Ordered
  <2> QED
    BY <2>1, <2>2
<1>3. m.id = R + 1
  <2>1. R + 1 \in (Len(p.done) + 1)..q
    BY <1>0, <1>1
  <2>2. PICK k \in 1..Len(ms) : ms[k].id = R + 1
    BY <2>1 DEF QueueIs, AllQueued
  <2>3. k # 1 => R + 1 > m.id
    BY <1>0, <1>2, <2>2
  <2> QED
    BY <1>0, <1>1, <2>2, <2>3
<1>4. IF m.sent = 0 THEN p.open = 0 ELSE p.open = m.id /\ p.got = m.sent
  <2>1. m.sent = 0 => p.open = 0
    BY <1>0, <1>1, <1>3 DEF BegunAsRead
  <2>2. m.sent # 0 => p.open = m.id /\ p.got = m.sent
    BY <1>0, <1>1 DEF BegunAsRead
  <2> QED
    BY <2>1, <2>2
<1>5. ReadsWhole(p, q)
  BY DEF QueueIs
<1>6. /\ cs \in Seq(MessageRecords) /\ Len(cs) = Len(ms) /\ cs[1] = c
      /\ \A k \in 1..Len(ms) : k # 1 => cs[k] = ms[k]
  BY Replaced
<1>7. /\ \A k \in 1..Len(ms) : cs[k].id = ms[k].id
      /\ Ordered(cs)
  <2>1. \A k \in 1..Len(ms) : cs[k].id = ms[k].id
    BY <1>6
  <2> QED
    BY <1>6, <2>1 DEF Ordered, QueueIs
<1>8. c.status = "SENDING" /\ c.id = R + 1 /\ c.sent = s /\ c.len = m.len /\ s <= m.len /\ 0 < s
      /\ m.len >= 1
  BY <1>0, <1>3
<1>9. ASSUME NEW k \in 1..Len(ms), k # 1
      PROVE  /\ SentAsRead(ms[k], p, q) /\ BegunAsRead(ms[k], p)
             /\ ms[k].id \in Nat /\ ms[k].id # R + 1
             /\ ms[k].id <= R + 1 <=> ms[k].id <= R
  <2>1. SentAsRead(ms[k], p, q) /\ BegunAsRead(ms[k], p)
    BY DEF QueueIs
  <2>2. ms[k].id \in Nat /\ ms[k].id # R + 1
    BY <1>0, <1>2, <1>3, <1>9
  <2> QED
    BY <1>0, <2>1, <2>2
<1> HIDE DEF m, R, s
<1>10. CASE s = m.len
  <2> DEFINE d == Append(p.done, m.id)
  <2>0. r = [open |-> 0, got |-> 0, done |-> d, whole |-> TRUE]
    BY <1>4, <1>5, <1>10 DEF Reads, ReadsWhole, s, m
  <2>1. d \in Seq(Nat) /\ Len(d) = R + 1 /\ d = [i \in 1..(R + 1) |-> i]
    <3>1. p.done \in Seq(Nat) /\ p.done = [i \in 1..R |-> i]
      BY <1>5, PeerFields DEF ReadsWhole, R
    <3>2. /\ d \in Seq(Nat) /\ Len(d) = R + 1 /\ d[R + 1] = R + 1
          /\ \A i \in 1..R : d[i] = p.done[i]
      BY <1>0, <1>3, <3>1, AppendProperties DEF R
    <3>3. \A i \in 1..(R + 1) : d[i] = i
      <4>1. \A i \in 1..R : d[i] = i
        BY <3>1, <3>2
      <4>2. \A i \in 1..(R + 1) : i \in 1..R \/ i = R + 1
        BY <1>0
      <4> QED
        BY <3>2, <4>1, <4>2
    <3>4. d = [i \in 1..(R + 1) |-> d[i]]
      BY <1>0, <3>2
    <3> QED
      BY <3>2, <3>3, <3>4
  <2> HIDE DEF d
  <2> HIDE DEF r
  <2>2. /\ r \in PeerRecords /\ r.open = 0 /\ r.got = 0 /\ r.done = d /\ r.whole = TRUE
        /\ Len(r.done) = R + 1
    BY <2>0, <2>1 DEF PeerRecords
  <2>3. ReadsWhole(r, q)
    BY <1>0, <1>1, <1>3, <2>1, <2>2 DEF ReadsWhole
  <2>4. SentAsRead(c, r, q) /\ BegunAsRead(c, r)
    BY <1>0, <1>1, <1>3, <1>8, <1>10, <2>2 DEF SentAsRead, BegunAsRead
  <2>5. ASSUME NEW k \in 1..Len(ms), k # 1 PROVE SentAsRead(ms[k], r, q) /\ BegunAsRead(ms[k], r)
    <3>1. SentAsRead(ms[k], r, q)
      BY <1>9, <2>2, <2>5 DEF SentAsRead, R
    <3>2. BegunAsRead(ms[k], r)
      BY <1>9, <2>2, <2>5 DEF BegunAsRead, R
    <3> QED
      BY <3>1, <3>2
  <2>6. \A k \in 1..Len(cs) : SentAsRead(cs[k], r, q) /\ BegunAsRead(cs[k], r)
    BY <1>6, <2>4, <2>5
  <2>7. AllQueued(cs, r, q)
    <3> SUFFICES ASSUME NEW i \in (R + 2)..q PROVE \E k \in 1..Len(cs) : cs[k].id = i
      BY <1>0, <2>2 DEF AllQueued
    <3>1. i \in (Len(p.done) + 1)..q
      BY <1>0 DEF R
    <3>2. PICK k \in 1..Len(ms) : ms[k].id = i
      BY <3>1 DEF QueueIs, AllQueued
    <3> QED
      BY <1>6, <1>7, <3>2
  <2> QED
    BY <1>7, <2>2, <2>3, <2>6, <2>7 DEF QueueIs, m, r
<1>11. CASE s # m.len
  <2>0. r = [open |-> m.id, got |-> s, done |-> p.done, whole |-> TRUE]
    BY <1>4, <1>5, <1>11 DEF Reads, ReadsWhole, s, m
  <2> HIDE DEF r
  <2>2. /\ r \in PeerRecords /\ r.open = m.id /\ r.got = s /\ r.done = p.done /\ r.whole = TRUE
        /\ Len(r.done) = R
    BY <1>0, <2>0, PeerFields DEF PeerRecords, R
  <2>3. ReadsWhole(r, q)
    BY <1>0, <1>1, <1>3, <1>5, <2>2 DEF ReadsWhole
  <2>4. SentAsRead(c, r, q) /\ BegunAsRead(c, r)
    BY <1>0, <1>1, <1>3, <1>8, <1>11, <2>2 DEF SentAsRead, BegunAsRead
  <2>5. ASSUME NEW k \in 1..Len(ms), k # 1 PROVE SentAsRead(ms[k], r, q) /\ BegunAsRead(ms[k], r)
    <3>1. SentAsRead(ms[k], r, q)
      BY <1>9, <2>2, <2>5 DEF SentAsRead
    <3>2. BegunAsRead(ms[k], r)
      BY <1>9, <2>2, <2>5 DEF BegunAsRead, R
    <3> QED
      BY <3>1, <3>2
  <2>6. \A k \in 1..Len(cs) : SentAsRead(cs[k], r, q) /\ BegunAsRead(cs[k], r)
    BY <1>6, <2>4, <2>5
  <2>7. AllQueued(cs, r, q)
    BY <1>6, <1>7, <2>2 DEF AllQueued, QueueIs
  <2> QED
    BY <1>7, <2>2, <2>3, <2>6, <2>7 DEF QueueIs, m, r
<1> QED
  BY <1>10, <1>11

LEMMA AppendIsQueue ==
  ASSUME NEW ms \in Queues, Len(ms) < MaxQueued, NEW m \in MessageRecords, m.sent = 0
  PROVE  Append(ms, m) \in Queues
<1>0. ms \in Seq(MessageRecords) /\ Len(ms) \in Nat /\ \A k \in 1..Len(ms) : ms[k].sent <= ms[k].len
  BY DEF Queues
<1> DEFINE a == Append(ms, m)
<1>1. /\ a \in Seq(MessageRecords) /\ Len(a) = Len(ms) + 1
      /\ \A k \in 1..Len(ms) : a[k] = ms[k]
      /\ a[Len(ms) + 1] = m
  BY <1>0, AppendProperties
<1> HIDE DEF a
<1>2. ASSUME NEW k \in 1..Len(a) PROVE a[k].sent <= a[k].len
  <2>1. CASE k \in 1..Len(ms)
    BY <1>0, <1>1, <2>1
  <2>2. CASE k = Len(ms) + 1
    BY <1>1, <2>2, MessageFields
  <2> QED
    BY <1>0, <1>1, <2>1, <2>2
<1>3. Len(a) <= MaxQueued
  BY <1>0, <1>1, Lens
<1> QED
  BY <1>1, <1>2, <1>3 DEF Queues, a
-----------------------------------------------------------------------------
(***************************************************************************)
(* Sending.                                                                *)
(***************************************************************************)
Exceptions == {"repeated", "split", "failed", "closing"}

\* How a handler leaves the queues, for q messages queued so far.
Kept(q) ==
  /\ control' \in Seq(ControlRecords) /\ message' \in Queues
  /\ inflight' \in 0..SendBuf /\ peer' \in PeerRecords /\ notes' \in SUBSET Exceptions
  /\ "failed" \notin notes' => QueueIs(message', peer', q)

LEMMA OutcomeIs ==
  ASSUME NEW n \in Nat, NEW o \in Outcomes(n)
  PROVE  /\ o.taken \in 0..(HeaderLen + n) /\ o.ok \in BOOLEAN
         /\ o.ok => o.taken = HeaderLen + n
<1>1. \/ o = [taken |-> HeaderLen + n, ok |-> TRUE]
      \/ \E k \in {0, HeaderLen, HeaderLen + n} : o = [taken |-> k, ok |-> FALSE]
  BY DEF Outcomes
<1>2. {0, HeaderLen, HeaderLen + n} \subseteq 0..(HeaderLen + n)
  BY DEF HeaderLen
<1>3. CASE o = [taken |-> HeaderLen + n, ok |-> TRUE]
  BY <1>2, <1>3
<1>4. ASSUME NEW k \in {0, HeaderLen, HeaderLen + n}, o = [taken |-> k, ok |-> FALSE]
      PROVE  o.taken \in 0..(HeaderLen + n) /\ o.ok = FALSE
  BY <1>2, <1>4
<1> QED
  BY <1>1, <1>3, <1>4

\* A control frame is only sent when the send buffer has room for all of it.
LEMMA SendControlKeepsQueue ==
  ASSUME inflight \in 0..SendBuf, peer \in PeerRecords,
         NEW cs \in Seq(ControlRecords), cs # <<>>, Window > ControlLen(Head(cs)) - 1,
         NEW ms \in Queues, NEW ns \in SUBSET Exceptions, NEW q \in Nat,
         "failed" \notin ns => QueueIs(ms, peer, q),
         SendControl(cs, ms, ns)
  PROVE  Kept(q)
<1>1. PICK o \in Outcomes(cs[1].len) :
        /\ control' = [cs EXCEPT ![1].finished = TRUE] /\ message' = ms
        /\ inflight' = inflight + o.taken
        /\ notes' = ns \cup (IF cs[1].finished THEN {"repeated"} ELSE {})
                       \cup (IF o.ok THEN {} ELSE {"failed"})
        /\ peer' = peer
  BY DEF SendControl
<1>2. cs[1] \in ControlRecords /\ cs[1].len \in 0..125 /\ Head(cs) = cs[1] /\ 1 \in 1..Len(cs)
  <2>1. cs[1] \in ControlRecords /\ Head(cs) = cs[1] /\ 1 \in 1..Len(cs)
    OBVIOUS
  <2> QED
    BY <2>1, Lens DEF ControlRecords
<1>3. control' \in Seq(ControlRecords)
  <2> DEFINE c == [cs[1] EXCEPT !.finished = TRUE]
  <2>1. c \in ControlRecords
    BY <1>2 DEF ControlRecords
  <2>2. control' = [cs EXCEPT ![1] = c]
    BY <1>1
  <2> HIDE DEF c
  <2> QED
    BY <1>2, <2>1, <2>2, ExceptSeq
<1>4. inflight' \in 0..SendBuf
  <2> DEFINE l == cs[1].len
  <2>0. \A x \in 0..125 : x \in Nat
    OBVIOUS
  <2>1. l \in Nat
    BY <1>2, <2>0, Zenon
  <2>2. ControlLen(cs[1]) = l + 2
    BY DEF ControlLen, HeaderLen
  <2> HIDE DEF l
  <2>3. o.taken \in 0..(2 + l)
    BY <2>1, OutcomeIs, Lens DEF l
  <2>4. Window > (l + 2) - 1
    BY <1>2, <2>2
  <2>5. inflight \in Nat /\ inflight <= SendBuf /\ SendBuf \in Nat
    BY Lens
  <2>6. inflight + (2 + l) <= SendBuf
    BY <2>1, <2>4, <2>5 DEF Window, Space
  <2> QED
    BY <1>1, <2>1, <2>3, <2>5, <2>6
<1>5. notes' \in SUBSET Exceptions /\ ("failed" \notin notes' => "failed" \notin ns)
  BY <1>1 DEF Exceptions
<1> QED
  BY <1>1, <1>3, <1>4, <1>5 DEF Kept

LEMMA PeerIs ==
  ASSUME NEW o \in Nat, NEW g \in Nat, NEW d \in Seq(Nat), NEW w \in BOOLEAN
  PROVE  [open |-> o, got |-> g, done |-> d, whole |-> w] \in PeerRecords
BY DEF PeerRecords

\* The message at the head waits, is finished, or has its next part sent, as much as the
\* send buffer has room for.
LEMMA SendMessageKeepsQueue ==
  ASSUME inflight \in 0..SendBuf, peer \in PeerRecords,
         NEW cs \in Seq(ControlRecords), NEW ms \in Queues, ms # <<>>,
         ms[1].status = "SENDING", Window > 0,
         NEW ns \in SUBSET Exceptions, NEW q \in Nat,
         "failed" \notin ns => QueueIs(ms, peer, q),
         SendMessage(cs, ms, ns)
  PROVE  Kept(q)
<1> DEFINE m == ms[1]
           n == Smaller(m.len - m.sent, Window)
<1>0. /\ m \in MessageRecords /\ Head(ms) = m /\ m.sent \in Nat /\ m.len \in Nat /\ m.ack \in Nat
      /\ m.sent <= m.len
  <2>1. m \in MessageRecords /\ Head(ms) = m /\ m.sent <= m.len
    BY DEF Queues
  <2> QED
    BY <2>1, MessageFields
<1>1. CASE Unsent(cs, ms, ns)
  BY <1>1 DEF Unsent, Kept
<1>2. CASE /\ m.sent = m.len
           /\ Unsent(cs, [ms EXCEPT ![1].status =
                            IF m.shared \/ m.acked = m.ack THEN "SENT" ELSE @], ns)
  <2> DEFINE s == IF m.shared \/ m.acked = m.ack THEN "SENT" ELSE m.status
             c == [m EXCEPT !.status = s]
  <2>1. s \in {"SENT", "SENDING"} /\ (s = "SENT" \/ s = m.status)
    OBVIOUS
  <2>2. message' = [ms EXCEPT ![1] = c]
    BY <1>2 DEF Unsent
  <2> HIDE DEF s, m
  <2>3. c \in MessageRecords /\ c.id = m.id /\ c.len = m.len /\ c.sent = m.sent /\ c.status = s
    BY <1>0, <2>1 DEF MessageRecords
  <2> HIDE DEF c
  <2>4. SentAlike(ms, [ms EXCEPT ![1] = c])
    BY <1>2, <2>1, <2>3, Replaced DEF SentAlike, m
  <2>5. message' \in Queues /\ (QueueIs(ms, peer, q) => QueueIs(message', peer, q))
    BY <2>2, <2>3, <2>4, Replaced, SentAlikeKeepsQueue
  <2> QED
    BY <1>2, <2>5 DEF Unsent, Kept
<1>3. CASE /\ m.sent # m.len
           /\ \E o \in Outcomes(n) :
                LET counted == IF o.ok THEN n ELSE 0 IN
                  /\ control' = cs
                  /\ message' = [ms EXCEPT ![1].sent = @ + counted,
                                           ![1].ack = @ + counted + HeaderLen]
                  /\ inflight' = inflight + o.taken
                  /\ peer' = IF o.ok THEN Reads(peer, m, m.sent = 0, n) ELSE peer
                  /\ notes' = ns \cup IF o.ok THEN {} ELSE {"failed"}
  <2>1. /\ n \in Nat \ {0} /\ m.sent + n <= m.len /\ n <= Window /\ Window \in Nat
        /\ inflight + (2 + n) <= SendBuf
    <3>1. Window \in Nat \ {0} /\ inflight + 8 + Window <= SendBuf
      BY Lens DEF Window, Space
    <3>2. m.len - m.sent \in Nat \ {0}
      BY <1>0, <1>3
    <3>3. n \in Nat \ {0} /\ n <= m.len - m.sent /\ n <= Window
      BY <3>1, <3>2 DEF Smaller
    <3> HIDE DEF n, m
    <3>4. m.sent + n <= m.len
      BY <1>0, <3>3
    <3>5. inflight + (2 + n) <= SendBuf
      BY <3>1, <3>3, Lens
    <3> QED
      BY <3>1, <3>3, <3>4, <3>5
  <2> HIDE DEF n
  <2>2. PICK o \in Outcomes(n) :
          /\ control' = cs
          /\ message' = [ms EXCEPT ![1].sent = @ + (IF o.ok THEN n ELSE 0),
                                   ![1].ack = @ + (IF o.ok THEN n ELSE 0) + HeaderLen]
          /\ inflight' = inflight + o.taken
          /\ peer' = IF o.ok THEN Reads(peer, m, m.sent = 0, n) ELSE peer
          /\ notes' = ns \cup IF o.ok THEN {} ELSE {"failed"}
    BY <1>3
  <2>3. o.taken \in 0..(2 + n) /\ o.ok \in BOOLEAN
    BY <2>1, OutcomeIs, Lens
  <2>4. inflight' \in 0..SendBuf /\ notes' \in SUBSET Exceptions
        /\ ("failed" \notin notes' => o.ok /\ "failed" \notin ns)
    <3>1. inflight' \in 0..SendBuf
      BY <2>1, <2>2, <2>3, Lens
    <3> QED
      BY <2>2, <2>3, <3>1 DEF Exceptions
  <2> DEFINE counted == IF o.ok THEN n ELSE 0
             s == m.sent + counted
             a == m.ack + counted + HeaderLen
             c == [m EXCEPT !.sent = s, !.ack = a]
  <2>5. message' = [ms EXCEPT ![1] = c]
    BY <2>2
  <2>6. s \in Nat /\ a \in Nat /\ s <= m.len /\ (o.ok => s = m.sent + n)
    <3>1. counted \in Nat /\ m.sent + counted <= m.len /\ (o.ok => counted = n)
      BY <1>0, <2>1
    <3>2. m.sent \in Nat /\ m.ack \in Nat
      BY <1>0 DEF MessageRecords
    <3> HIDE DEF counted, m
    <3>3. s \in Nat /\ s <= m.len /\ (o.ok => s = m.sent + n)
      BY <3>1, <3>2
    <3>4. a \in Nat
      BY <3>1, <3>2 DEF HeaderLen
    <3> QED
      BY <3>3, <3>4
  <2> HIDE DEF counted, s, a, m
  <2>7. /\ c \in MessageRecords /\ c.id = m.id /\ c.len = m.len /\ c.sent = s
        /\ c.status = m.status
    BY <1>0, <2>6 DEF MessageRecords
  <2> HIDE DEF c
  <2>8. message' \in Queues
    <3>1. /\ message' \in Seq(MessageRecords) /\ Len(message') = Len(ms) /\ message'[1] = c
          /\ \A k \in 1..Len(ms) : k # 1 => message'[k] = ms[k]
      BY <2>5, <2>7, Replaced
    <3> QED
      BY <2>6, <2>7, <3>1 DEF Queues
  <2>9. ASSUME "failed" \notin notes'
        PROVE  peer' \in PeerRecords /\ QueueIs(message', peer', q)
    <3>1. QueueIs(ms, peer, q) /\ o.ok /\ peer' = Reads(peer, m, m.sent = 0, n)
      BY <2>2, <2>4, <2>9
    <3>2. c.sent = m.sent + n /\ m.sent # m.len
      BY <1>3, <2>6, <2>7, <3>1
    <3> QED
      BY <1>0, <2>1, <2>5, <2>7, <3>1, <3>2, PartKeepsQueue DEF m
  <2>10. peer' \in PeerRecords
    <3>1. CASE o.ok
      <4>1. /\ peer' = Reads(peer, m, m.sent = 0, n) /\ m.id \in Nat /\ m.sent + n \in Nat
        BY <1>0, <2>1, <2>2, <3>1, MessageFields
      <4>2. Append(peer.done, m.id) \in Seq(Nat) /\ peer.done \in Seq(Nat) /\ peer.whole \in BOOLEAN
        BY <4>1, PeerFields, AppendProperties
      <4>0. 0 \in Nat
        OBVIOUS
      <4> DEFINE w == peer.whole /\ (IF m.sent = 0 THEN peer.open = 0
                                                   ELSE peer.open = m.id /\ peer.got = m.sent)
      <4>3. w \in BOOLEAN
        BY <4>2
      <4>4. \/ peer' = [open |-> 0, got |-> 0, done |-> Append(peer.done, m.id), whole |-> w]
            \/ peer' = [open |-> m.id, got |-> m.sent + n, done |-> peer.done, whole |-> w]
        BY <4>1 DEF Reads
      <4> HIDE DEF w
      <4> QED
        <5>1. [open |-> 0, got |-> 0, done |-> Append(peer.done, m.id), whole |-> w] \in PeerRecords
          BY <4>0, <4>2, <4>3, PeerIs
        <5>2. [open |-> m.id, got |-> m.sent + n, done |-> peer.done, whole |-> w] \in PeerRecords
          BY <4>1, <4>2, <4>3, PeerIs
        <5> QED
          BY <4>4, <5>1, <5>2, Zenon
    <3>2. CASE ~o.ok
      BY <2>2, <3>2
    <3> QED
      BY <3>1, <3>2
  <2> QED
    BY <2>2, <2>4, <2>8, <2>9, <2>10 DEF Kept
<1> QED
  BY <1>0, <1>1, <1>2, <1>3 DEF SendMessage

LEMMA RunQueueKeepsQueue ==
  ASSUME inflight \in 0..SendBuf, peer \in PeerRecords,
         NEW cs \in Seq(ControlRecords), NEW ms \in Queues,
         NEW ns \in SUBSET Exceptions, NEW q \in Nat,
         "failed" \notin ns => QueueIs(ms, peer, q),
         RunQueue(cs, ms, ns)
  PROVE  Kept(q)
<1> DEFINE d == DropFinished(ms)
<1>1. /\ d \in Queues
      /\ d # <<>> => d[1].status = "SENDING"
      /\ "failed" \notin ns => QueueIs(d, peer, q)
  BY DropKeepsQueue
<1>2. \/ cs # <<>> /\ Window > ControlLen(Head(cs)) - 1 /\ SendControl(cs, d, ns)
      \/ d # <<>> /\ Window > 0 /\ SendMessage(cs, d, ns)
      \/ Unsent(cs, d, ns)
  BY DEF RunQueue
<1> HIDE DEF d
<1>3. CASE Unsent(cs, d, ns)
  BY <1>1, <1>3 DEF Unsent, Kept
<1>4. CASE cs # <<>> /\ Window > ControlLen(Head(cs)) - 1 /\ SendControl(cs, d, ns)
  BY <1>1, <1>4, SendControlKeepsQueue
<1>5. CASE d # <<>> /\ Window > 0 /\ SendMessage(cs, d, ns)
  BY <1>1, <1>5, SendMessageKeepsQueue
<1> QED
  BY <1>2, <1>3, <1>4, <1>5

LEMMA RunIfCanSendKeepsQueue ==
  ASSUME inflight \in 0..SendBuf, peer \in PeerRecords,
         NEW cs \in Seq(ControlRecords), NEW ms \in Queues,
         NEW ns \in SUBSET Exceptions, NEW q \in Nat,
         "failed" \notin ns => QueueIs(ms, peer, q),
         RunIfCanSend(cs, ms, ns)
  PROVE  Kept(q)
<1>1. CASE RunQueue(cs, ms, ns)
  BY <1>1, RunQueueKeepsQueue
<1>2. CASE Unsent(cs, ms, ns)
  BY <1>2 DEF Unsent, Kept
<1> QED
  BY <1>1, <1>2 DEF RunIfCanSend
-----------------------------------------------------------------------------
(***************************************************************************)
(* The invariant is kept, one action at a time.                            *)
(***************************************************************************)
\* The state the invariant speaks of, in the parts the actions change.
LEMMA InvIs ==
  ASSUME ReadingInv
  PROVE  /\ control \in Seq(ControlRecords) /\ message \in Queues
         /\ inflight \in 0..SendBuf /\ peer \in PeerRecords /\ notes \in SUBSET Exceptions
         /\ status \in {"CONNECTED", "DISCONNECTING", "GONE"}
         /\ acks \in Seq(1..SendBuf) /\ Len(acks) <= MaxAcks
         /\ queued \in [messages : 0..MaxMessages, controls : Nat]
         /\ queued.messages \in 0..MaxMessages /\ queued.messages \in Nat /\ queued.controls \in Nat
         /\ Alive /\ "failed" \notin notes => QueueIs(message, peer, queued.messages)
<1>1. /\ control \in Seq(ControlRecords) /\ message \in Seq(MessageRecords)
      /\ \A i \in DOMAIN message : message[i].sent <= message[i].len
      /\ Len(message) <= MaxQueued
  BY DEF ReadingInv, Typed, TypeOK
<1>2. message \in Queues
  BY <1>1 DEF Queues
<1>3. queued \in [messages : 0..MaxMessages, controls : Nat]
  BY DEF ReadingInv, Typed
<1>4. queued.messages \in 0..MaxMessages /\ queued.messages \in Nat /\ queued.controls \in Nat
  <2>1. \A x \in 0..MaxMessages : x \in Nat
    BY Lens
  <2> QED
    BY <1>3, <2>1
<1> QED
  BY <1>1, <1>2, <1>3, <1>4 DEF ReadingInv, Typed, TypeOK, Exceptions

LEMMA KeptIsInv ==
  ASSUME Kept(queued'.messages), queued' \in [messages : 0..MaxMessages, controls : Nat],
         status' \in {"CONNECTED", "DISCONNECTING", "GONE"},
         acks' \in Seq(1..SendBuf), Len(acks') <= MaxAcks
  PROVE  ReadingInv'
<1>1. TypeOK'
  <2>1. /\ message' \in Seq(MessageRecords) /\ Len(message') <= MaxQueued
        /\ \A i \in DOMAIN message' : message'[i].sent <= message'[i].len
    BY DEF Kept, Queues
  <2> QED
    BY <2>1 DEF TypeOK, Kept, Exceptions
<1>2. Typed'
  BY <1>1 DEF Typed, Kept
<1> QED
  BY <1>2 DEF ReadingInv, Kept, QueueIs

LEMMA DeletedKeepsInv ==
  ASSUME ReadingInv, Deleted PROVE ReadingInv'
<1>1. /\ status' = "GONE" /\ control' = <<>> /\ message' = <<>> /\ inflight' = 0 /\ acks' = <<>>
      /\ peer' = peer /\ queued' = queued /\ notes' = notes
  BY DEF Deleted
<1>2. TypeOK'
  <2>1. 0 \in 0..SendBuf /\ 0 <= MaxAcks /\ 0 <= MaxQueued /\ Len(<<>>) = 0
    BY Lens
  <2>2. /\ message' \in Seq(MessageRecords) /\ control' \in Seq(ControlRecords)
        /\ acks' \in Seq(1..SendBuf) /\ Len(message') = 0 /\ Len(acks') = 0
        /\ \A i \in DOMAIN message' : message'[i].sent <= message'[i].len
    BY <1>1
  <2> QED
    BY <1>1, <2>1, <2>2 DEF ReadingInv, Typed, TypeOK
<1>3. Typed' /\ ~Alive'
  BY <1>1, <1>2 DEF ReadingInv, Typed, Alive
<1>4. "failed" \notin notes => ReadsWhole(peer, queued.messages)
  BY DEF ReadingInv
<1> QED
  BY <1>1, <1>3, <1>4 DEF ReadingInv

LEMMA InitInv == Init => ReadingInv
<1> SUFFICES ASSUME Init PROVE ReadingInv
  OBVIOUS
<1>1. /\ control = <<>> /\ message = <<>> /\ status = "CONNECTED" /\ inflight = 0 /\ acks = <<>>
      /\ peer = [open |-> 0, got |-> 0, done |-> <<>>, whole |-> TRUE]
      /\ queued = [messages |-> 0, controls |-> 0] /\ notes = {}
  BY DEF Init
<1>2. TypeOK
  <2>1. 0 \in 0..SendBuf /\ 0 <= MaxAcks /\ 0 <= MaxQueued /\ Len(<<>>) = 0
    BY Lens
  <2>2. /\ message \in Seq(MessageRecords) /\ control \in Seq(ControlRecords)
        /\ acks \in Seq(1..SendBuf) /\ Len(message) = 0 /\ Len(acks) = 0
        /\ \A i \in DOMAIN message : message[i].sent <= message[i].len
    BY <1>1
  <2> QED
    BY <1>1, <2>1, <2>2 DEF TypeOK
<1>3. Typed
  <2>1. 0 \in Nat /\ 0 \in 0..MaxMessages /\ <<>> \in Seq(Nat)
    BY Lens
  <2>2. peer \in PeerRecords
    BY <1>1, <2>1, PeerIs
  <2> QED
    BY <1>1, <1>2, <2>1, <2>2 DEF Typed
<1>4. ReadsWhole(peer, queued.messages)
  <2>1. peer.done = <<>> /\ Len(<<>>) = 0 /\ peer.whole = TRUE /\ peer.open = 0
        /\ queued.messages = 0
    BY <1>1
  <2>2. <<>> = [i \in 1..0 |-> i]
    OBVIOUS
  <2> QED
    BY <2>1, <2>2 DEF ReadsWhole
<1>5. QueueIs(message, peer, queued.messages)
  <2>1. peer.done = <<>> /\ Len(<<>>) = 0 /\ queued.messages = 0 /\ message = <<>>
    BY <1>1
  <2>2. Len(message) = 0 /\ Len(peer.done) = 0
    BY <2>1
  <2> QED
    BY <1>4, <2>1, <2>2 DEF QueueIs, Ordered, AllQueued
<1> QED
  BY <1>3, <1>4, <1>5 DEF ReadingInv

LEMMA OnAckKeepsInv ==
  ASSUME ReadingInv, OnAck PROVE ReadingInv'
<1> DEFINE first == control # <<>> /\ Head(control).finished
           n == AckedOfMessages(Head(acks))
           cs == IF first THEN Tail(control) ELSE control
           ms == IF n # 0 /\ message # <<>> THEN [message EXCEPT ![1] = Acked(@, n)] ELSE message
           ns == IF n < 0 THEN notes \cup {"split"} ELSE notes
<1>1. CASE Deleted
  BY <1>1, DeletedKeepsInv
<1>2. CASE /\ RunQueue(cs, ms, ns) /\ acks' = Tail(acks) /\ UNCHANGED <<status, queued>>
  <2>1. Alive /\ acks # <<>> /\ Head(acks) \in Int
    BY InvIs, Lens DEF OnAck
  <2>2. n \in Int
    <3>1. \A x \in PayloadLens : x \in Int
      BY Lens
    <3>2. control # <<>> => Head(control).len \in Int
      <4>1. control # <<>> => Head(control) \in ControlRecords
        BY InvIs, HeadTailProperties
      <4> QED
        BY <3>1, <4>1 DEF ControlRecords
    <3> QED
      BY <2>1, <3>2 DEF AckedOfMessages, ControlLen, HeaderLen
  <2>3. cs \in Seq(ControlRecords)
    BY InvIs, HeadTailProperties
  <2>4. ms \in Queues /\ (QueueIs(message, peer, queued.messages)
                            => QueueIs(ms, peer, queued.messages))
    BY <2>2, InvIs, CreditKeepsQueue
  <2>5. ns \in SUBSET Exceptions /\ ("failed" \notin ns => "failed" \notin notes)
    BY InvIs DEF Exceptions
  <2>6. acks' \in Seq(1..SendBuf) /\ Len(acks') <= MaxAcks
    BY <1>2, <2>1, InvIs, HeadTailProperties, Lens
  <2> HIDE DEF n, cs, ms, ns
  <2>7. Kept(queued.messages)
    BY <1>2, <2>1, <2>3, <2>4, <2>5, InvIs, RunQueueKeepsQueue
  <2> QED
    BY <1>2, <2>6, <2>7, InvIs, KeptIsInv
<1> QED
  BY <1>1, <1>2 DEF OnAck

LEMMA OnPollKeepsInv ==
  ASSUME ReadingInv, OnPoll PROVE ReadingInv'
<1>1. Alive /\ RunQueue(control, message, notes) /\ UNCHANGED <<status, acks, queued>>
  BY DEF OnPoll
<1>2. Kept(queued.messages)
  BY <1>1, InvIs, RunQueueKeepsQueue
<1> QED
  BY <1>1, <1>2, InvIs, KeptIsInv

\* A control frame joins its queue, whatever the status becomes.
LEMMA QueueControlKeepsInv ==
  ASSUME ReadingInv, Alive, NEW op \in {"CLOSE", "OTHER"}, NEW n \in PayloadLens,
         QueueControl(op, n), status' \in {"CONNECTED", "DISCONNECTING", "GONE"}, acks' = acks
  PROVE  ReadingInv'
<1> DEFINE cs == Append(control, Control(op, n))
           ns == IF op = "CLOSE" THEN notes \cup {"closing"} ELSE notes
<1>1. RunIfCanSend(cs, message, ns) /\ queued' = [queued EXCEPT !.controls = @ + 1]
  BY DEF QueueControl
<1>2. cs \in Seq(ControlRecords)
  <2>1. Control(op, n) \in ControlRecords
    BY DEF Control, ControlRecords
  <2> QED
    BY <2>1, InvIs, AppendProperties
<1>3. ns \in SUBSET Exceptions /\ ("failed" \notin ns => "failed" \notin notes)
  BY InvIs DEF Exceptions
<1>4. queued' \in [messages : 0..MaxMessages, controls : Nat] /\ queued'.messages = queued.messages
  <2> DEFINE c == queued.controls + 1
  <2>1. c \in Nat /\ queued' = [queued EXCEPT !.controls = c]
    BY <1>1, InvIs
  <2> HIDE DEF c
  <2> QED
    BY <2>1, InvIs
<1> HIDE DEF cs, ns
<1>5. Kept(queued.messages)
  BY <1>1, <1>2, <1>3, InvIs, RunIfCanSendKeepsQueue
<1> QED
  BY <1>4, <1>5, InvIs, KeptIsInv

LEMMA QueueMessageKeepsInv ==
  ASSUME ReadingInv, NEW len \in MessageLens, QueueMessage(len) PROVE ReadingInv'
<1>0. /\ Alive /\ queued.messages < MaxMessages /\ UNCHANGED <<status, acks>>
      /\ len \in 1..125
  BY Lens DEF QueueMessage, Alive
<1>1. CASE /\ Len(message) < MaxQueued /\ queued' = [queued EXCEPT !.messages = @ + 1]
           /\ RunIfCanSend(control, Append(message, NextMessage(len)), notes)
  <2> DEFINE q == queued.messages + 1
             m == [id |-> q, len |-> len, sent |-> 0, ack |-> 0, acked |-> 0,
                   shared |-> q \in SharedMessages, status |-> "SENDING"]
  <2>1. NextMessage(len) = m /\ queued' = [queued EXCEPT !.messages = q]
    BY <1>1 DEF NextMessage
  <2>2. q \in Nat /\ q \in 0..MaxMessages
    BY <1>0, InvIs, Lens
  <2> HIDE DEF q
  <2>3. m \in MessageRecords
    BY <2>2 DEF MessageRecords
  <2>4. m.sent = 0 /\ m.id = q /\ m.status = "SENDING" /\ m.len >= 1
    BY <1>0
  <2>5. queued' \in [messages : 0..MaxMessages, controls : Nat] /\ queued'.messages = q
    BY <2>1, <2>2, InvIs
  <2> HIDE DEF m
  <2>6. Append(message, m) \in Queues
    BY <1>1, <2>3, <2>4, InvIs, AppendIsQueue
  <2>7. "failed" \notin notes => QueueIs(Append(message, m), peer, q)
    BY <1>0, <1>1, <2>2, <2>3, <2>4, InvIs, AppendKeepsQueue DEF q
  <2>8. Kept(q)
    BY <1>1, <2>1, <2>2, <2>6, <2>7, InvIs, RunIfCanSendKeepsQueue
  <2> QED
    BY <1>0, <2>5, <2>8, InvIs, KeptIsInv
<1>2. CASE /\ Len(message) < MaxQueued /\ queued' = queued
           /\ RunIfCanSend(control, Append(message, [NextMessage(0) EXCEPT !.id = 0, !.status = "ERROR"]),
                           notes)
  <2> DEFINE m == [NextMessage(0) EXCEPT !.id = 0, !.status = "ERROR"]
             b == queued.messages + 1 \in SharedMessages
             i == queued.messages + 1
             r == [id |-> i, len |-> 0, sent |-> 0, ack |-> 0, acked |-> 0,
                   shared |-> b, status |-> "SENDING"]
  <2>1. m = [r EXCEPT !.id = 0, !.status = "ERROR"] /\ b \in BOOLEAN
    BY DEF NextMessage
  <2> HIDE DEF b, i, m
  <2>2. m \in MessageRecords /\ m.sent = 0 /\ m.id = 0 /\ m.status = "ERROR"
    <3>1. m = [id |-> 0, len |-> 0, sent |-> 0, ack |-> 0, acked |-> 0,
               shared |-> b, status |-> "ERROR"]
      BY <2>1
    <3>2. 0 \in 0..MaxMessages /\ 0 \in MessageLens \cup {0}
      BY Lens
    <3> QED
      BY <2>1, <3>1, <3>2 DEF MessageRecords
  <2>3. Append(message, m) \in Queues
    BY <1>2, <2>2, InvIs, AppendIsQueue
  <2>4. "failed" \notin notes => QueueIs(Append(message, m), peer, queued.messages)
    BY <1>0, <1>2, <2>2, InvIs, AppendKeepsQueue
  <2>5. Kept(queued.messages)
    BY <1>2, <2>3, <2>4, InvIs, RunIfCanSendKeepsQueue DEF m
  <2> QED
    BY <1>0, <1>2, <2>5, InvIs, KeptIsInv
<1>3. CASE RunIfCanSend(control, message, notes) /\ queued' = queued
  <2>1. Kept(queued.messages)
    BY <1>0, <1>3, InvIs, RunIfCanSendKeepsQueue
  <2> QED
    BY <1>0, <1>3, <2>1, InvIs, KeptIsInv
<1> QED
  BY <1>1, <1>2, <1>3 DEF QueueMessage

LEMMA AcknowledgeKeepsInv ==
  ASSUME ReadingInv, Acknowledge PROVE ReadingInv'
<1>1. /\ Len(acks) < MaxAcks /\ inflight > 0
      /\ UNCHANGED <<control, message, status, peer, queued, notes>>
  BY DEF Acknowledge
<1>2. PICK n \in {k \in AckLens : k < inflight} \cup {inflight} :
        inflight' = inflight - n /\ acks' = Append(acks, n)
  BY DEF Acknowledge
<1>3. n \in 1..SendBuf /\ inflight' \in 0..SendBuf
  BY <1>1, <1>2, InvIs, Lens
<1>4. acks' \in Seq(1..SendBuf) /\ Len(acks') <= MaxAcks
  BY <1>1, <1>2, <1>3, InvIs, AppendProperties, Lens
<1> QED
  BY <1>1, <1>3, <1>4 DEF ReadingInv, Typed, TypeOK, Alive

LEMMA NextKeepsInv == ReadingInv /\ [Next]_vars => ReadingInv'
<1> SUFFICES ASSUME ReadingInv, [Next]_vars PROVE ReadingInv'
  OBVIOUS
<1>1. CASE OnAck
  BY <1>1, OnAckKeepsInv
<1>2. CASE OnPoll
  BY <1>2, OnPollKeepsInv
<1>3. CASE Acknowledge
  BY <1>3, AcknowledgeKeepsInv
<1>4. CASE ConnectionEnds
  BY <1>4, DeletedKeepsInv DEF ConnectionEnds
<1>5. ASSUME NEW n \in PayloadLens, OnPing(n) \/ OnClose(n) \/ Ping(n) \/ Close(n)
      PROVE  ReadingInv'
  <2>1. \/ Deleted
        \/ /\ Alive /\ status' \in {"CONNECTED", "DISCONNECTING", "GONE"} /\ acks' = acks
           /\ QueueControl("OTHER", n) \/ QueueControl("CLOSE", n)
    BY <1>5, InvIs DEF OnPing, OnClose, Ping, Close, Alive
  <2> QED
    BY <2>1, DeletedKeepsInv, QueueControlKeepsInv
<1>6. ASSUME NEW len \in MessageLens, QueueMessage(len) PROVE ReadingInv'
  BY <1>6, QueueMessageKeepsInv
<1>7. CASE UNCHANGED vars
  BY <1>7 DEF vars, ReadingInv, Typed, TypeOK, Alive
<1> QED
  BY <1>1, <1>2, <1>3, <1>4, <1>5, <1>6, <1>7 DEF Next
-----------------------------------------------------------------------------
(***************************************************************************)
(* Theorems.                                                               *)
(***************************************************************************)
\* What is queued agrees with what the other end has read, in every state.
THEOREM SpecReadingInv == Spec => []ReadingInv
BY InitInv, NextKeepsInv, PTL DEF Spec

\* No message counts more bytes sent than it has, the queue of messages is never over its
\* limit, and no more than the send buffer is ever in flight.
THEOREM SpecTypeOK == Spec => []TypeOK
<1>1. ReadingInv => TypeOK
  BY DEF ReadingInv, Typed
<1> QED
  BY <1>1, SpecReadingInv, PTL

\* The other end reads every message whole, in the order the application queued them, and
\* none is left out: what is not read is queued still, unless the connection has ended or a
\* write of a frame failed half way.
THEOREM SpecPeerReadsInOrder == Spec => []PeerReadsInOrder
<1>1. ReadingInv => PeerReadsInOrder
  <2> SUFFICES ASSUME ReadingInv, "failed" \notin notes
               PROVE  /\ peer.whole /\ peer.done = [i \in 1..Len(peer.done) |-> i]
                      /\ Alive => \A i \in (Len(peer.done) + 1)..queued.messages :
                           \E k \in DOMAIN message : message[k].id = i /\ ~Finished(message[k])
    BY DEF PeerReadsInOrder
  <2>1. peer.whole /\ peer.done = [i \in 1..Len(peer.done) |-> i]
    BY DEF ReadingInv, ReadsWhole
  <2>2. ASSUME Alive, NEW i \in (Len(peer.done) + 1)..queued.messages
        PROVE  \E k \in DOMAIN message : message[k].id = i /\ ~Finished(message[k])
    <3>1. QueueIs(message, peer, queued.messages)
      BY <2>2, InvIs
    <3>2. PICK k \in 1..Len(message) : message[k].id = i
      BY <3>1 DEF QueueIs, AllQueued
    <3>3. message[k] \in MessageRecords /\ SentAsRead(message[k], peer, queued.messages)
          /\ k \in DOMAIN message
      BY <3>1, InvIs DEF QueueIs, Queues
    <3>4. i # 0 /\ ~(i <= Len(peer.done))
      BY InvIs, PeerFields
    <3> QED
      BY <3>2, <3>3, <3>4, MessageFields DEF SentAsRead, Finished
  <2> QED
    BY <2>1, <2>2
<1> QED
  BY <1>1, SpecReadingInv, PTL
=============================================================================
