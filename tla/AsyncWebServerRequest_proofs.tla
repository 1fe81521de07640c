--------------------- MODULE AsyncWebServerRequest_proofs ---------------------
(***************************************************************************)
(* Proofs about the web server's request and response, for any requests    *)
(* and responses, lengths and buffers.                                     *)
(***************************************************************************)
EXTENDS AsyncWebServerRequest, DataInduction, SequenceTheorems

-----------------------------------------------------------------------------
(***************************************************************************)
(* What the variables hold.                                                *)
(***************************************************************************)
Parses == {"START", "HEADERS", "BODY", "END", "FAIL"}
RequestRecords == [parse : Parses, line : SUBSET Kinds, length : Nat, parsed : Nat,
                   expect : BOOLEAN, announced : Nat]
RecvRecords == [type : {"RECV"}, bytes : Seq(Kinds) \ {<<>>}]
SentRecords == [type : {"SENT"}, length : Nat \ {0}]
EventRecords == RecvRecords \cup SentRecords
ResponseRecords == [kind : {"basic", "sized", "open", "chunked"},
                    state : {"HEADERS", "CONTENT", "WAIT_ACK", "END"},
                    head : Seq(Nat), content : Seq(Nat), length : Nat, sent : Nat, acked : Nat,
                    written : Nat, made : Nat, left : Nat, waits : Nat, valid : BOOLEAN]

PeerRecords == [got : Nat, whole : BOOLEAN]
Notes == {"failed", "lateHead", "cutShort"}

\* A response counts no more bytes than it has, and a text no other than it holds.
Sound(r) ==
  /\ r \in ResponseRecords
  /\ r.sent <= r.length + r.made
  /\ r.kind \in {"basic", "sized"} => r.sent <= r.length
  /\ r.kind = "basic" => /\ r.state # "HEADERS"
                         /\ r.state = "CONTENT" => Len(r.content) = r.length - r.sent

Typed ==
  /\ wire \in Seq(Kinds)
  /\ request \in RequestRecords /\ request.length \in {0, request.announced}
  /\ response # NULL => Sound(response)
  /\ client \in {"OPEN", "GONE"}
  /\ events \in Seq(EventRecords) /\ Len(events) <= MaxEvents
  /\ sendBuf \in SendBufs /\ inflight \in 0..sendBuf
  /\ peer \in PeerRecords
  /\ handled \in Nat
  /\ notes \subseteq Notes

(***************************************************************************)
(* The request: where the parser is in it, and where its packets are.      *)
(***************************************************************************)
\* After the first p of the bytes b, the parser r is in the head, whose last byte is the h-th.
InHead(r, q, p) ==
  /\ r.parse = IF \E i \in 1..p : q.bytes[i] = "newline" THEN "HEADERS" ELSE "START"
  /\ r.line = {} <=> (p = 0 \/ q.bytes[p] = "newline")
  /\ r.parsed = 0 /\ r.length \in {0, q.length}
  /\ \A i \in 1..p, k \in 1..p :
       q.bytes[i] = "length" /\ k < i /\ q.bytes[k] = "newline" =>
         r.length = q.length \/ "length" \in r.line
\* Or it is behind the head, and has counted the bytes there until it was at an end.
PastHead(r, q, n) ==
  /\ r.parse \in {"BODY", "END"} /\ r.length = q.length
  /\ r.parse = "BODY" => q.length > 0 /\ r.parsed = n
  /\ r.parse = "END" => r.parsed = q.length /\ r.parsed <= n
ParserIs(r, q, h, p) ==
  /\ r.announced = q.length
  /\ p < h => InHead(r, q, p)
  /\ p >= h => PastHead(r, q, p - h)
\* A request with an empty first line is refused with its first packet.
Refuses(r, p) ==
  IF p = 0 THEN r.parse = "START" /\ r.line = {} ELSE r.parse = "FAIL"
ParserAt(r, q, p) ==
  \/ EmptyFirstLine(q) /\ Refuses(r, p)
  \/ \E h \in 2..Len(q.bytes) : HeadIs(q, h) /\ ParserIs(r, q, h, p)

\* The packets on their way and what is not sent yet are the bytes b from the m[1]-th on:
\* m[i] of them are before the i-th event.
Text(e) == IF e.type = "RECV" THEN e.bytes ELSE <<>>
Copies(s, b, n) == \A k \in 1..Len(s) : s[k] = b[n + k]
Cut(m, b, evs, w) ==
  /\ m \in [1..(Len(evs) + 1) -> Nat]
  /\ Len(b) = m[Len(evs) + 1] + Len(w)
  /\ \A i \in 1..Len(evs) : m[i + 1] = m[i] + Len(Text(evs[i]))
  /\ \A i \in 1..Len(evs) : Copies(Text(evs[i]), b, m[i])
  /\ Copies(w, b, m[Len(evs) + 1])

RequestInv ==
  /\ handled = IF request.parse = "END" THEN 1 ELSE 0
  /\ request.parse # "FAIL"
  /\ request.parse = "BODY" => request.parsed # request.length
  /\ Open => \E q \in Requests : \E m \in [1..(Len(events) + 1) -> Nat] :
               Cut(m, q.bytes, events, wire) /\ ParserAt(request, q, m[1])
  /\ ~Open => /\ events = <<>>
              /\ request.parse = "END" => /\ request.length = request.announced
                                          /\ request.parsed = request.length
                                          /\ Range(wire) \subseteq {"body"}

(***************************************************************************)
(* The response: what the other end has of it, and what is acknowledged.   *)
(***************************************************************************)
\* The bytes of s are the response's from the one behind the n-th.
From(s, n) == \A i \in 1..Len(s) : s[i] = n + i
\* What is made of r beyond the n bytes that the other end has is in r.
HeadWaits(r, n) == /\ r.kind # "basic" /\ r.content = <<>> /\ r.sent = 0
                   /\ r.head # <<>> /\ From(r.head, n) /\ n + Len(r.head) = r.made
TextWaits(r, n) == /\ r.head = <<>> /\ From(r.content, n) /\ n + Len(r.content) = r.made
                   /\ r.kind = "basic" => r.left = 0
                   /\ r.kind # "basic" => r.content = <<>>
AllWritten(r, n) == /\ n = r.made
                    /\ IF r.kind = "sized" THEN r.sent = r.length ELSE r.left = 0
Keeps(r, n) ==
  /\ r.state = "HEADERS" => HeadWaits(r, n)
  /\ r.state = "CONTENT" => TextWaits(r, n)
  /\ r.state \in {"WAIT_ACK", "END"} => AllWritten(r, n)

\* a[i] bytes are acknowledged before the i-th event.
Acked(e) == IF e.type = "SENT" THEN e.length ELSE 0
Acks(a, evs, first, last) ==
  /\ a \in [1..(Len(evs) + 1) -> Nat]
  /\ \A i \in 1..Len(evs) : a[i + 1] = a[i] + Acked(evs[i])
  /\ a[1] = first /\ a[Len(evs) + 1] = last
NoneSent == \A i \in 1..Len(events) : events[i].type = "RECV"

ResponseInv ==
  /\ handled = 0 => /\ response = NULL /\ peer = [got |-> 0, whole |-> TRUE]
                    /\ ~request.expect => inflight = 0 /\ NoneSent
  /\ notes = {} => peer.whole
  /\ response # NULL =>
       /\ response.state = "END" => AllAcked(response)
       /\ notes = {} => /\ Keeps(response, peer.got)
                        /\ ~request.expect =>
                             \E a \in [1..(Len(events) + 1) -> Nat] :
                               Acks(a, events, response.acked, response.written - inflight)

Inv == Typed /\ RequestInv /\ ResponseInv

-----------------------------------------------------------------------------
(***************************************************************************)
(* Sequences, and what is left of them.                                    *)
(***************************************************************************)
LEMMA TakeIs ==
  ASSUME NEW S, NEW s \in Seq(S), NEW n \in 0..Len(s)
  PROVE  /\ Take(s, n) \in Seq(S) /\ Len(Take(s, n)) = n
         /\ \A i \in 1..n : Take(s, n)[i] = s[i]
<1>1. \A i \in 1..n : s[i] \in S
  OBVIOUS
<1> QED
  BY <1>1, SubSeqProperties DEF Take

LEMMA DropIs ==
  ASSUME NEW S, NEW s \in Seq(S), NEW n \in 0..Len(s)
  PROVE  /\ Drop(s, n) \in Seq(S) /\ Len(Drop(s, n)) = Len(s) - n
         /\ \A i \in 1..(Len(s) - n) : Drop(s, n)[i] = s[n + i]
<1> DEFINE L == Len(s)
<1>1. \A i \in (n + 1)..L : s[i] \in S
  OBVIOUS
<1>2. L \in Nat /\ n \in Nat /\ n <= L
  OBVIOUS
<1> HIDE DEF L
<1>3. n + 1 \in Int /\ L \in Int /\ L - (n + 1) + 1 = L - n
  BY <1>2
<1>4. /\ SubSeq(s, n + 1, L) \in Seq(S)
      /\ Len(SubSeq(s, n + 1, L)) = IF n + 1 <= L THEN L - (n + 1) + 1 ELSE 0
      /\ \A i \in 1..(L - (n + 1) + 1) : SubSeq(s, n + 1, L)[i] = s[n + 1 + i - 1]
  BY <1>1, <1>3, SubSeqProperties
<1>5. Len(SubSeq(s, n + 1, L)) = L - n
  <2>1. CASE n + 1 <= L
    BY <1>4, <1>3, <2>1
  <2>2. CASE ~(n + 1 <= L)
    <3>1. L - n = 0
      BY <1>2, <2>2
    <3> QED
      BY <1>4, <2>2, <3>1
  <2> QED
    BY <2>1, <2>2
<1>6. ASSUME NEW i \in 1..(L - n) PROVE SubSeq(s, n + 1, L)[i] = s[n + i]
  <2>1. n + 1 + i - 1 = n + i
    BY <1>2
  <2>2. i \in 1..(L - (n + 1) + 1)
    BY <1>3
  <2>3. SubSeq(s, n + 1, L)[i] = s[n + 1 + i - 1]
    BY <1>4, <2>2
  <2> QED
    BY <2>1, <2>3
<1> QED
  BY <1>4, <1>5, <1>6 DEF Drop, L

LEMMA TailIs ==
  ASSUME NEW S, NEW s \in Seq(S), s # <<>>
  PROVE  /\ Tail(s) \in Seq(S) /\ Head(s) \in S /\ Head(s) = s[1]
         /\ Len(Tail(s)) \in Nat /\ Len(s) = Len(Tail(s)) + 1
         /\ \A i \in 1..Len(Tail(s)) : Tail(s)[i] = s[i + 1]
  OBVIOUS

\* Bytes of the response follow one another in what is made, taken, left and joined.
LEMMA BytesIs ==
  ASSUME NEW a \in Nat, NEW n \in Nat
  PROVE  Bytes(a, n) \in Seq(Nat) /\ Len(Bytes(a, n)) = n /\ From(Bytes(a, n), a)
<1>1. Bytes(a, n) \in [1..n -> Nat]
  BY DEF Bytes
<1> QED
  BY <1>1 DEF Bytes, From

LEMMA FromTake ==
  ASSUME NEW s \in Seq(Nat), NEW k \in Nat, From(s, k), NEW n \in 0..Len(s)
  PROVE  From(Take(s, n), k) /\ From(Drop(s, n), k + n)
<1>1. From(Take(s, n), k)
  BY TakeIs DEF From
<1>2. ASSUME NEW i \in 1..(Len(s) - n) PROVE Drop(s, n)[i] = k + n + i
  <2>1. Drop(s, n)[i] = s[n + i] /\ n + i \in 1..Len(s)
    BY DropIs
  <2>2. s[n + i] = k + (n + i)
    BY <2>1 DEF From
  <2> QED
    BY <2>1, <2>2
<1> QED
  BY <1>1, <1>2, DropIs DEF From

LEMMA FromConcat ==
  ASSUME NEW s \in Seq(Nat), NEW t \in Seq(Nat), NEW k \in Nat, From(s, k), From(t, k + Len(s))
  PROVE  s \o t \in Seq(Nat) /\ Len(s \o t) = Len(s) + Len(t) /\ From(s \o t, k)
<1>1. /\ s \o t \in Seq(Nat) /\ Len(s \o t) = Len(s) + Len(t)
      /\ \A i \in 1..(Len(s) + Len(t)) : (s \o t)[i] = IF i <= Len(s) THEN s[i] ELSE t[i - Len(s)]
  BY ConcatProperties
<1>2. ASSUME NEW i \in 1..(Len(s) + Len(t)) PROVE (s \o t)[i] = k + i
  <2>1. CASE i <= Len(s)
    <3>1. i \in 1..Len(s)
      BY <2>1
    <3> QED
      BY <1>1, <2>1, <3>1 DEF From
  <2>2. CASE i > Len(s)
    <3>1. i - Len(s) \in 1..Len(t) /\ ~(i <= Len(s))
      BY <2>2
    <3>2. t[i - Len(s)] = k + Len(s) + (i - Len(s))
      BY <3>1 DEF From
    <3> QED
      BY <1>1, <3>1, <3>2
  <2> QED
    BY <2>1, <2>2
<1> QED
  BY <1>1, <1>2 DEF From

\* What does not decrease from one to the next does not decrease from any to a later one.
LEMMA Ascending ==
  ASSUME NEW N \in Nat, NEW m \in [1..(N + 1) -> Nat], \A i \in 1..N : m[i] <= m[i + 1]
  PROVE  \A i, j \in 1..(N + 1) : i <= j => m[i] <= m[j]
<1> SUFFICES ASSUME NEW i \in 1..(N + 1), NEW j \in 1..(N + 1), i <= j, ~(m[i] <= m[j])
             PROVE  FALSE
  OBVIOUS
<1> DEFINE T == {x \in 1..(N + 1) : i <= x /\ ~(m[i] <= m[x])}
<1>1. T \in SUBSET Nat /\ j \in T
  OBVIOUS
<1>2. PICK x \in T : \A y \in T : x <= y
  BY <1>1, LeastExists
<1>3. x # i /\ x - 1 \in 1..N /\ i <= x - 1
  BY <1>2
<1>4. x - 1 \notin T
  BY <1>2, <1>3
<1>5. m[i] <= m[x - 1] /\ m[x - 1] <= m[x - 1 + 1] /\ x - 1 + 1 = x /\ x - 1 \in 1..(N + 1)
  BY <1>3, <1>4
<1> QED
  BY <1>2, <1>5
-----------------------------------------------------------------------------
(***************************************************************************)
(* The packets on their way.                                               *)
(***************************************************************************)
LEMMA EventIs ==
  ASSUME NEW e \in EventRecords
  PROVE  /\ e.type \in {"RECV", "SENT"} /\ Text(e) \in Seq(Kinds) /\ Acked(e) \in Nat
         /\ e.type = "RECV" => e.bytes \in Seq(Kinds) /\ e.bytes # <<>> /\ Acked(e) = 0
                               /\ Text(e) = e.bytes
         /\ e.type = "SENT" => e.length \in Nat \ {0} /\ Acked(e) = e.length /\ Text(e) = <<>>
  BY DEF EventRecords, RecvRecords, SentRecords, Text, Acked

\* The first event is handled.
LEMMA CutTail ==
  ASSUME NEW b, NEW w, NEW evs \in Seq(EventRecords), evs # <<>>,
         NEW m, Cut(m, b, evs, w)
  PROVE  \E t : Cut(t, b, Tail(evs), w) /\ t[1] = m[1] + Len(Text(Head(evs)))
                /\ Copies(Text(Head(evs)), b, m[1])
<1> DEFINE N == Len(Tail(evs))
           t == [i \in 1..(N + 1) |-> m[i + 1]]
<1>1. /\ Tail(evs) \in Seq(EventRecords) /\ Head(evs) = evs[1] /\ N \in Nat /\ Len(evs) = N + 1
      /\ \A i \in 1..N : Tail(evs)[i] = evs[i + 1]
  BY TailIs
<1> HIDE DEF N
<1>2. /\ m \in [1..(N + 1 + 1) -> Nat]
      /\ Len(b) = m[N + 1 + 1] + Len(w)
      /\ \A i \in 1..(N + 1) : m[i + 1] = m[i] + Len(Text(evs[i]))
      /\ \A i \in 1..(N + 1) : Copies(Text(evs[i]), b, m[i])
      /\ Copies(w, b, m[N + 1 + 1])
  BY <1>1 DEF Cut
<1>3. t \in [1..(N + 1) -> Nat] /\ t[N + 1] = m[N + 1 + 1] /\ t[1] = m[2]
  BY <1>1, <1>2
<1>4. ASSUME NEW i \in 1..N
      PROVE  t[i + 1] = t[i] + Len(Text(Tail(evs)[i])) /\ Copies(Text(Tail(evs)[i]), b, t[i])
  <2>1. i + 1 \in 1..(N + 1) /\ t[i] = m[i + 1] /\ t[i + 1] = m[i + 1 + 1]
    BY <1>1
  <2>2. m[i + 1 + 1] = m[i + 1] + Len(Text(evs[i + 1])) /\ Copies(Text(evs[i + 1]), b, m[i + 1])
    BY <1>2, <2>1
  <2> QED
    BY <1>1, <2>1, <2>2
<1> HIDE DEF t
<1>5. Cut(t, b, Tail(evs), w)
  BY <1>2, <1>3, <1>4 DEF Cut, N
<1>6. m[2] = m[1] + Len(Text(evs[1])) /\ Copies(Text(evs[1]), b, m[1])
  BY <1>1, <1>2
<1> QED
  BY <1>1, <1>3, <1>5, <1>6

\* An event is queued, a packet with the next bytes of the request or an acknowledgement.
LEMMA CutAppend ==
  ASSUME NEW b \in Seq(Kinds), NEW w \in Seq(Kinds), NEW evs \in Seq(EventRecords),
         NEW m, Cut(m, b, evs, w), NEW e \in EventRecords, NEW n \in 0..Len(w),
         Text(e) = Take(w, n)
  PROVE  \E t : Cut(t, b, Append(evs, e), Drop(w, n)) /\ t[1] = m[1]
<1> DEFINE N == Len(evs)
           t == [i \in 1..(N + 1 + 1) |-> IF i = N + 1 + 1 THEN m[N + 1] + n ELSE m[i]]
           q == Append(evs, e)
           v == Drop(w, n)
<1>1. /\ N \in Nat /\ Len(q) = N + 1 /\ q[N + 1] = e
      /\ \A i \in 1..N : q[i] = evs[i]
  OBVIOUS
<1>2. /\ Take(w, n) \in Seq(Kinds) /\ Len(Take(w, n)) = n /\ \A i \in 1..n : Take(w, n)[i] = w[i]
      /\ Len(v) = Len(w) - n /\ \A i \in 1..(Len(w) - n) : v[i] = w[n + i]
  <2>1. /\ Take(w, n) \in Seq(Kinds) /\ Len(Take(w, n)) = n
        /\ \A i \in 1..n : Take(w, n)[i] = w[i]
    BY TakeIs
  <2>2. Len(v) = Len(w) - n /\ \A i \in 1..(Len(w) - n) : v[i] = w[n + i]
    BY DropIs
  <2> QED
    BY <2>1, <2>2
<1> HIDE DEF N, q, v
<1>3. /\ m \in [1..(N + 1) -> Nat] /\ Len(b) = m[N + 1] + Len(w)
      /\ \A i \in 1..N : m[i + 1] = m[i] + Len(Text(evs[i])) /\ Copies(Text(evs[i]), b, m[i])
      /\ Copies(w, b, m[N + 1])
  BY DEF Cut, N
<1>4. t \in [1..(N + 1 + 1) -> Nat] /\ t[N + 1 + 1] = m[N + 1] + n /\ t[1] = m[1]
  BY <1>1, <1>3
<1>5. ASSUME NEW i \in 1..(N + 1) PROVE t[i + 1] = t[i] + Len(Text(q[i])) /\ Copies(Text(q[i]), b, t[i])
  <2>1. CASE i = N + 1
    <3>1. t[i] = m[N + 1] /\ t[i + 1] = m[N + 1] + n /\ Text(q[i]) = Take(w, n)
      BY <1>1, <1>4, <2>1
    <3>2. \A k \in 1..n : Take(w, n)[k] = b[m[N + 1] + k]
      <4>1. \A k \in 1..Len(w) : w[k] = b[m[N + 1] + k]
        BY <1>3 DEF Copies
      <4>2. \A k \in 1..n : k \in 1..Len(w)
        OBVIOUS
      <4> QED
        BY <1>2, <4>1, <4>2
    <3>3. Copies(Take(w, n), b, m[N + 1])
      BY <1>2, <3>2 DEF Copies
    <3> QED
      BY <1>2, <3>1, <3>3
  <2>2. CASE i # N + 1
    <3>1. i \in 1..N /\ t[i] = m[i] /\ t[i + 1] = m[i + 1] /\ q[i] = evs[i]
      BY <1>1, <2>2
    <3> QED
      BY <1>3, <3>1
  <2> QED
    BY <2>1, <2>2
<1>6. ASSUME NEW i \in 1..Len(v) PROVE v[i] = b[m[N + 1] + n + i]
  <2>1. v[i] = w[n + i] /\ n + i \in 1..Len(w)
    BY <1>2
  <2>2. w[n + i] = b[m[N + 1] + (n + i)]
    BY <1>3, <2>1 DEF Copies
  <2>3. m[N + 1] + (n + i) = m[N + 1] + n + i
    BY <1>1, <1>3, <1>2
  <2> QED
    BY <2>1, <2>2, <2>3
<1> HIDE DEF t
<1>7. Len(b) = t[N + 1 + 1] + Len(v)
  BY <1>1, <1>2, <1>3, <1>4
<1>8. Cut(t, b, q, v)
  BY <1>1, <1>4, <1>5, <1>6, <1>7 DEF Cut, Copies
<1> QED
  BY <1>4, <1>8 DEF q, v

\* The same for what is acknowledged.
LEMMA AcksTail ==
  ASSUME NEW evs \in Seq(EventRecords), evs # <<>>,
         NEW a, NEW first, NEW last, Acks(a, evs, first, last)
  PROVE  \E c : Acks(c, Tail(evs), first + Acked(Head(evs)), last)
<1> DEFINE N == Len(Tail(evs))
           c == [i \in 1..(N + 1) |-> a[i + 1]]
<1>1. /\ Head(evs) = evs[1] /\ N \in Nat /\ Len(evs) = N + 1
      /\ \A i \in 1..N : Tail(evs)[i] = evs[i + 1]
  BY TailIs
<1> HIDE DEF N
<1>2. /\ a \in [1..(N + 1 + 1) -> Nat] /\ a[1] = first /\ a[N + 1 + 1] = last
      /\ \A i \in 1..(N + 1) : a[i + 1] = a[i] + Acked(evs[i])
  BY <1>1 DEF Acks
<1>3. c \in [1..(N + 1) -> Nat] /\ c[N + 1] = last /\ c[1] = a[1 + 1]
  BY <1>1, <1>2
<1>4. ASSUME NEW i \in 1..N PROVE c[i + 1] = c[i] + Acked(Tail(evs)[i])
  <2>1. i + 1 \in 1..(N + 1) /\ c[i] = a[i + 1] /\ c[i + 1] = a[i + 1 + 1]
    BY <1>1
  <2> QED
    BY <1>1, <1>2, <2>1
<1>5. a[1 + 1] = first + Acked(evs[1])
  BY <1>1, <1>2
<1> QED
  BY <1>1, <1>3, <1>4, <1>5 DEF Acks, N

LEMMA AcksAppend ==
  ASSUME NEW evs \in Seq(EventRecords), NEW a, NEW first, NEW last, Acks(a, evs, first, last),
         NEW e \in EventRecords
  PROVE  \E c : Acks(c, Append(evs, e), first, last + Acked(e))
<1> DEFINE N == Len(evs)
           c == [i \in 1..(N + 1 + 1) |-> IF i = N + 1 + 1 THEN a[N + 1] + Acked(e) ELSE a[i]]
           q == Append(evs, e)
<1>1. N \in Nat /\ Len(q) = N + 1 /\ q[N + 1] = e /\ \A i \in 1..N : q[i] = evs[i]
  OBVIOUS
<1> HIDE DEF N, q
<1>2. /\ a \in [1..(N + 1) -> Nat] /\ a[1] = first /\ a[N + 1] = last
      /\ \A i \in 1..N : a[i + 1] = a[i] + Acked(evs[i])
  BY DEF Acks, N
<1>3. Acked(e) \in Nat
  BY EventIs
<1>4. c \in [1..(N + 1 + 1) -> Nat] /\ c[N + 1 + 1] = last + Acked(e) /\ c[1] = first
  BY <1>1, <1>2, <1>3
<1>5. ASSUME NEW i \in 1..(N + 1) PROVE c[i + 1] = c[i] + Acked(q[i])
  <2>1. CASE i = N + 1
    BY <1>1, <1>4, <2>1, <1>2
  <2>2. CASE i # N + 1
    <3>1. i \in 1..N /\ c[i] = a[i] /\ c[i + 1] = a[i + 1] /\ q[i] = evs[i]
      BY <1>1, <2>2
    <3> QED
      BY <1>2, <3>1
  <2> QED
    BY <2>1, <2>2
<1> HIDE DEF c
<1>6. Acks(c, q, first, last + Acked(e))
  BY <1>1, <1>4, <1>5 DEF Acks
<1> QED
  BY <1>6 DEF q

\* What is acknowledged before the last event is at most what is acknowledged after it,
\* and all of it only when no acknowledgement is on its way.
LEMMA AcksAscend ==
  ASSUME NEW evs \in Seq(EventRecords), NEW a, NEW first, NEW last, Acks(a, evs, first, last)
  PROVE  /\ first \in Nat /\ last \in Nat /\ first <= last
         /\ first = last => \A i \in 1..Len(evs) : evs[i].type = "RECV"
<1> DEFINE N == Len(evs)
<1>1. N \in Nat /\ \A i \in 1..N : evs[i] \in EventRecords
  OBVIOUS
<1> HIDE DEF N
<1>2. /\ a \in [1..(N + 1) -> Nat] /\ a[1] = first /\ a[N + 1] = last
      /\ \A i \in 1..N : a[i + 1] = a[i] + Acked(evs[i])
  BY DEF Acks, N
<1>3. ASSUME NEW i \in 1..N
      PROVE  a[i] <= a[i + 1] /\ i \in 1..(N + 1) /\ i + 1 \in 1..(N + 1)
  <2>1. i \in 1..(N + 1) /\ i + 1 \in 1..(N + 1)
    BY <1>1
  <2>2. Acked(evs[i]) \in Nat
    BY <1>1, EventIs
  <2> QED
    BY <1>2, <2>1, <2>2
<1>4. \A i, j \in 1..(N + 1) : i <= j => a[i] <= a[j]
  BY <1>1, <1>2, <1>3, Ascending
<1>5. 1 \in 1..(N + 1) /\ N + 1 \in 1..(N + 1)
  BY <1>1
<1>6. ASSUME first = last, NEW i \in 1..N PROVE evs[i].type = "RECV"
  <2>1. a[1] <= a[i] /\ a[i + 1] <= a[N + 1] /\ a[i + 1] = a[i] + Acked(evs[i])
    BY <1>1, <1>2, <1>3, <1>4, <1>5
  <2>2. Acked(evs[i]) = 0
    <3>1. Acked(evs[i]) \in Nat /\ a[i] \in Nat /\ a[1] \in Nat /\ a[N + 1] = a[1]
      BY <1>1, <1>2, <1>3, <1>5, <1>6, EventIs
    <3> QED
      BY <2>1, <3>1
  <2> QED
    BY <1>1, <1>6, <2>2, EventIs
<1> QED
  BY <1>1, <1>2, <1>4, <1>5, <1>6 DEF N

\* No packet on its way and nothing to be sent: everything has been handled.
LEMMA CutEmpty ==
  ASSUME NEW b, NEW evs \in Seq(EventRecords), NEW w, NEW m, Cut(m, b, evs, w), Len(w) = 0,
         \A i \in 1..Len(evs) : evs[i].type # "RECV"
  PROVE  m[1] = Len(b)
<1> DEFINE N == Len(evs)
           T == {x \in 1..(N + 1) : m[x] # m[1]}
<1>1. N \in Nat /\ \A i \in 1..N : evs[i] \in EventRecords
  OBVIOUS
<1> HIDE DEF N
<1>2. /\ m \in [1..(N + 1) -> Nat] /\ Len(b) = m[N + 1]
      /\ \A i \in 1..N : m[i + 1] = m[i]
  <2>1. \A i \in 1..N : Text(evs[i]) = <<>>
    BY <1>1, EventIs DEF N
  <2>2. m \in [1..(N + 1) -> Nat] /\ Len(b) = m[N + 1] + 0
    BY DEF Cut, N
  <2>3. \A i \in 1..N : m[i + 1] = m[i] + 0
    BY <2>1 DEF Cut, N
  <2>4. N + 1 \in 1..(N + 1) /\ \A i \in 1..N : i \in 1..(N + 1)
    BY <1>1
  <2> QED
    BY <2>2, <2>3, <2>4
<1>3. SUFFICES ASSUME m[N + 1] # m[1] PROVE FALSE
  BY <1>2
<1>4. T \in SUBSET Nat /\ N + 1 \in T
  BY <1>1, <1>3
<1>5. PICK x \in T : \A y \in T : x <= y
  BY <1>4, LeastExists
<1>6. x # 1 /\ x - 1 \in 1..N /\ x - 1 \in 1..(N + 1) /\ x - 1 + 1 = x
  BY <1>1, <1>5
<1>7. x - 1 \notin T
  BY <1>5, <1>6
<1> QED
  BY <1>2, <1>5, <1>6, <1>7
-----------------------------------------------------------------------------
(***************************************************************************)
(* The parser.                                                             *)
(***************************************************************************)
\* Its recursion, of which each step is shown to hold.
After(S, b) == {ParseByte(r, b) : r \in S}
IsParsing(f, q, bytes, m) ==
  f = [n \in 0..m |-> IF n = 0 THEN {q} ELSE After(f[n - 1], bytes[n])]

LEMMA ParsingExists ==
  ASSUME NEW q, NEW bytes, NEW m \in Nat
  PROVE  \E f : IsParsing(f, q, bytes, m)
<1> DEFINE S == {k \in Nat : \E f : IsParsing(f, q, bytes, k)}
<1>1. 0 \in S
  <2> DEFINE f == [n \in 0..0 |-> {q}]
  <2>1. f = [n \in 0..0 |-> IF n = 0 THEN {q} ELSE After(f[n - 1], bytes[n])]
    OBVIOUS
  <2> QED
    BY <2>1 DEF IsParsing
<1>2. ASSUME NEW k \in S PROVE k + 1 \in S
  <2>1. PICK f : IsParsing(f, q, bytes, k)
    OBVIOUS
  <2> DEFINE g == [n \in 0..(k + 1) |-> IF n = k + 1 THEN After(f[k], bytes[k + 1]) ELSE f[n]]
             h == [n \in 0..(k + 1) |-> IF n = 0 THEN {q} ELSE After(g[n - 1], bytes[n])]
  <2>2. k \in Nat /\ k + 1 \in Nat
    OBVIOUS
  <2>3. ASSUME NEW n \in 0..(k + 1) PROVE g[n] = h[n]
    <3>1. CASE n = k + 1
      <4>1. h[n] = After(g[k], bytes[k + 1]) /\ g[k] = f[k]
        BY <2>2, <3>1
      <4> QED
        BY <2>2, <3>1, <4>1
    <3>2. CASE n = 0
      BY <2>1, <2>2, <3>2 DEF IsParsing
    <3>3. CASE n \in 1..k
      <4>1. n \in 0..k /\ n - 1 \in 0..k /\ n # 0 /\ n # k + 1 /\ n - 1 # k + 1 /\ n - 1 \in 0..(k + 1)
        BY <2>2, <3>3
      <4>2. f[n] = After(f[n - 1], bytes[n])
        BY <2>1, <4>1 DEF IsParsing
      <4> QED
        BY <4>1, <4>2
    <3> QED
      BY <2>2, <3>1, <3>2, <3>3
  <2>4. g = h
    BY <2>3
  <2>5. IsParsing(g, q, bytes, k + 1)
    BY <2>4 DEF IsParsing
  <2> QED
    BY <2>2, <2>5
<1> HIDE DEF S
<1>3. S \in SUBSET Nat
  BY DEF S
<1>4. m \in S
  BY <1>1, <1>2, <1>3, SetInduction
<1> QED
  BY <1>4 DEF S

LEMMA ParsingIs ==
  ASSUME NEW q, NEW bytes, Len(bytes) \in Nat
  PROVE  IsParsing(Parsing(q, bytes), q, bytes, Len(bytes))
<1>1. PICK f : IsParsing(f, q, bytes, Len(bytes))
  BY ParsingExists
<1>2. Parsing(q, bytes) = CHOOSE p : IsParsing(p, q, bytes, Len(bytes))
  BY DEF Parsing, IsParsing, After
<1> QED
  BY <1>1, <1>2

\* What holds of the parser before a packet, and is kept by each byte, holds after it.
LEMMA PacketKeeps ==
  ASSUME NEW q, NEW bytes \in Seq(Kinds), NEW G, G \in [0..Len(bytes) -> SUBSET RequestRecords],
         q \in G[0],
         \A n \in 1..Len(bytes) : \A r \in G[n - 1] : ParseByte(r, bytes[n]) \in G[n]
  PROVE  ParsePacket(q, bytes) \subseteq G[Len(bytes)]
<1> DEFINE L == Len(bytes)
           f == Parsing(q, bytes)
           S == {n \in Nat : n <= L => f[n] \subseteq G[n]}
<1>1. L \in Nat
  OBVIOUS
<1>2. f = [n \in 0..L |-> IF n = 0 THEN {q} ELSE After(f[n - 1], bytes[n])]
  BY <1>1, ParsingIs DEF IsParsing
<1>3. \A n \in 1..L : \A r \in G[n - 1] : ParseByte(r, bytes[n]) \in G[n]
  OBVIOUS
<1>4. ParsePacket(q, bytes) = f[L]
  BY DEF ParsePacket
<1> HIDE DEF L, f
<1>5. 0 \in S
  BY <1>1, <1>2
<1>6. ASSUME NEW n \in S PROVE n + 1 \in S
  <2> SUFFICES ASSUME n + 1 <= L PROVE f[n + 1] \subseteq G[n + 1]
    OBVIOUS
  <2>1. n + 1 \in 1..L /\ n + 1 \in 0..L /\ n + 1 # 0 /\ n + 1 - 1 = n /\ f[n] \subseteq G[n]
    BY <1>1
  <2>2. f[n + 1] = After(f[n + 1 - 1], bytes[n + 1])
    <3> DEFINE k == n + 1
    <3>1. k \in 0..L /\ k # 0
      BY <2>1
    <3> HIDE DEF k
    <3>2. f[k] = After(f[k - 1], bytes[k])
      BY <1>2, <3>1
    <3> QED
      BY <3>2 DEF k
  <2>3. \A r \in G[n] : ParseByte(r, bytes[n + 1]) \in G[n + 1]
    BY <1>3, <2>1
  <2> QED
    BY <2>1, <2>2, <2>3 DEF After
<1> HIDE DEF S
<1>7. S \in SUBSET Nat
  BY DEF S
<1>8. L \in S
  BY <1>1, <1>5, <1>6, <1>7, SetInduction
<1> QED
  BY <1>1, <1>4, <1>8 DEF S, L

\* What a byte changes of the parser.
LEMMA LineFields ==
  ASSUME NEW r \in RequestRecords, r.parse \in {"START", "HEADERS"}
  PROVE  LET s == ParseLine(r) IN
         /\ s \in RequestRecords /\ s.announced = r.announced /\ s.parsed = r.parsed
         /\ r.expect => s.expect
         /\ s.line = {}
         /\ s.parse = IF r.parse = "START" THEN (IF r.line = {} THEN "FAIL" ELSE "HEADERS")
                      ELSE IF r.line # {} THEN "HEADERS"
                      ELSE IF r.length > 0 THEN "BODY" ELSE "END"
         /\ s.length = IF r.parse = "HEADERS" /\ "length" \in r.line THEN r.announced ELSE r.length
<1>1. CASE r.parse = "START" /\ r.line = {}
  <2>1. ParseLine(r) = [r EXCEPT !.parse = "FAIL"]
    BY <1>1 DEF ParseLine
  <2> QED
    BY <1>1, <2>1 DEF RequestRecords, Parses
<1>2. CASE r.parse = "START" /\ r.line # {}
  <2>1. ParseLine(r) = [r EXCEPT !.parse = "HEADERS", !.line = {}]
    BY <1>2 DEF ParseLine
  <2> QED
    BY <1>2, <2>1 DEF RequestRecords, Parses
<1>3. CASE r.parse = "HEADERS" /\ r.line # {}
  <2> DEFINE l == IF "length" \in r.line THEN r.announced ELSE r.length
             e == r.expect \/ "expect" \in r.line
  <2>1. ParseLine(r) = [r EXCEPT !.line = {}, !.length = l, !.expect = e]
    BY <1>3 DEF ParseLine
  <2>2. l \in Nat /\ e \in BOOLEAN /\ (r.expect => e)
    BY DEF RequestRecords
  <2>3. l = IF r.parse = "HEADERS" /\ "length" \in r.line THEN r.announced ELSE r.length
    BY <1>3
  <2> HIDE DEF l, e
  <2> QED
    BY <1>3, <2>1, <2>2, <2>3 DEF RequestRecords, Parses
<1>4. CASE r.parse = "HEADERS" /\ r.line = {}
  <2>1. ParseLine(r) = [r EXCEPT !.parse = IF r.length > 0 THEN "BODY" ELSE "END"]
    BY <1>4 DEF ParseLine
  <2> QED
    BY <1>4, <2>1 DEF RequestRecords, Parses
<1> QED
  BY <1>1, <1>2, <1>3, <1>4

LEMMA ByteFields ==
  ASSUME NEW r \in RequestRecords, NEW b \in Kinds
  PROVE  LET s == ParseByte(r, b) IN
         /\ s \in RequestRecords /\ s.announced = r.announced
         /\ r.expect => s.expect
         /\ r.length \in {0, r.announced} => s.length \in {0, s.announced}
         /\ r.parse \in {"END", "FAIL"} => s = r
         /\ r.parse = "BODY" => s.parse = "BODY" /\ s.parsed = r.parsed + 1 /\ s.length = r.length
         /\ r.parse \in {"START", "HEADERS"} /\ b = "newline" => s = ParseLine(r)
         /\ r.parse \in {"START", "HEADERS"} /\ b # "newline" =>
              /\ s.line = r.line \cup {b} /\ s.parse = r.parse /\ s.length = r.length
              /\ s.parsed = r.parsed
<1>1. CASE r.parse \in {"START", "HEADERS"} /\ b = "newline"
  <2>1. ParseByte(r, b) = ParseLine(r)
    BY <1>1 DEF ParseByte
  <2> QED
    BY <1>1, <2>1, LineFields
<1>2. CASE r.parse \in {"START", "HEADERS"} /\ b # "newline"
  <2>1. ParseByte(r, b) = [r EXCEPT !.line = r.line \cup {b}]
    BY <1>2 DEF ParseByte
  <2>2. r.line \cup {b} \in SUBSET Kinds
    BY DEF RequestRecords
  <2> QED
    BY <1>2, <2>1, <2>2 DEF RequestRecords, Parses
<1>3. CASE r.parse = "BODY"
  <2>1. ParseByte(r, b) = [r EXCEPT !.parsed = r.parsed + 1]
    BY <1>3 DEF ParseByte
  <2> QED
    BY <1>3, <2>1 DEF RequestRecords, Parses
<1>4. CASE r.parse \in {"END", "FAIL"}
  <2>1. ParseByte(r, b) = r
    BY <1>4 DEF ParseByte
  <2> QED
    BY <1>4, <2>1
<1> QED
  BY <1>1, <1>2, <1>3, <1>4 DEF RequestRecords, Parses

\* A byte of the head, or behind it, leads to the place in the request after it.
LEMMA HeadByte ==
  ASSUME NEW q \in Requests, NEW h \in 2..Len(q.bytes), HeadIs(q, h),
         NEW r \in RequestRecords, r.announced = q.length,
         NEW p \in Nat, p < h, InHead(r, q, p)
  PROVE  LET s == ParseByte(r, q.bytes[p + 1]) IN
         /\ p + 1 < h => InHead(s, q, p + 1)
         /\ p + 1 >= h => PastHead(s, q, p + 1 - h)
<1> DEFINE b == q.bytes
           s == ParseByte(r, b[p + 1])
<1>1. b \in Seq(Kinds) /\ q.length \in Nat
  BY RequestsAssumption
<1>2. h \in Nat /\ Len(b) \in Nat /\ 2 <= h /\ h <= Len(b) /\ p + 1 \in 1..Len(b) /\ p + 1 \in 1..h
  BY <1>1
<1>3. b[p + 1] \in Kinds
  BY <1>1, <1>2
<1>4. /\ b[1] # "newline" /\ b[h - 1] = "newline" /\ b[h] = "newline"
      /\ \A i \in 2..(h - 1) : b[i] = "newline" => b[i - 1] # "newline"
      /\ q.length > 0 =>
           \E i \in 1..h : b[i] = "length" /\ \E k \in 1..(i - 1) : b[k] = "newline"
  BY DEF HeadIs
<1>5. /\ r.parse = IF \E i \in 1..p : b[i] = "newline" THEN "HEADERS" ELSE "START"
      /\ r.line = {} <=> (p = 0 \/ b[p] = "newline")
      /\ r.parsed = 0 /\ r.length \in {0, q.length}
      /\ \A i \in 1..p, k \in 1..p :
           b[i] = "length" /\ k < i /\ b[k] = "newline" => r.length = q.length \/ "length" \in r.line
  BY DEF InHead
<1>6. s.announced = q.length /\ r.parse \in {"START", "HEADERS"}
  BY <1>3, <1>5, ByteFields
<1> HIDE DEF b
<1>7. CASE b[p + 1] # "newline"
  <2>1. /\ s.line = r.line \cup {b[p + 1]} /\ s.parse = r.parse /\ s.length = r.length
        /\ s.parsed = r.parsed
    BY <1>3, <1>6, <1>7, ByteFields
  <2>2. p + 1 < h
    BY <1>2, <1>4, <1>7
  <2>3. (\E i \in 1..(p + 1) : b[i] = "newline") <=> (\E i \in 1..p : b[i] = "newline")
    <3>1. \A i \in 1..(p + 1) : i \in 1..p \/ i = p + 1
      OBVIOUS
    <3>2. \A i \in 1..p : i \in 1..(p + 1)
      OBVIOUS
    <3> QED
      BY <1>7, <3>1, <3>2
  <2>4. ASSUME NEW i \in 1..(p + 1), NEW k \in 1..(p + 1),
               b[i] = "length", k < i, b[k] = "newline"
        PROVE  s.length = q.length \/ "length" \in s.line
    <3>1. CASE i = p + 1
      BY <2>1, <2>4, <3>1
    <3>2. CASE i # p + 1
      <4>1. i \in 1..p /\ k \in 1..p
        BY <2>4, <3>2
      <4>2. r.length = q.length \/ "length" \in r.line
        BY <1>5, <2>4, <4>1
      <4> QED
        BY <2>1, <4>2
    <3> QED
      BY <3>1, <3>2
  <2>5. s.line # {} /\ ~(p + 1 = 0 \/ b[p + 1] = "newline")
    BY <1>7, <2>1
  <2>6. InHead(s, q, p + 1)
    BY <1>5, <2>1, <2>3, <2>4, <2>5 DEF InHead, b
  <2> QED
    BY <2>2, <2>6 DEF b
<1>8. CASE b[p + 1] = "newline"
  <2>1. s = ParseLine(r)
    BY <1>3, <1>6, <1>8, ByteFields
  <2>2. /\ s.parsed = 0 /\ s.line = {}
        /\ s.parse = IF r.parse = "START" THEN (IF r.line = {} THEN "FAIL" ELSE "HEADERS")
                     ELSE IF r.line # {} THEN "HEADERS"
                     ELSE IF r.length > 0 THEN "BODY" ELSE "END"
        /\ s.length = IF r.parse = "HEADERS" /\ "length" \in r.line THEN r.announced ELSE r.length
    BY <1>5, <1>6, <2>1, LineFields
  <2>3. p # 0
    BY <1>4, <1>8
  <2>4. r.parse = "START" => r.line # {}
    BY <1>5, <2>3
  <2>5. CASE r.line # {}
    <3>1. b[p] # "newline" /\ p + 1 < h
      BY <1>2, <1>4, <1>5, <2>3, <2>5
    <3>2. s.parse = "HEADERS"
      BY <1>6, <2>2, <2>5
    <3>3. \E i \in 1..(p + 1) : b[i] = "newline"
      BY <1>8
    <3>4. s.length \in {0, q.length}
      BY <1>5, <2>2
    <3>5. ASSUME NEW i \in 1..(p + 1), NEW k \in 1..(p + 1),
                 b[i] = "length", k < i, b[k] = "newline"
          PROVE  s.length = q.length
      <4>1. i # p + 1
        BY <1>8, <3>5
      <4>2. i \in 1..p /\ k \in 1..p
        BY <3>5, <4>1
      <4>3. r.length = q.length \/ "length" \in r.line
        BY <1>5, <3>5, <4>2
      <4>4. r.parse = "HEADERS"
        BY <1>5, <3>5, <4>2
      <4> QED
        BY <2>2, <4>3, <4>4
    <3>6. InHead(s, q, p + 1)
      BY <1>8, <2>2, <3>2, <3>3, <3>4, <3>5 DEF InHead, b
    <3> QED
      BY <3>1, <3>6 DEF b
  <2>6. CASE r.line = {}
    <3>1. b[p] = "newline" /\ r.parse = "HEADERS"
      BY <1>5, <1>6, <2>3, <2>4, <2>6
    <3>2. p + 1 = h
      <4>1. p + 1 \in 2..(h - 1) => b[p + 1 - 1] # "newline"
        BY <1>4, <1>8
      <4> QED
        BY <1>2, <2>3, <3>1, <4>1
    <3>3. r.length = q.length
      <4>1. CASE q.length = 0
        BY <1>5, <4>1
      <4>2. CASE q.length > 0
        <5>1. PICK i \in 1..h : b[i] = "length" /\ \E k \in 1..(i - 1) : b[k] = "newline"
          BY <1>4, <4>2
        <5>2. PICK k \in 1..(i - 1) : b[k] = "newline"
          BY <5>1
        <5>3. i \in 1..p /\ k \in 1..p /\ k < i
          BY <1>8, <3>2, <5>1
        <5> QED
          BY <1>5, <2>6, <5>1, <5>2, <5>3
      <4> QED
        BY <1>1, <4>1, <4>2
    <3>4. s.length = q.length /\ s.parse = IF q.length > 0 THEN "BODY" ELSE "END"
      BY <1>1, <2>2, <2>6, <3>1, <3>3
    <3>5. PastHead(s, q, 0)
      BY <1>1, <2>2, <3>4 DEF PastHead
    <3> QED
      BY <1>2, <3>2, <3>5 DEF b
  <2> QED
    BY <2>5, <2>6
<1> QED
  BY <1>7, <1>8

LEMMA ParserByte ==
  ASSUME NEW q \in Requests, NEW h \in 2..Len(q.bytes), HeadIs(q, h),
         NEW r \in RequestRecords, NEW p \in Nat, p < Len(q.bytes), ParserIs(r, q, h, p)
  PROVE  ParserIs(ParseByte(r, q.bytes[p + 1]), q, h, p + 1)
<1> DEFINE s == ParseByte(r, q.bytes[p + 1])
<1>1. q.bytes \in Seq(Kinds) /\ q.length \in Nat
  BY RequestsAssumption
<1>2. h \in Nat /\ q.bytes[p + 1] \in Kinds
  BY <1>1
<1>3. r.announced = q.length /\ s.announced = q.length
  BY <1>2, ByteFields DEF ParserIs
<1>4. CASE p < h
  <2>1. /\ p + 1 < h => InHead(s, q, p + 1)
        /\ p + 1 >= h => PastHead(s, q, p + 1 - h)
    BY <1>3, <1>4, HeadByte DEF ParserIs
  <2> QED
    BY <1>3, <2>1 DEF ParserIs
<1>5. CASE p >= h
  <2>1. /\ r.parse \in {"BODY", "END"} /\ r.length = q.length
        /\ r.parse = "BODY" => q.length > 0 /\ r.parsed = p - h
        /\ r.parse = "END" => r.parsed = q.length /\ r.parsed <= p - h
    BY <1>5 DEF ParserIs, PastHead
  <2>2. CASE r.parse = "BODY"
    <3>1. s.parse = "BODY" /\ s.parsed = r.parsed + 1 /\ s.length = r.length
      BY <1>2, <2>2, ByteFields
    <3>2. p - h + 1 = p + 1 - h
      BY <1>2
    <3>3. PastHead(s, q, p + 1 - h)
      BY <2>1, <2>2, <3>1, <3>2 DEF PastHead
    <3> QED
      BY <1>2, <1>3, <1>5, <3>3 DEF ParserIs
  <2>3. CASE r.parse = "END"
    <3>1. s = r
      BY <1>2, <2>3, ByteFields
    <3>2. r.parsed <= p + 1 - h
      BY <1>1, <1>2, <2>1, <2>3
    <3>3. PastHead(s, q, p + 1 - h)
      BY <2>1, <2>3, <3>1, <3>2 DEF PastHead
    <3> QED
      BY <1>2, <1>3, <1>5, <3>3 DEF ParserIs
  <2> QED
    BY <2>1, <2>2, <2>3
<1> QED
  BY <1>2, <1>4, <1>5

LEMMA ParserAtByte ==
  ASSUME NEW q \in Requests, NEW r \in RequestRecords, NEW p \in Nat, p < Len(q.bytes),
         ParserAt(r, q, p)
  PROVE  ParserAt(ParseByte(r, q.bytes[p + 1]), q, p + 1)
<1> DEFINE b == q.bytes[p + 1]
           s == ParseByte(r, b)
<1>1. b \in Kinds
  BY RequestsAssumption
<1>2. CASE EmptyFirstLine(q) /\ Refuses(r, p)
  <2>1. CASE p = 0
    <3>1. r.parse = "START" /\ r.line = {} /\ b = "newline"
      BY <1>2, <2>1 DEF Refuses, EmptyFirstLine
    <3>2. s = ParseLine(r)
      BY <1>1, <3>1, ByteFields
    <3>3. s.parse = "FAIL"
      BY <3>1, <3>2, LineFields
    <3> QED
      BY <1>2, <3>3 DEF ParserAt, Refuses
  <2>2. CASE p # 0
    <3>1. r.parse = "FAIL"
      BY <1>2, <2>2 DEF Refuses
    <3>2. s.parse = "FAIL"
      BY <1>1, <3>1, ByteFields
    <3> QED
      BY <1>2, <3>2 DEF ParserAt, Refuses
  <2> QED
    BY <2>1, <2>2
<1>3. CASE \E h \in 2..Len(q.bytes) : HeadIs(q, h) /\ ParserIs(r, q, h, p)
  BY <1>3, ParserByte DEF ParserAt
<1> QED
  BY <1>2, <1>3 DEF ParserAt

\* A packet leads to the place behind it.
LEMMA PacketParsed ==
  ASSUME NEW q \in Requests, NEW r \in RequestRecords, NEW p \in Nat, ParserAt(r, q, p),
         NEW bytes \in Seq(Kinds), Copies(bytes, q.bytes, p), p + Len(bytes) <= Len(q.bytes),
         NEW s \in ParsePacket(r, bytes)
  PROVE  ParserAt(s, q, p + Len(bytes))
<1> DEFINE L == Len(bytes)
           G == [n \in 0..L |-> {x \in RequestRecords : ParserAt(x, q, p + n)}]
<1>1. L \in Nat /\ Len(q.bytes) \in Nat /\ p + L <= Len(q.bytes)
  BY RequestsAssumption
<1>2. \A n \in 1..L : bytes[n] \in Kinds /\ bytes[n] = q.bytes[p + n]
  BY DEF Copies
<1>3. G \in [0..L -> SUBSET RequestRecords]
  OBVIOUS
<1> HIDE DEF L
<1>4. r \in G[0]
  <2>1. 0 \in 0..L /\ p + 0 = p
    BY <1>1
  <2> QED
    BY <2>1
<1>5. ASSUME NEW n \in 1..L, NEW x \in G[n - 1] PROVE ParseByte(x, bytes[n]) \in G[n]
  <2>1. n - 1 \in 0..L /\ n \in 0..L /\ p + (n - 1) \in Nat /\ p + (n - 1) < Len(q.bytes)
        /\ p + (n - 1) + 1 = p + n
    BY <1>1
  <2>2. x \in RequestRecords /\ ParserAt(x, q, p + (n - 1))
    BY <2>1, <1>5
  <2>3. ParserAt(ParseByte(x, q.bytes[p + (n - 1) + 1]), q, p + (n - 1) + 1)
    BY <2>1, <2>2, ParserAtByte
  <2>4. ParseByte(x, bytes[n]) \in RequestRecords
    BY <1>2, <2>2, ByteFields
  <2> QED
    BY <1>2, <2>1, <2>3, <2>4
<1> HIDE DEF G
<1>6. ParsePacket(r, bytes) \subseteq G[L]
  BY <1>3, <1>4, <1>5, PacketKeeps DEF L
<1> QED
  BY <1>1, <1>6 DEF G, L

LEMMA PacketFields ==
  ASSUME NEW r \in RequestRecords, r.length \in {0, r.announced}, NEW bytes \in Seq(Kinds),
         NEW s \in ParsePacket(r, bytes)
  PROVE  /\ s \in RequestRecords /\ s.length \in {0, s.announced}
         /\ r.expect => s.expect
         /\ r.parse = "END" => s = r
<1> DEFINE L == Len(bytes)
           K == {x \in RequestRecords : /\ x.length \in {0, x.announced}
                                        /\ r.expect => x.expect
                                        /\ r.parse = "END" => x = r}
           G == [n \in 0..L |-> K]
<1>1. L \in Nat /\ \A n \in 1..L : bytes[n] \in Kinds
  OBVIOUS
<1>2. G \in [0..L -> SUBSET RequestRecords]
  OBVIOUS
<1>3. ASSUME NEW x \in K, NEW b \in Kinds PROVE ParseByte(x, b) \in K
  BY ByteFields
<1> HIDE DEF K, L
<1>4. r \in K
  BY DEF K
<1>5. r \in G[0]
  BY <1>1, <1>4
<1>6. ASSUME NEW n \in 1..L, NEW x \in G[n - 1] PROVE ParseByte(x, bytes[n]) \in G[n]
  <2>1. n - 1 \in 0..L /\ n \in 0..L
    BY <1>1
  <2> QED
    BY <1>1, <1>3, <2>1, <1>6
<1>7. G[L] = K
  BY <1>1
<1> HIDE DEF G
<1>8. ParsePacket(r, bytes) \subseteq G[L]
  BY <1>2, <1>5, <1>6, PacketKeeps DEF L
<1> QED
  BY <1>7, <1>8 DEF K

\* The end of a packet completes a body whose last byte it has.
LEMMA CompleteFields ==
  ASSUME NEW s \in RequestRecords
  PROVE  LET c == Complete(s) IN
         /\ c \in RequestRecords /\ c.announced = s.announced /\ c.length = s.length
         /\ c.parsed = s.parsed /\ c.line = s.line /\ c.expect = s.expect
         /\ c.parse = IF s.parse = "BODY" /\ s.parsed = s.length THEN "END" ELSE s.parse
         /\ s.parse = "END" => c = s
         /\ c.parse = "BODY" => c.parsed # c.length
<1>1. CASE s.parse = "BODY" /\ s.parsed = s.length
  <2>1. Complete(s) = [s EXCEPT !.parse = "END"]
    BY <1>1 DEF Complete
  <2> QED
    BY <1>1, <2>1 DEF RequestRecords, Parses
<1>2. CASE ~(s.parse = "BODY" /\ s.parsed = s.length)
  BY <1>2 DEF Complete
<1> QED
  BY <1>1, <1>2

LEMMA CompleteParsed ==
  ASSUME NEW q \in Requests, NEW s \in RequestRecords, NEW p \in Nat, ParserAt(s, q, p)
  PROVE  ParserAt(Complete(s), q, p)
<1> DEFINE c == Complete(s)
<1>1. CASE s.parse = "BODY" /\ s.parsed = s.length
  <2>1. ~Refuses(s, p)
    BY <1>1 DEF Refuses
  <2>2. PICK h \in 2..Len(q.bytes) : HeadIs(q, h) /\ ParserIs(s, q, h, p)
    BY <2>1 DEF ParserAt
  <2>3. h \in Nat
    BY RequestsAssumption
  <2>4. ~(p < h)
    BY <1>1, <2>2 DEF ParserIs, InHead
  <2>5. PastHead(s, q, p - h)
    BY <2>2, <2>3, <2>4 DEF ParserIs
  <2>6. PastHead(c, q, p - h)
    BY <1>1, <2>3, <2>4, <2>5, CompleteFields DEF PastHead
  <2>7. ParserIs(c, q, h, p)
    BY <2>2, <2>3, <2>4, <2>6, CompleteFields DEF ParserIs
  <2> QED
    BY <2>2, <2>7 DEF ParserAt
<1>2. CASE ~(s.parse = "BODY" /\ s.parsed = s.length)
  BY <1>2 DEF Complete
<1> QED
  BY <1>1, <1>2
-----------------------------------------------------------------------------
(***************************************************************************)
(* The request's part of the invariant, in the steps of the handlers and   *)
(* of TCP.                                                                 *)
(***************************************************************************)
LEMMA CutAscends ==
  ASSUME NEW evs \in Seq(EventRecords), NEW b, NEW w, NEW m, Cut(m, b, evs, w)
  PROVE  /\ m \in [1..(Len(evs) + 1) -> Nat] /\ 1 \in 1..(Len(evs) + 1)
         /\ \A i, j \in 1..(Len(evs) + 1) : i <= j => m[i] <= m[j]
<1> DEFINE N == Len(evs)
<1>1. N \in Nat /\ \A i \in 1..N : evs[i] \in EventRecords
  OBVIOUS
<1> HIDE DEF N
<1>2. m \in [1..(N + 1) -> Nat] /\ \A i \in 1..N : m[i + 1] = m[i] + Len(Text(evs[i]))
  BY DEF Cut, N
<1>3. ASSUME NEW i \in 1..N PROVE m[i] <= m[i + 1]
  <2>1. Len(Text(evs[i])) \in Nat
    BY <1>1, EventIs
  <2>2. i \in 1..(N + 1)
    BY <1>1
  <2> QED
    BY <1>2, <2>1, <2>2
<1>4. \A i, j \in 1..(N + 1) : i <= j => m[i] <= m[j]
  BY <1>1, <1>2, <1>3, Ascending
<1>5. 1 \in 1..(N + 1)
  BY <1>1
<1> QED
  BY <1>1, <1>2, <1>4, <1>5 DEF N

\* When the parser is at the end, all that is still to be read is behind what was announced.
LEMMA EndReads ==
  ASSUME Typed, RequestInv, request.parse = "END"
  PROVE  /\ request.length = request.announced /\ request.parsed = request.length
         /\ ToRead \subseteq {"body"}
<1>1. events \in Seq(EventRecords) /\ wire \in Seq(Kinds) /\ request \in RequestRecords
  BY DEF Typed
<1>2. CASE ~Open
  <2>1. events = <<>> /\ request.length = request.announced /\ request.parsed = request.length
        /\ Range(wire) \subseteq {"body"}
    BY <1>2 DEF RequestInv
  <2>2. DOMAIN events = {}
    BY <2>1
  <2> QED
    BY <2>1, <2>2 DEF ToRead
<1>3. CASE Open
  <2>1. PICK q \in Requests, m \in [1..(Len(events) + 1) -> Nat] :
          Cut(m, q.bytes, events, wire) /\ ParserAt(request, q, m[1])
    BY <1>3 DEF RequestInv
  <2>2. ~Refuses(request, m[1])
    BY DEF Refuses
  <2>3. PICK h \in 2..Len(q.bytes) : HeadIs(q, h) /\ ParserIs(request, q, h, m[1])
    BY <2>1, <2>2 DEF ParserAt
  <2> DEFINE N == Len(events)
  <2>4. /\ N \in Nat /\ q.bytes \in Seq(Kinds) /\ h \in Nat /\ Len(q.bytes) \in Nat
        /\ \A i \in 1..N : events[i] \in EventRecords
        /\ DOMAIN events = 1..N
    BY <1>1, RequestsAssumption
  <2>5. /\ m \in [1..(N + 1) -> Nat] /\ 1 \in 1..(N + 1)
        /\ \A i, j \in 1..(N + 1) : i <= j => m[i] <= m[j]
    BY <1>1, <2>1, CutAscends
  <2> HIDE DEF N
  <2>6. ~(m[1] < h)
    BY <2>3 DEF ParserIs, InHead
  <2>7. request.announced = q.length /\ PastHead(request, q, m[1] - h)
    BY <2>3, <2>4, <2>5, <2>6 DEF ParserIs
  <2>8. request.length = request.announced /\ request.parsed = request.length
    BY <2>7 DEF PastHead
  <2>9. \A i \in (h + 1)..Len(q.bytes) : q.bytes[i] = "body"
    BY <2>3 DEF HeadIs
  <2>10. ASSUME NEW n \in Nat, n >= m[1], NEW s \in Seq(Kinds), Copies(s, q.bytes, n),
                n + Len(s) <= Len(q.bytes)
         PROVE  Range(s) \subseteq {"body"}
    <3>1. ASSUME NEW k \in 1..Len(s) PROVE s[k] = "body"
      <4>1. s[k] = q.bytes[n + k]
        BY <2>10 DEF Copies
      <4>2. n + k \in (h + 1)..Len(q.bytes)
        BY <2>4, <2>5, <2>6, <2>10
      <4> QED
        BY <2>9, <4>1, <4>2
    <3>2. Range(s) = {s[k] : k \in 1..Len(s)}
      BY RangeEquality
    <3> QED
      BY <3>1, <3>2
  <2>11. /\ Len(q.bytes) = m[N + 1] + Len(wire) /\ Copies(wire, q.bytes, m[N + 1])
         /\ \A i \in 1..N : m[i + 1] = m[i] + Len(Text(events[i]))
         /\ \A i \in 1..N : Copies(Text(events[i]), q.bytes, m[i])
    BY <2>1 DEF Cut, N
  <2>12. N + 1 \in 1..(N + 1)
    BY <2>4
  <2>13. Range(wire) \subseteq {"body"}
    <3>1. m[N + 1] \in Nat /\ m[N + 1] >= m[1] /\ m[N + 1] + Len(wire) <= Len(q.bytes)
      BY <2>4, <2>5, <2>11, <2>12
    <3> QED
      BY <1>1, <2>10, <2>11, <3>1
  <2>14. ASSUME NEW i \in 1..N, events[i].type = "RECV" PROVE Range(events[i].bytes) \subseteq {"body"}
    <3>1. events[i].bytes \in Seq(Kinds) /\ Text(events[i]) = events[i].bytes
      BY <2>4, <2>14, EventIs
    <3>2. i \in 1..(N + 1) /\ i + 1 \in 1..(N + 1)
      BY <2>4
    <3>3. m[i] \in Nat /\ m[i] >= m[1] /\ m[i] + Len(events[i].bytes) = m[i + 1]
      <4>1. m[i] \in Nat /\ m[1] <= m[i]
        BY <2>4, <2>5, <3>2
      <4> QED
        BY <2>11, <3>1, <4>1
    <3>4. m[i + 1] <= m[N + 1]
      BY <2>4, <2>5, <2>12, <3>2
    <3>5. m[i] + Len(events[i].bytes) <= Len(q.bytes)
      <4>1. Len(wire) \in Nat /\ m[N + 1] \in Nat
        BY <1>1, <2>5, <2>12
      <4> QED
        BY <2>11, <3>3, <3>4, <4>1, SMTT(20)
    <3> QED
      BY <2>10, <2>11, <3>1, <3>3, <3>5
  <2>15. ToRead \subseteq {"body"}
    BY <2>4, <2>13, <2>14 DEF ToRead
  <2> QED
    BY <2>8, <2>15
<1> QED
  BY <1>2, <1>3

\* The connection ends.
LEMMA RequestDeleted ==
  ASSUME Typed, RequestInv, Deleted PROVE RequestInv'
<1>1. /\ handled' = handled /\ request' = request /\ wire' = wire /\ events' = <<>>
      /\ client' = "GONE"
  BY DEF Deleted
<1>2. ~Open'
  BY <1>1 DEF Open
<1>3. request.parse = "END" => Range(wire) \subseteq {"body"}
  BY EndReads DEF ToRead
<1>4. request.parse = "END" => request.length = request.announced /\ request.parsed = request.length
  BY EndReads
<1> QED
  BY <1>1, <1>2, <1>3, <1>4 DEF RequestInv

\* Nothing of the request is read or sent.
LEMMA RequestStays ==
  ASSUME Typed, RequestInv,
         UNCHANGED <<handled, request, wire, events, client>>
  PROVE  RequestInv'
  BY DEF RequestInv, Open, Cut

\* An acknowledgement is handled.
LEMMA RequestTakesAck ==
  ASSUME Typed, RequestInv, Open, events # <<>>, Head(events).type = "SENT",
         UNCHANGED <<handled, request, wire, client>>, events' = Tail(events)
  PROVE  RequestInv'
<1>1. events \in Seq(EventRecords)
  BY DEF Typed
<1>2. Text(Head(events)) = <<>> /\ Open'
  BY <1>1, EventIs DEF Open
<1>3. PICK q \in Requests, m \in [1..(Len(events) + 1) -> Nat] :
        Cut(m, q.bytes, events, wire) /\ ParserAt(request, q, m[1])
  BY DEF RequestInv
<1>4. PICK t : Cut(t, q.bytes, Tail(events), wire) /\ t[1] = m[1] + Len(Text(Head(events)))
  BY <1>1, <1>3, CutTail
<1>5. m[1] \in Nat
  BY <1>1, <1>3, CutAscends
<1>6. t[1] = m[1]
  BY <1>2, <1>4, <1>5
<1>7. t \in [1..(Len(events') + 1) -> Nat] /\ Cut(t, q.bytes, events', wire')
      /\ ParserAt(request', q, t[1])
  BY <1>3, <1>4, <1>6 DEF Cut
<1> QED
  BY <1>2, <1>7 DEF RequestInv

\* A packet is sent, or an acknowledgement.
LEMMA RequestAppends ==
  ASSUME Typed, RequestInv, Open, NEW e \in EventRecords, NEW n \in 0..Len(wire),
         Text(e) = Take(wire, n), wire' = Drop(wire, n), events' = Append(events, e),
         UNCHANGED <<handled, request, client>>
  PROVE  RequestInv'
<1>1. events \in Seq(EventRecords) /\ wire \in Seq(Kinds)
  BY DEF Typed
<1>2. PICK q \in Requests, m \in [1..(Len(events) + 1) -> Nat] :
        Cut(m, q.bytes, events, wire) /\ ParserAt(request, q, m[1])
  BY DEF RequestInv
<1>3. q.bytes \in Seq(Kinds)
  BY RequestsAssumption
<1>4. PICK t : Cut(t, q.bytes, Append(events, e), Drop(wire, n)) /\ t[1] = m[1]
  BY <1>1, <1>2, <1>3, CutAppend
<1>5. t \in [1..(Len(events') + 1) -> Nat] /\ Cut(t, q.bytes, events', wire')
      /\ ParserAt(request', q, t[1])
  BY <1>2, <1>4 DEF Cut
<1> QED
  BY <1>5 DEF RequestInv, Open

\* A packet is parsed.
LEMMA RequestParsed ==
  ASSUME Typed, RequestInv, Open, events # <<>>, Head(events).type = "RECV",
         NEW s \in ParsePacket(request, Head(events).bytes), Complete(s).parse # "FAIL",
         request' = Complete(s), events' = Tail(events), UNCHANGED wire,
         handled' = IF request'.parse = "END" /\ request.parse # "END" THEN handled + 1 ELSE handled
  PROVE  RequestInv' \/ ~Open'
<1> SUFFICES ASSUME Open' PROVE RequestInv'
  OBVIOUS
<1> DEFINE c == Complete(s)
           bytes == Head(events).bytes
<1>1. events \in Seq(EventRecords) /\ request \in RequestRecords
      /\ request.length \in {0, request.announced}
  BY DEF Typed
<1>2. Head(events) \in EventRecords /\ bytes \in Seq(Kinds) /\ Text(Head(events)) = bytes
  BY <1>1, TailIs, EventIs
<1>3. PICK q \in Requests, m \in [1..(Len(events) + 1) -> Nat] :
        Cut(m, q.bytes, events, wire) /\ ParserAt(request, q, m[1])
  BY DEF RequestInv
<1>4. PICK t : /\ Cut(t, q.bytes, Tail(events), wire) /\ t[1] = m[1] + Len(Text(Head(events)))
               /\ Copies(Text(Head(events)), q.bytes, m[1])
  BY <1>1, <1>3, CutTail
<1>5. m[1] \in Nat
  BY <1>1, <1>3, CutAscends
<1>6. t[1] = m[1] + Len(bytes) /\ Copies(bytes, q.bytes, m[1])
  BY <1>2, <1>4
<1>7. t[1] <= Len(q.bytes)
  <2>1. Tail(events) \in Seq(EventRecords)
    BY <1>1
  <2>2. /\ t \in [1..(Len(Tail(events)) + 1) -> Nat] /\ 1 \in 1..(Len(Tail(events)) + 1)
        /\ \A i, j \in 1..(Len(Tail(events)) + 1) : i <= j => t[i] <= t[j]
    BY <1>4, <2>1, CutAscends
  <2>3. Len(q.bytes) = t[Len(Tail(events)) + 1] + Len(wire) /\ Len(wire) \in Nat
        /\ Len(Tail(events)) \in Nat
    BY <1>4, <2>1 DEF Cut, Typed
  <2> DEFINE N == Len(Tail(events))
  <2> HIDE DEF N
  <2>4. N \in Nat /\ t \in [1..(N + 1) -> Nat] /\ Len(q.bytes) = t[N + 1] + Len(wire)
        /\ \A i, j \in 1..(N + 1) : i <= j => t[i] <= t[j]
    BY <2>2, <2>3 DEF N
  <2>5. N + 1 \in 1..(N + 1) /\ 1 \in 1..(N + 1)
    BY <2>4
  <2>6. t[1] <= t[N + 1] /\ t[N + 1] \in Nat /\ t[1] \in Nat
    BY <2>4, <2>5
  <2> QED
    BY <2>3, <2>4, <2>6
<1>8. s \in RequestRecords /\ (request.parse = "END" => s = request)
  BY <1>1, <1>2, PacketFields
<1>9. ParserAt(s, q, t[1])
  BY <1>1, <1>2, <1>3, <1>5, <1>6, <1>7, PacketParsed
<1>10. t[1] \in Nat
  BY <1>2, <1>5, <1>6
<1>11. ParserAt(c, q, t[1])
  BY <1>8, <1>9, <1>10, CompleteParsed
<1>12. t \in [1..(Len(events') + 1) -> Nat] /\ Cut(t, q.bytes, events', wire')
       /\ ParserAt(request', q, t[1])
  BY <1>4, <1>11 DEF Cut
<1>13. request'.parse = "BODY" => request'.parsed # request'.length
  BY <1>8, CompleteFields
<1>14. request.parse = "END" => request'.parse = "END"
  BY <1>8, CompleteFields
<1>15. handled' = IF request'.parse = "END" THEN 1 ELSE 0
  BY <1>14 DEF RequestInv
<1>16. request'.parse # "FAIL"
  OBVIOUS
<1> QED
  BY <1>12, <1>13, <1>15, <1>16 DEF RequestInv
-----------------------------------------------------------------------------
(***************************************************************************)
(* Writing the response.                                                   *)
(***************************************************************************)
Sending == sendBuf \in Nat /\ peer \in PeerRecords /\ notes \subseteq Notes
\* What a write of what was made of s leaves, whether TCP takes it or not;
SentSound(s) ==
  /\ Sound(response') /\ response'.state # "END" /\ response'.acked = s.acked
  /\ inflight' \in 0..sendBuf /\ peer' \in PeerRecords /\ client' = client
  /\ notes \subseteq notes' /\ notes' \subseteq Notes
\* and what it leaves when it succeeds.
SentKeeps(s, sent) ==
  /\ peer'.whole /\ Keeps(response', peer'.got)
  /\ response'.written - inflight' = s.written - sent

LEMMA WrittenOnly ==
  ASSUME NEW s \in ResponseRecords, NEW w \in Nat
  PROVE  LET x == [s EXCEPT !.written = w] IN
         /\ x \in ResponseRecords /\ x.written = w /\ x.state = s.state /\ x.acked = s.acked
         /\ x.kind = s.kind
         /\ Sound(s) => Sound(x)
         /\ \A n : Keeps(s, n) => Keeps(x, n)
<1> DEFINE x == [s EXCEPT !.written = w]
<1>1. /\ x \in ResponseRecords /\ x.written = w
      /\ x.kind = s.kind /\ x.state = s.state /\ x.head = s.head /\ x.content = s.content
      /\ x.length = s.length /\ x.sent = s.sent /\ x.acked = s.acked /\ x.made = s.made
      /\ x.left = s.left
  BY DEF ResponseRecords
<1> HIDE DEF x
<1>2. Sound(s) => Sound(x)
  BY <1>1 DEF Sound
<1>3. ASSUME NEW n, Keeps(s, n) PROVE Keeps(x, n)
  BY <1>1, <1>3 DEF Keeps, HeadWaits, TextWaits, AllWritten
<1> QED
  BY <1>1, <1>2, <1>3 DEF x

LEMMA OutcomeIs ==
  ASSUME NEW bytes \in Seq(Nat), NEW room \in Nat, NEW o \in Outcomes(bytes, room)
  PROVE  /\ o.taken \in Seq(Nat) /\ Len(o.taken) <= room
         /\ o.counted \in Nat /\ o.failed \in BOOLEAN
         /\ ~o.failed /\ Len(bytes) <= room => o.taken = bytes /\ o.counted = Len(bytes)
<1> DEFINE n == Smaller(Len(bytes), room)
           fits == Take(bytes, n)
           none == <<>>
<1>1. n \in 0..Len(bytes) /\ n <= room /\ (Len(bytes) <= room => n = Len(bytes))
  BY DEF Smaller
<1> HIDE DEF n
<1>2. fits \in Seq(Nat) /\ Len(fits) = n /\ (Len(bytes) <= room => fits = bytes)
  <2>1. fits \in Seq(Nat) /\ Len(fits) = n
    BY <1>1, TakeIs
  <2>2. Take(bytes, Len(bytes)) = bytes
    BY SubSeqFull DEF Take
  <2> QED
    BY <1>1, <2>1, <2>2
<1>3. none \in Seq(Nat) /\ Len(none) = 0
  OBVIOUS
<1>4. \/ o = [taken |-> fits, counted |-> Len(fits), failed |-> FALSE]
      \/ \E t \in {none, fits} : o = [taken |-> t, counted |-> 0, failed |-> TRUE]
  BY DEF Outcomes, n
<1> HIDE DEF fits, none
<1>5. CASE o = [taken |-> fits, counted |-> Len(fits), failed |-> FALSE]
  <2>1. o.taken = fits /\ o.counted = Len(fits) /\ o.failed = FALSE
    BY <1>5
  <2>2. o.taken \in Seq(Nat) /\ Len(o.taken) = n /\ o.counted = n
    BY <1>2, <2>1
  <2>3. n \in Nat
    BY <1>1
  <2>4. ~o.failed /\ Len(bytes) <= room => o.taken = bytes /\ o.counted = Len(bytes)
    BY <1>1, <1>2, <2>1, <2>2
  <2>5. o.failed \in BOOLEAN
    BY <2>1
  <2> QED
    BY <1>1, <2>2, <2>3, <2>4, <2>5
<1>6. CASE \E t \in {none, fits} : o = [taken |-> t, counted |-> 0, failed |-> TRUE]
  <2>1. o.taken \in {none, fits} /\ o.counted = 0 /\ o.failed = TRUE
    BY <1>6
  <2>2. o.taken \in Seq(Nat) /\ Len(o.taken) <= room
    <3>1. CASE o.taken = none
      BY <1>3, <3>1
    <3>2. CASE o.taken = fits
      BY <1>1, <1>2, <3>2
    <3> QED
      BY <2>1, <3>1, <3>2
  <2>3. o.counted \in Nat
    BY <2>1
  <2>4. o.failed \in BOOLEAN /\ o.failed
    BY <2>1
  <2> QED
    BY <2>2, <2>3, <2>4
<1> QED
  BY <1>4, <1>5, <1>6

LEMMA ReadsIs ==
  ASSUME NEW p \in PeerRecords, NEW bytes \in Seq(Nat)
  PROVE  /\ Reads(p, bytes) \in PeerRecords
         /\ p.whole /\ From(bytes, p.got) =>
              Reads(p, bytes).whole /\ Reads(p, bytes).got = p.got + Len(bytes)
<1>1. CASE bytes = <<>>
  BY <1>1 DEF Reads, PeerRecords
<1>2. CASE bytes # <<>>
  <2>1. Reads(p, bytes) = [got |-> bytes[Len(bytes)], whole |-> p.whole /\ bytes[1] = p.got + 1]
    BY <1>2 DEF Reads, Last
  <2>2. Len(bytes) \in 1..Len(bytes) /\ 1 \in 1..Len(bytes) /\ bytes[Len(bytes)] \in Nat
    BY <1>2
  <2>3. From(bytes, p.got) => bytes[Len(bytes)] = p.got + Len(bytes) /\ bytes[1] = p.got + 1
    BY <2>2 DEF From
  <2>4. (p.whole /\ bytes[1] = p.got + 1) \in BOOLEAN
    OBVIOUS
  <2> QED
    BY <2>1, <2>2, <2>3, <2>4 DEF PeerRecords
<1> QED
  BY <1>1, <1>2

\* A write, and one of bytes for which there is room.
LEMMA PutSound ==
  ASSUME Sending, NEW sent \in 0..sendBuf, NEW s, Sound(s), s.state # "END",
         NEW bytes \in Seq(Nat), NEW ns, notes \subseteq ns, ns \subseteq Notes,
         Writes(bytes, s, sent, ns)
  PROVE  SentSound(s) /\ ns \subseteq notes'
<1>1. sendBuf - sent \in Nat
  BY DEF Sending
<1>2. PICK o \in Outcomes(bytes, sendBuf - sent) :
        /\ response' = [s EXCEPT !.written = s.written + o.counted]
        /\ inflight' = sent + Len(o.taken) /\ peer' = Reads(peer, o.taken)
        /\ notes' = ns \cup IF o.failed THEN {"failed"} ELSE {}
        /\ UNCHANGED client
  BY DEF Writes
<1>3. o.taken \in Seq(Nat) /\ Len(o.taken) \in Nat /\ Len(o.taken) <= sendBuf - sent
      /\ o.counted \in Nat
  BY <1>1, OutcomeIs
<1>4. s \in ResponseRecords /\ s.written + o.counted \in Nat
  <2>1. s \in ResponseRecords
    BY DEF Sound
  <2>2. s.written \in Nat
    BY <2>1 DEF ResponseRecords
  <2> QED
    BY <1>3, <2>1, <2>2
<1>5. Sound(response') /\ response'.state # "END" /\ response'.acked = s.acked
  BY <1>2, <1>4, WrittenOnly
<1>6. peer' \in PeerRecords
  BY <1>2, <1>3, ReadsIs DEF Sending
<1>7. inflight' \in 0..sendBuf
  BY <1>2, <1>3 DEF Sending
<1>8. notes \subseteq notes' /\ ns \subseteq notes' /\ notes' \subseteq Notes
  BY <1>2 DEF Notes
<1> QED
  BY <1>2, <1>5, <1>6, <1>7, <1>8 DEF SentSound

LEMMA PutKeeps ==
  ASSUME Sending, NEW sent \in Nat, NEW s, Sound(s), NEW bytes \in Seq(Nat),
         sent + Len(bytes) <= sendBuf, NEW ns, Writes(bytes, s, sent, ns), notes' = {},
         peer.whole, From(bytes, peer.got), Keeps(s, peer.got + Len(bytes))
  PROVE  SentKeeps(s, sent)
<1>1. sendBuf - sent \in Nat /\ Len(bytes) <= sendBuf - sent /\ Len(bytes) \in Nat
  BY DEF Sending
<1>2. PICK o \in Outcomes(bytes, sendBuf - sent) :
        /\ response' = [s EXCEPT !.written = s.written + o.counted]
        /\ inflight' = sent + Len(o.taken) /\ peer' = Reads(peer, o.taken)
        /\ notes' = ns \cup IF o.failed THEN {"failed"} ELSE {}
  BY DEF Writes
<1>3. ~o.failed
  BY <1>2
<1>4. o.taken = bytes /\ o.counted = Len(bytes)
  BY <1>1, <1>3, OutcomeIs
<1>5. s \in ResponseRecords /\ s.written \in Nat /\ s.written + Len(bytes) \in Nat
  BY <1>1 DEF Sound, ResponseRecords
<1>6. Keeps(response', peer.got + Len(bytes)) /\ response'.written = s.written + Len(bytes)
  BY <1>2, <1>4, <1>5, WrittenOnly
<1>7. peer'.whole /\ peer'.got = peer.got + Len(bytes)
  BY <1>2, <1>4, ReadsIs DEF Sending
<1>8. response'.written - inflight' = s.written - sent
  BY <1>1, <1>2, <1>4, <1>5, <1>6
<1> QED
  BY <1>6, <1>7, <1>8 DEF SentKeeps

\* Nothing is written.
LEMMA LeavesSound ==
  ASSUME Sending, NEW sent \in 0..sendBuf, NEW s, Sound(s), s.state # "END",
         NEW ns, notes \subseteq ns, ns \subseteq Notes, Leaves(s, sent, ns)
  PROVE  SentSound(s) /\ ns \subseteq notes'
  BY DEF Leaves, SentSound, Sending

LEMMA LeavesKeeps ==
  ASSUME Sending, NEW sent, NEW s, NEW ns, Leaves(s, sent, ns), peer.whole, Keeps(s, peer.got)
  PROVE  SentKeeps(s, sent)
  BY DEF Leaves, SentKeeps, Sending

\* A new text is written as far as there is room, and the rest is kept.
LEMMA BasicBegins ==
  ASSUME Sending, NEW sent \in 0..sendBuf, NEW n \in Nat, NEW r \in ResponseRecords,
         r.kind = "basic", r.head = Bytes(0, HeadLen), r.content = Bytes(HeadLen, n),
         r.length = n, r.sent = 0, r.made = HeadLen + n, r.left = 0,
         BasicRespond(r, sent)
  PROVE  /\ SentSound(r)
         /\ notes' = {} /\ peer.whole /\ peer.got = 0 => SentKeeps(r, sent)
<1> DEFINE room == sendBuf - sent
           text == r.head \o r.content
           none == <<>>
           K(s) == notes' = {} /\ peer.whole /\ peer.got = 0 => SentKeeps(s, sent)
<1>1. HeadLen \in Nat \ {0} /\ room \in Nat /\ sendBuf \in Nat /\ sent \in Nat /\ sent + room = sendBuf
  BY LengthAssumption DEF Sending
<1>2. text \in Seq(Nat) /\ Len(text) = HeadLen + n /\ From(text, 0)
  <2>1. r.head \in Seq(Nat) /\ Len(r.head) = HeadLen /\ From(r.head, 0)
    BY <1>1, BytesIs
  <2>2. r.content \in Seq(Nat) /\ Len(r.content) = n /\ From(r.content, HeadLen)
    BY <1>1, BytesIs
  <2>3. 0 + Len(r.head) = HeadLen
    BY <1>1, <2>1
  <2> QED
    BY <2>1, <2>2, <2>3, FromConcat
<1>3. notes \subseteq notes /\ notes \subseteq Notes
  BY DEF Sending
<1>e. none \in Seq(Nat)
  OBVIOUS
<1> HIDE DEF room, text, none
<1>a. ASSUME NEW s, s \in ResponseRecords, s.kind = "basic", s.state = "CONTENT",
             s.head = none, s.made = r.made, s.left = 0, s.acked = r.acked, s.written = r.written,
             s.sent \in Nat, s.length \in Nat, s.sent <= s.length,
             NEW k \in 0..Len(text), s.content = Drop(text, k), Len(text) - k = s.length - s.sent
      PROVE  Sound(s) /\ Keeps(s, k)
  <2>1. s.content \in Seq(Nat) /\ Len(s.content) = Len(text) - k /\ From(s.content, 0 + k)
    BY <1>2, <1>a, DropIs, FromTake
  <2>2. 0 + k = k /\ k + Len(s.content) = s.made /\ s.made \in Nat
    BY <1>1, <1>2, <1>a, <2>1
  <2>3. Sound(s)
    BY <1>a, <2>1, <2>2 DEF Sound
  <2>4. TextWaits(s, k)
    BY <1>a, <2>1, <2>2 DEF TextWaits, none
  <2> QED
    BY <1>a, <2>3, <2>4 DEF Keeps
<1>b. ASSUME NEW s, s \in ResponseRecords, s.kind = "basic", s.state = "CONTENT",
             s.head = none, s.made = r.made, s.left = 0, s.acked = r.acked, s.written = r.written,
             s.sent \in Nat, s.length \in Nat, s.sent <= s.length,
             NEW k \in 0..Len(text), s.content = Drop(text, k), Len(text) - k = s.length - s.sent,
             k <= room, Writes(Take(text, k), s, sent, notes)
      PROVE  SentSound(r) /\ K(r)
  <2>1. Sound(s) /\ Keeps(s, k)
    BY <1>a, <1>b
  <2>2. Take(text, k) \in Seq(Nat) /\ Len(Take(text, k)) = k
    BY <1>2, TakeIs
  <2>3. From(Take(text, k), 0)
    BY <1>2, FromTake
  <2>4. sent + k <= sendBuf
    BY <1>1, <1>2, <1>b
  <2>5. SentSound(s)
    BY <1>1, <1>3, <1>b, <2>1, <2>2, <2>4, PutSound
  <2>6. ASSUME notes' = {}, peer.whole, peer.got = 0 PROVE SentKeeps(s, sent)
    <3>1. peer.got + Len(Take(text, k)) = k
      BY <1>2, <2>2, <2>6
    <3> QED
      BY <1>1, <1>b, <2>1, <2>2, <2>3, <2>4, <2>6, <3>1, PutKeeps
  <2> QED
    BY <1>b, <2>5, <2>6 DEF SentSound, SentKeeps
<1>4. CASE /\ room >= HeadLen + r.length
           /\ Writes(text, [r EXCEPT !.head = <<>>, !.state = "WAIT_ACK"], sent, notes)
  <2> DEFINE s == [r EXCEPT !.head = none, !.state = "WAIT_ACK"]
  <2>1. /\ s \in ResponseRecords /\ s.kind = "basic" /\ s.state = "WAIT_ACK" /\ s.made = r.made
        /\ s.left = 0 /\ s.acked = r.acked /\ s.written = r.written /\ s.sent = 0
    BY <1>e DEF ResponseRecords
  <2>2. s.length \in Nat /\ s.made \in Nat
    BY <1>e, <2>1 DEF ResponseRecords
  <2>3. Writes(text, s, sent, notes)
    BY <1>4 DEF none
  <2> HIDE DEF s
  <2>4. Sound(s)
    BY <2>1, <2>2 DEF Sound
  <2>5. Keeps(s, Len(text))
    BY <1>2, <2>1 DEF Keeps, AllWritten
  <2>6. sent + Len(text) <= sendBuf
    BY <1>1, <1>2, <1>4
  <2>7. SentSound(s)
    BY <1>1, <1>2, <1>3, <2>1, <2>3, <2>4, <2>6, PutSound
  <2>8. ASSUME notes' = {}, peer.whole, peer.got = 0 PROVE SentKeeps(s, sent)
    <3>1. peer.got + Len(text) = Len(text)
      BY <1>1, <1>2, <2>8
    <3> QED
      BY <1>1, <1>2, <2>3, <2>4, <2>5, <2>6, <2>8, <3>1, PutKeeps
  <2> QED
    BY <2>1, <2>7, <2>8 DEF SentSound, SentKeeps
<1>5. CASE /\ room > 0 /\ room < HeadLen
           /\ Writes(Take(text, room),
                     [r EXCEPT !.head = <<>>, !.content = Drop(text, room),
                               !.length = r.length + HeadLen - room, !.state = "CONTENT"],
                     sent, notes)
  <2> DEFINE c == Drop(text, room)
             l == r.length + HeadLen - room
             s == [r EXCEPT !.head = none, !.content = c, !.length = l, !.state = "CONTENT"]
  <2>1. c \in Seq(Nat) /\ l \in Nat /\ room \in 0..Len(text) /\ Len(text) - room = l - 0
    <3>1. room \in 0..Len(text) /\ r.length = n
      BY <1>1, <1>2, <1>5
    <3>2. c \in Seq(Nat)
      BY <1>2, <3>1, DropIs
    <3>3. l = n + HeadLen - room
      BY <3>1
    <3> HIDE DEF l
    <3>4. l \in Nat
      BY <1>1, <1>5, <3>3
    <3>5. Len(text) - room = l - 0
      BY <1>1, <1>2, <3>3
    <3> QED
      BY <3>1, <3>2, <3>4, <3>5
  <2>2. Writes(Take(text, room), s, sent, notes)
    BY <1>5 DEF none
  <2> HIDE DEF c, l
  <2>3. /\ s \in ResponseRecords /\ s.kind = "basic" /\ s.state = "CONTENT" /\ s.head = none
        /\ s.made = r.made /\ s.left = 0 /\ s.acked = r.acked /\ s.written = r.written
        /\ s.sent = 0 /\ s.length = l /\ s.content = c
    BY <1>e, <2>1 DEF ResponseRecords
  <2> HIDE DEF s
  <2>4. s.sent \in Nat /\ s.length \in Nat /\ s.sent <= s.length /\ room <= room
    BY <1>1, <2>1, <2>3
  <2>5. s.content = Drop(text, room) /\ Len(text) - room = s.length - s.sent
    BY <2>1, <2>3 DEF c
  <2> QED
    BY <1>b, <2>1, <2>2, <2>3, <2>4, <2>5
<1>6. CASE /\ room > HeadLen /\ room < HeadLen + r.length
           /\ Writes(Take(text, room),
                     [r EXCEPT !.head = <<>>, !.content = Drop(text, room),
                               !.sent = r.sent + room - HeadLen, !.state = "CONTENT"],
                     sent, notes)
  <2> DEFINE c == Drop(text, room)
             l == r.sent + room - HeadLen
             s == [r EXCEPT !.head = none, !.content = c, !.sent = l, !.state = "CONTENT"]
  <2>1. c \in Seq(Nat) /\ l \in Nat /\ room \in 0..Len(text) /\ Len(text) - room = n - l /\ l <= n
    <3>1. room \in 0..Len(text) /\ r.sent = 0
      BY <1>1, <1>2, <1>6
    <3>2. c \in Seq(Nat)
      BY <1>2, <3>1, DropIs
    <3>3. l \in Nat /\ l = room - HeadLen
      BY <1>1, <1>6, <3>1
    <3> HIDE DEF l
    <3>4. room < HeadLen + n
      BY <1>6
    <3>5. l <= n
      BY <1>1, <3>3, <3>4
    <3>6. Len(text) - room = n - l
      BY <1>1, <1>2, <3>3
    <3> QED
      BY <3>1, <3>2, <3>3, <3>5, <3>6
  <2>2. Writes(Take(text, room), s, sent, notes)
    BY <1>6 DEF none
  <2> HIDE DEF c, l
  <2>3. /\ s \in ResponseRecords /\ s.kind = "basic" /\ s.state = "CONTENT" /\ s.head = none
        /\ s.made = r.made /\ s.left = 0 /\ s.acked = r.acked /\ s.written = r.written
        /\ s.sent = l /\ s.length = n /\ s.content = c
    BY <1>e, <2>1 DEF ResponseRecords
  <2> HIDE DEF s
  <2>4. s.sent \in Nat /\ s.length \in Nat /\ s.sent <= s.length /\ room <= room
    BY <1>1, <2>1, <2>3
  <2>5. s.content = Drop(text, room) /\ Len(text) - room = s.length - s.sent
    BY <2>1, <2>3 DEF c
  <2> QED
    BY <1>b, <2>1, <2>2, <2>3, <2>4, <2>5
<1>7. CASE Leaves([r EXCEPT !.head = <<>>, !.content = text, !.length = r.length + HeadLen,
                            !.state = "CONTENT"], sent, notes)
  <2> DEFINE l == r.length + HeadLen
             s == [r EXCEPT !.head = none, !.content = text, !.length = l, !.state = "CONTENT"]
  <2>1. l \in Nat /\ 0 \in 0..Len(text) /\ Len(text) - 0 = l - 0 /\ 0 <= l
    BY <1>1, <1>2
  <2>2. Leaves(s, sent, notes)
    BY <1>7 DEF none
  <2>3. text = Drop(text, 0)
    BY <1>2, SubSeqFull DEF Drop
  <2> HIDE DEF l
  <2>4. /\ s \in ResponseRecords /\ s.kind = "basic" /\ s.state = "CONTENT" /\ s.head = none
        /\ s.made = r.made /\ s.left = 0 /\ s.acked = r.acked /\ s.written = r.written
        /\ s.sent = 0 /\ s.length = l /\ s.content = text
    BY <1>2, <1>e, <2>1 DEF ResponseRecords
  <2> HIDE DEF s
  <2>5. Sound(s) /\ Keeps(s, 0)
    BY <1>a, <2>1, <2>3, <2>4
  <2>6. SentSound(s)
    BY <1>3, <2>2, <2>4, <2>5, LeavesSound
  <2>7. ASSUME notes' = {}, peer.whole, peer.got = 0 PROVE SentKeeps(s, sent)
    BY <2>2, <2>5, <2>7, LeavesKeeps
  <2> QED
    BY <2>4, <2>6, <2>7 DEF SentSound, SentKeeps
<1> QED
  BY <1>4, <1>5, <1>6, <1>7 DEF BasicRespond, room, text

\* More of a text is written when some of it is acknowledged.
LEMMA BasicGoesOn ==
  ASSUME Sending, NEW sent \in 0..sendBuf, NEW r, Sound(r), r.kind = "basic", r.state = "CONTENT",
         BasicAck(r, sent)
  PROVE  /\ SentSound(r)
         /\ notes' = {} /\ peer.whole /\ Keeps(r, peer.got) => SentKeeps(r, sent)
<1> DEFINE room == sendBuf - sent
           available == r.length - r.sent
           none == <<>>
<1>1. room \in Nat /\ sendBuf \in Nat /\ sent \in Nat /\ sent + room = sendBuf
  BY DEF Sending
<1>2. r \in ResponseRecords /\ r.content \in Seq(Nat) /\ Len(r.content) = available
      /\ r.sent \in Nat /\ r.length \in Nat /\ r.made \in Nat /\ r.sent <= r.length
  BY DEF Sound, ResponseRecords
<1>3. available \in Nat /\ none \in Seq(Nat)
  BY <1>2
<1>4. notes \subseteq notes /\ notes \subseteq Notes
  BY DEF Sending
<1>5. ASSUME peer.whole, Keeps(r, peer.got)
      PROVE  From(r.content, peer.got) /\ peer.got + available = r.made /\ r.left = 0
  BY <1>2, <1>5 DEF Keeps, TextWaits
<1>6. peer.got \in Nat
  BY DEF Sending, PeerRecords
<1> HIDE DEF room, available, none
<1>7. CASE /\ room > available
           /\ Writes(Take(r.content, available), [r EXCEPT !.content = none, !.state = "WAIT_ACK"],
                     sent, notes)
  <2> DEFINE s == [r EXCEPT !.content = none, !.state = "WAIT_ACK"]
             bytes == Take(r.content, available)
  <2>1. /\ s \in ResponseRecords /\ s.kind = "basic" /\ s.state = "WAIT_ACK" /\ s.made = r.made
        /\ s.left = r.left /\ s.acked = r.acked /\ s.written = r.written /\ s.sent = r.sent
        /\ s.length = r.length
    BY <1>2, <1>3 DEF ResponseRecords
  <2>2. Writes(bytes, s, sent, notes)
    BY <1>7
  <2> HIDE DEF s
  <2>3. Sound(s)
    BY <1>2, <2>1 DEF Sound
  <2>4. bytes \in Seq(Nat) /\ Len(bytes) = available
    <3>1. available \in 0..Len(r.content)
      BY <1>2, <1>3
    <3> QED
      BY <1>2, <3>1, TakeIs
  <2>5. sent + Len(bytes) <= sendBuf
    BY <1>1, <1>3, <1>7, <2>4
  <2>6. SentSound(s)
    BY <1>1, <1>4, <2>1, <2>2, <2>3, <2>4, <2>5, PutSound
  <2>7. ASSUME notes' = {}, peer.whole, Keeps(r, peer.got) PROVE SentKeeps(s, sent)
    <3>1. From(r.content, peer.got) /\ peer.got + available = r.made /\ r.left = 0
      BY <1>5, <2>7
    <3>2. From(bytes, peer.got)
      <4>1. available \in 0..Len(r.content)
        BY <1>2, <1>3
      <4> QED
        BY <1>2, <1>6, <3>1, <4>1, FromTake
    <3>3. Keeps(s, peer.got + Len(bytes))
      BY <2>1, <2>4, <3>1 DEF Keeps, AllWritten
    <3> QED
      BY <1>1, <2>2, <2>3, <2>4, <2>5, <2>7, <3>2, <3>3, PutKeeps
  <2> QED
    BY <2>1, <2>6, <2>7 DEF SentSound, SentKeeps
<1>8. CASE /\ ~(room > available)
           /\ Writes(Take(r.content, room),
                     [r EXCEPT !.content = Drop(r.content, room), !.sent = r.sent + room],
                     sent, notes)
  <2> DEFINE c == Drop(r.content, room)
             l == r.sent + room
             s == [r EXCEPT !.content = c, !.sent = l]
             bytes == Take(r.content, room)
  <2>1. room \in 0..Len(r.content)
    BY <1>1, <1>2, <1>3, <1>8
  <2>2. bytes \in Seq(Nat) /\ Len(bytes) = room /\ c \in Seq(Nat) /\ Len(c) = available - room
    BY <1>2, <2>1, TakeIs, DropIs
  <2>3. l \in Nat /\ l <= r.length /\ available - room = r.length - l
    BY <1>1, <1>2, <1>8 DEF available
  <2>4. Writes(bytes, s, sent, notes)
    BY <1>8
  <2>5. ASSUME peer.whole, Keeps(r, peer.got)
        PROVE  /\ From(bytes, peer.got) /\ From(c, peer.got + room)
               /\ peer.got + room + Len(c) = r.made
    <3>1. From(r.content, peer.got) /\ peer.got + available = r.made
      BY <1>5, <2>5
    <3>2. From(bytes, peer.got) /\ From(c, peer.got + room)
      BY <1>2, <1>6, <2>1, <3>1, FromTake
    <3>3. peer.got + room + Len(c) = r.made
      BY <1>1, <1>3, <1>6, <2>2, <3>1
    <3> QED
      BY <3>2, <3>3
  <2> HIDE DEF c, l, bytes
  <2>6. /\ s \in ResponseRecords /\ s.kind = "basic" /\ s.state = "CONTENT" /\ s.made = r.made
        /\ s.left = r.left /\ s.acked = r.acked /\ s.written = r.written /\ s.sent = l
        /\ s.length = r.length /\ s.content = c /\ s.head = r.head
    BY <1>2, <2>2, <2>3 DEF ResponseRecords
  <2> HIDE DEF s
  <2>7. Sound(s)
    BY <1>2, <2>2, <2>3, <2>6 DEF Sound
  <2>8. sent + Len(bytes) <= sendBuf
    BY <1>1, <2>2
  <2>9. SentSound(s)
    BY <1>1, <1>4, <2>2, <2>4, <2>6, <2>7, <2>8, PutSound
  <2>10. ASSUME notes' = {}, peer.whole, Keeps(r, peer.got) PROVE SentKeeps(s, sent)
    <3>1. TextWaits(r, peer.got)
      BY <2>10 DEF Keeps
    <3>2. TextWaits(s, peer.got + room)
      BY <2>5, <2>6, <2>10, <3>1 DEF TextWaits
    <3>3. Keeps(s, peer.got + Len(bytes))
      BY <2>2, <2>6, <3>2 DEF Keeps
    <3> QED
      BY <1>1, <2>2, <2>4, <2>5, <2>7, <2>8, <2>10, <3>3, PutKeeps
  <2> QED
    BY <2>6, <2>9, <2>10 DEF SentSound, SentKeeps
<1> QED
  BY <1>7, <1>8 DEF BasicAck, room, available, none

\* What the source gives of what it is asked for.
LEMMA FillsIs ==
  ASSUME NEW r \in ResponseRecords, NEW max \in Nat, NEW n \in Fills(r, max), n # Again
  PROVE  /\ n \in Nat /\ n <= r.left /\ n <= max
         /\ n = 0 /\ r.kind # "sized" /\ max > 0 => r.left = 0
<1>1. r.left \in Nat
  BY DEF ResponseRecords
<1>2. CASE n \in {k \in 1..max : k <= r.left}
  BY <1>1, <1>2
<1>3. CASE n = 0 /\ (r.left = 0 \/ max = 0 \/ r.kind = "sized")
  BY <1>1, <1>3
<1> QED
  BY <1>2, <1>3 DEF Fills

\* The head, if it is left, and as much content as there is room for.
LEMMA ContentWritten ==
  ASSUME Sending, NEW sent \in 0..sendBuf, NEW r, Sound(r), r.kind # "basic",
         r.state = "CONTENT", NEW n \in Nat, n <= r.left,
         r.kind = "sized" => r.sent + n <= r.length,
         r.kind = "chunked" /\ n = 0 => r.left = 0,
         WriteContent(r, n, sent)
  PROVE  /\ SentSound(r)
         /\ /\ notes' = {} /\ peer.whole /\ r.content = <<>> /\ From(r.head, peer.got)
            /\ peer.got + Len(r.head) = r.made
            /\ sent + Len(r.head) + (IF r.kind = "chunked" THEN ChunkLen(n) ELSE n) <= sendBuf
            => SentKeeps(r, sent)
<1> DEFINE k == IF r.kind = "chunked" THEN ChunkLen(n) ELSE n
           new == Bytes(r.made, k)
           bytes == r.head \o new
           done == \/ r.kind = "chunked" /\ n = 0
                   \/ r.kind = "open" /\ bytes = <<>>
                   \/ r.kind # "chunked" /\ r.sent + n = r.length
           none == <<>>
           made == r.made + Len(new)
           left == r.left - n
           sentNow == r.sent + n
           waits == IF n = 0 /\ r.left > 0 THEN r.waits + 1 ELSE r.waits
           state == IF done THEN "WAIT_ACK" ELSE r.state
           s == [r EXCEPT !.head = none, !.made = made, !.left = left, !.sent = sentNow,
                          !.waits = waits, !.state = state]
           ns == notes \cup IF r.kind = "open" /\ done /\ r.left > n THEN {"cutShort"} ELSE {}
<1>1. /\ r \in ResponseRecords /\ r.head \in Seq(Nat) /\ Len(r.head) \in Nat /\ r.sent \in Nat
      /\ r.length \in Nat /\ r.made \in Nat /\ r.left \in Nat /\ r.waits \in Nat
      /\ r.sent <= r.length + r.made
  BY DEF Sound, ResponseRecords
<1>2. k \in Nat /\ n <= k /\ sent \in Nat /\ sendBuf \in Nat
  BY DEF ChunkLen, Sending
<1>3. k = IF r.kind = "chunked" THEN ChunkLen(n) ELSE n
  OBVIOUS
<1>4. none \in Seq(Nat) /\ none = <<>>
  OBVIOUS
<1>5. Writes(bytes, s, sent, ns)
  BY DEF WriteContent
<1> HIDE DEF k, none
<1>6. new \in Seq(Nat) /\ Len(new) = k /\ From(new, r.made)
  BY <1>1, <1>2, BytesIs
<1> HIDE DEF new
<1>7. bytes \in Seq(Nat) /\ Len(bytes) = Len(r.head) + k
  BY <1>1, <1>6, ConcatProperties
<1> HIDE DEF bytes
<1>8. made = r.made + k
  BY <1>6
<1> HIDE DEF made
<1>9. /\ made \in Nat /\ left \in Nat /\ sentNow \in Nat /\ waits \in Nat
      /\ state \in {"CONTENT", "WAIT_ACK"}
  <2>1. made \in Nat
    BY <1>1, <1>2, <1>8
  <2>2. left \in Nat
    BY <1>1
  <2>3. sentNow \in Nat
    BY <1>1
  <2>4. waits \in Nat
    BY <1>1
  <2>5. state \in {"CONTENT", "WAIT_ACK"}
    BY <1>1
  <2> QED
    BY <2>1, <2>2, <2>3, <2>4, <2>5
<1>10. sentNow <= r.length + made /\ (r.kind = "sized" => sentNow <= r.length)
  <2>1. \A a, b, l, m, x \in Nat : a <= l + m /\ b <= x => a + b <= l + (m + x)
    OBVIOUS
  <2>2. r.sent + n <= r.length + (r.made + k)
    BY <1>1, <1>2, <2>1
  <2>3. sentNow = r.sent + n
    OBVIOUS
  <2>4. r.kind = "sized" => sentNow <= r.length
    BY <2>3
  <2> QED
    BY <1>8, <2>2, <2>3, <2>4
<1>11. /\ r.kind = "sized" /\ done => sentNow = r.length
       /\ r.kind = "chunked" /\ done => left = 0
       /\ r.kind = "open" /\ done => "cutShort" \in ns \/ left = 0
       /\ state = IF done THEN "WAIT_ACK" ELSE "CONTENT"
  BY <1>1
<1>12. notes \subseteq ns /\ ns \subseteq Notes
  BY DEF Sending, Notes
<1> HIDE DEF done, left, sentNow, waits, state, ns
<1>13. /\ s \in ResponseRecords /\ s.kind = r.kind /\ s.head = none /\ s.made = made
       /\ s.left = left /\ s.sent = sentNow /\ s.state = state /\ s.content = r.content
       /\ s.length = r.length /\ s.acked = r.acked /\ s.written = r.written
  BY <1>1, <1>4, <1>9 DEF ResponseRecords
<1> HIDE DEF s
<1>14. Sound(s) /\ s.state # "END"
  BY <1>9, <1>10, <1>13 DEF Sound
<1>15. SentSound(s) /\ ns \subseteq notes'
  BY <1>2, <1>7, <1>5, <1>12, <1>14, PutSound
<1>16. ASSUME notes' = {}, peer.whole, r.content = <<>>, From(r.head, peer.got),
              peer.got + Len(r.head) = r.made, sent + Len(r.head) + k <= sendBuf
       PROVE  SentKeeps(s, sent)
  <2>1. peer.got \in Nat
    BY DEF Sending, PeerRecords
  <2>2. From(bytes, peer.got)
    <3>1. From(new, peer.got + Len(r.head))
      BY <1>6, <1>16
    <3> QED
      BY <1>1, <1>6, <1>16, <2>1, <3>1, FromConcat DEF bytes
  <2>3. peer.got + Len(bytes) = s.made
    <3>1. \A a, b \in Nat : a + (b + k) = (a + b) + k
      BY <1>2
    <3>2. peer.got + (Len(r.head) + k) = r.made + k
      BY <1>1, <1>16, <2>1, <3>1
    <3>3. s.made = r.made + k /\ Len(bytes) = Len(r.head) + k
      BY <1>7, <1>8, <1>13
    <3> QED
      BY <3>2, <3>3
  <2>4. s.state = "CONTENT" => TextWaits(s, peer.got + Len(bytes))
    <3>1. s.head = <<>> /\ s.content = <<>> /\ s.kind # "basic"
      BY <1>4, <1>13, <1>16
    <3>2. From(s.content, peer.got + Len(bytes)) /\ Len(s.content) = 0
      BY <3>1 DEF From
    <3>3. peer.got + Len(bytes) + Len(s.content) = s.made
      BY <1>9, <1>13, <2>3, <3>2
    <3> QED
      BY <3>1, <3>2, <3>3 DEF TextWaits
  <2>5. s.state = "WAIT_ACK" => AllWritten(s, peer.got + Len(bytes))
    <3> SUFFICES ASSUME s.state = "WAIT_ACK" PROVE AllWritten(s, peer.got + Len(bytes))
      OBVIOUS
    <3>1. done
      BY <1>11, <1>13
    <3>2. "cutShort" \notin ns
      BY <1>15, <1>16
    <3>3. r.kind \in {"sized", "open", "chunked"}
      BY <1>1 DEF ResponseRecords
    <3>4. IF s.kind = "sized" THEN s.sent = s.length ELSE s.left = 0
      BY <1>11, <1>13, <3>1, <3>2, <3>3
    <3> QED
      BY <2>3, <3>4 DEF AllWritten
  <2>6. Keeps(s, peer.got + Len(bytes))
    BY <1>9, <1>13, <2>4, <2>5 DEF Keeps
  <2> QED
    <3>1. sent + Len(bytes) <= sendBuf
      BY <1>1, <1>2, <1>7, <1>16
    <3> QED
      BY <1>2, <1>7, <1>5, <1>14, <1>16, <2>2, <2>6, <3>1, PutKeeps
<1> QED
  BY <1>3, <1>13, <1>15, <1>16 DEF SentSound, SentKeeps

\* The source is asked for as much as there is room for.
LEMMA ContentGoesOn ==
  ASSUME Sending, NEW sent \in 0..sendBuf, NEW r, Sound(r), r.kind # "basic",
         r.state = "CONTENT", NEW room \in Nat, SendContent(r, room, sent)
  PROVE  /\ SentSound(r)
         /\ /\ notes' = {} /\ peer.whole /\ r.content = <<>> /\ From(r.head, peer.got)
            /\ peer.got + Len(r.head) = r.made /\ sent + Len(r.head) + room <= sendBuf
            => SentKeeps(r, sent)
<1> DEFINE outLen == OutLen(r, room)
           asks == outLen + Len(r.head) > 0 /\ (r.kind = "chunked" => room > 8)
           waits == r.waits + 1
           a == [r EXCEPT !.waits = waits]
<1>1. /\ r \in ResponseRecords /\ r.head \in Seq(Nat) /\ Len(r.head) \in Nat /\ r.sent \in Nat
      /\ r.length \in Nat /\ r.made \in Nat /\ r.left \in Nat /\ r.waits \in Nat
      /\ r.kind \in {"basic", "sized", "open", "chunked"}
      /\ r.kind = "sized" => r.sent <= r.length
  BY DEF Sound, ResponseRecords
<1>2. sent \in Nat /\ sendBuf \in Nat /\ peer.got \in Nat
  BY DEF Sending, PeerRecords
<1>3. /\ outLen \in Nat /\ outLen <= room
      /\ r.kind # "sized" => outLen = room
      /\ r.kind = "sized" => outLen <= r.length - r.sent
  BY <1>1 DEF OutLen, Smaller
<1>4. /\ LateHead(r) \subseteq Notes /\ notes \subseteq LateHead(r)
      /\ LateHead(r) = {} => r.head = <<>>
  BY DEF LateHead, Sending, Notes
<1>5. waits \in Nat
  BY <1>1
<1> HIDE DEF outLen, waits
<1>6. /\ a \in ResponseRecords /\ a.kind = r.kind /\ a.head = r.head /\ a.made = r.made
      /\ a.left = r.left /\ a.sent = r.sent /\ a.state = r.state /\ a.content = r.content
      /\ a.length = r.length /\ a.acked = r.acked /\ a.written = r.written
  BY <1>1, <1>5 DEF ResponseRecords
<1> HIDE DEF a
<1>7. Sound(a)
  BY <1>6 DEF Sound
<1>8. ASSUME NEW s, Sound(s), s.kind # "basic", s.state = "CONTENT", s.head = r.head, s.made = r.made,
             s.content = r.content, s.acked = r.acked, s.written = r.written,
             Leaves(s, sent, LateHead(r))
      PROVE  /\ SentSound(r)
             /\ /\ notes' = {} /\ peer.whole /\ r.content = <<>> /\ peer.got + Len(r.head) = r.made
                => SentKeeps(r, sent)
  <2>1. SentSound(s) /\ LateHead(r) \subseteq notes'
    BY <1>4, <1>8, LeavesSound
  <2>2. ASSUME notes' = {}, peer.whole, r.content = <<>>, peer.got + Len(r.head) = r.made
        PROVE  SentKeeps(s, sent)
    <3>1. s.head = <<>> /\ s.content = <<>>
      BY <1>4, <1>8, <2>1, <2>2
    <3>2. Len(s.content) = 0 /\ From(s.content, peer.got) /\ Len(s.head) = 0
      BY <3>1 DEF From
    <3>3. peer.got + Len(s.content) = s.made
      BY <1>2, <1>8, <2>2, <3>2
    <3>4. Keeps(s, peer.got)
      BY <1>8, <3>1, <3>2, <3>3 DEF Keeps, TextWaits
    <3> QED
      BY <1>8, <2>2, <3>4, LeavesKeeps
  <2> QED
    BY <1>8, <2>1, <2>2 DEF SentSound, SentKeeps
<1>9. CASE ~asks /\ Leaves(r, sent, LateHead(r))
  BY <1>8, <1>9
<1>10. CASE Leaves(a, sent, LateHead(r))
  BY <1>6, <1>7, <1>8, <1>10
<1>11. ASSUME asks, NEW n \in Fills(r, Ask(r, outLen)), n # Again, WriteContent(r, n, sent)
       PROVE  /\ SentSound(r)
              /\ /\ notes' = {} /\ peer.whole /\ r.content = <<>> /\ From(r.head, peer.got)
                 /\ peer.got + Len(r.head) = r.made /\ sent + Len(r.head) + room <= sendBuf
                 => SentKeeps(r, sent)
  <2> DEFINE max == Ask(r, outLen)
             k == IF r.kind = "chunked" THEN ChunkLen(n) ELSE n
  <2>1. r.kind = "chunked" => max = room - 8 /\ room > 8
    BY <1>3, <1>11 DEF Ask
  <2>2. r.kind # "chunked" => max = outLen
    BY DEF Ask
  <2> HIDE DEF max
  <2>3. max \in Nat
    BY <1>3, <2>1, <2>2
  <2>4. n \in Fills(r, max)
    BY <1>11 DEF max
  <2>5. n \in Nat /\ n <= r.left /\ n <= max /\ (n = 0 /\ r.kind # "sized" /\ max > 0 => r.left = 0)
    BY <1>1, <1>11, <2>3, <2>4, FillsIs
  <2>6. r.kind = "chunked" /\ n = 0 => r.left = 0
    BY <2>1, <2>5
  <2>7. r.kind = "sized" => r.sent + n <= r.length
    <3> SUFFICES ASSUME r.kind = "sized" PROVE r.sent + n <= r.length
      OBVIOUS
    <3>1. n <= outLen /\ outLen <= r.length - r.sent
      BY <1>3, <2>2, <2>5
    <3> QED
      BY <1>1, <1>3, <2>5, <3>1
  <2>8. k \in Nat /\ k <= room
    <3>1. CASE r.kind = "chunked"
      <4>1. k = n + 8 /\ n <= room - 8
        BY <2>1, <2>5, <3>1 DEF ChunkLen
      <4> QED
        BY <2>5, <4>1
    <3>2. CASE r.kind # "chunked"
      <4>1. k = n /\ n <= outLen
        BY <2>2, <2>5, <3>2
      <4> QED
        BY <1>3, <2>5, <4>1
    <3> QED
      BY <3>1, <3>2
  <2>9. SentSound(r)
    BY <1>11, <2>5, <2>6, <2>7, ContentWritten
  <2>10. ASSUME notes' = {}, peer.whole, r.content = <<>>, From(r.head, peer.got),
                peer.got + Len(r.head) = r.made, sent + Len(r.head) + room <= sendBuf
         PROVE  SentKeeps(r, sent)
    <3>1. sent + Len(r.head) + k <= sendBuf
      <4> HIDE DEF k
      <4> QED
        BY <1>1, <1>2, <2>8, <2>10
    <3> QED
      BY <1>11, <2>5, <2>6, <2>7, <2>10, <3>1, ContentWritten
  <2> QED
    BY <2>9, <2>10
<1>12. \/ ~asks /\ Leaves(r, sent, LateHead(r))
       \/ Leaves(a, sent, LateHead(r))
       \/ asks /\ \E n \in Fills(r, Ask(r, outLen)) : n # Again /\ WriteContent(r, n, sent)
  BY DEF SendContent, outLen, a, waits
<1> QED
  BY <1>9, <1>10, <1>11, <1>12

\* The head, as far as there is room for it, and the content behind it.
LEMMA AbstractGoesOn ==
  ASSUME Sending, NEW sent \in 0..sendBuf, NEW r, Sound(r), r.kind # "basic", AbstractAck(r, sent)
  PROVE  /\ SentSound(r)
         /\ notes' = {} /\ peer.whole /\ Keeps(r, peer.got) => SentKeeps(r, sent)
<1> DEFINE room == sendBuf - sent
<1>1. room \in Nat /\ sendBuf \in Nat /\ sent \in Nat /\ sent + room = sendBuf
  BY DEF Sending
<1>2. /\ r \in ResponseRecords /\ r.head \in Seq(Nat) /\ Len(r.head) \in Nat /\ r.made \in Nat
  BY DEF Sound, ResponseRecords
<1>3. peer.got \in Nat /\ notes \subseteq notes /\ notes \subseteq Notes
  BY DEF Sending, PeerRecords
<1> HIDE DEF room
<1>4. CASE /\ r.state = "HEADERS" /\ room < Len(r.head)
           /\ Writes(Take(r.head, room), [r EXCEPT !.head = Drop(r.head, room)], sent, notes)
  <2> DEFINE c == Drop(r.head, room)
             bytes == Take(r.head, room)
             s == [r EXCEPT !.head = c]
  <2>1. room \in 0..Len(r.head)
    BY <1>1, <1>2, <1>4
  <2>2. bytes \in Seq(Nat) /\ Len(bytes) = room /\ c \in Seq(Nat) /\ Len(c) = Len(r.head) - room
    BY <1>2, <2>1, TakeIs, DropIs
  <2>3. Writes(bytes, s, sent, notes)
    BY <1>4
  <2>4. From(r.head, peer.got) => From(bytes, peer.got) /\ From(c, peer.got + room)
    BY <1>2, <1>3, <2>1, FromTake
  <2> HIDE DEF c, bytes
  <2>5. /\ s \in ResponseRecords /\ s.kind = r.kind /\ s.state = r.state /\ s.made = r.made
        /\ s.left = r.left /\ s.acked = r.acked /\ s.written = r.written /\ s.sent = r.sent
        /\ s.length = r.length /\ s.content = r.content /\ s.head = c
    BY <1>2, <2>2 DEF ResponseRecords
  <2> HIDE DEF s
  <2>6. Sound(s)
    BY <2>5 DEF Sound
  <2>7. SentSound(s)
    BY <1>3, <1>4, <2>2, <2>3, <2>5, <2>6, PutSound
  <2>8. ASSUME notes' = {}, peer.whole, Keeps(r, peer.got) PROVE SentKeeps(s, sent)
    <3>1. HeadWaits(r, peer.got)
      BY <1>4, <2>8 DEF Keeps
    <3>2. From(bytes, peer.got) /\ From(c, peer.got + room) /\ peer.got + Len(r.head) = r.made
      BY <2>4, <3>1 DEF HeadWaits
    <3>3. peer.got + room + Len(c) = r.made /\ Len(c) # 0
      <4>1. \A a, b, d, m \in Nat : a + d = m => a + b + (d - b) = m
        OBVIOUS
      <4>2. peer.got + room + (Len(r.head) - room) = r.made
        BY <1>1, <1>2, <1>3, <3>2, <4>1
      <4>3. Len(c) # 0
        BY <1>1, <1>2, <1>4, <2>2
      <4> QED
        BY <2>2, <4>2, <4>3
    <3>4. c # <<>>
      BY <3>3
    <3>5. HeadWaits(s, peer.got + room)
      BY <2>5, <3>1, <3>2, <3>3, <3>4 DEF HeadWaits
    <3>6. Keeps(s, peer.got + Len(bytes))
      BY <1>4, <2>2, <2>5, <3>5 DEF Keeps
    <3>7. sent + Len(bytes) <= sendBuf
      BY <1>1, <2>2
    <3> QED
      BY <1>1, <2>2, <2>3, <2>6, <2>8, <3>2, <3>6, <3>7, PutKeeps
  <2> QED
    BY <2>5, <2>7, <2>8 DEF SentSound, SentKeeps
<1>5. CASE /\ r.state = "HEADERS" /\ room >= Len(r.head)
           /\ SendContent([r EXCEPT !.state = "CONTENT"], room - Len(r.head), sent)
  <2> DEFINE s == [r EXCEPT !.state = "CONTENT"]
  <2>1. /\ s \in ResponseRecords /\ s.kind = r.kind /\ s.state = "CONTENT" /\ s.made = r.made
        /\ s.left = r.left /\ s.acked = r.acked /\ s.written = r.written /\ s.sent = r.sent
        /\ s.length = r.length /\ s.content = r.content /\ s.head = r.head
    BY <1>2 DEF ResponseRecords
  <2>2. SendContent(s, room - Len(r.head), sent)
    BY <1>5
  <2> HIDE DEF s
  <2>3. Sound(s)
    BY <2>1 DEF Sound
  <2>4. room - Len(r.head) \in Nat /\ sent + Len(s.head) + (room - Len(r.head)) <= sendBuf
    BY <1>1, <1>2, <1>5, <2>1
  <2>5. SentSound(s)
    BY <2>1, <2>2, <2>3, <2>4, ContentGoesOn
  <2>6. ASSUME notes' = {}, peer.whole, Keeps(r, peer.got) PROVE SentKeeps(s, sent)
    <3>1. HeadWaits(r, peer.got)
      BY <1>5, <2>6 DEF Keeps
    <3>2. s.content = <<>> /\ From(s.head, peer.got) /\ peer.got + Len(s.head) = s.made
      BY <2>1, <3>1 DEF HeadWaits
    <3> QED
      BY <2>1, <2>2, <2>3, <2>4, <2>6, <3>2, ContentGoesOn
  <2> QED
    BY <2>1, <2>5, <2>6 DEF SentSound, SentKeeps
<1>6. CASE r.state = "CONTENT" /\ SendContent(r, room, sent)
  <2>1. SentSound(r)
    BY <1>1, <1>6, ContentGoesOn
  <2>2. ASSUME notes' = {}, peer.whole, Keeps(r, peer.got) PROVE SentKeeps(r, sent)
    <3>1. /\ r.head = <<>> /\ r.content = <<>> /\ Len(r.content) = 0 /\ Len(r.head) = 0
          /\ peer.got + Len(r.content) = r.made
      BY <1>6, <2>2 DEF Keeps, TextWaits
    <3>2. From(r.head, peer.got)
      BY <3>1 DEF From
    <3>3. peer.got + Len(r.head) = r.made /\ sent + Len(r.head) + room <= sendBuf
      BY <1>1, <1>3, <3>1
    <3> QED
      BY <1>1, <1>6, <2>2, <3>1, <3>2, <3>3, ContentGoesOn
  <2> QED
    BY <2>1, <2>2
<1> QED
  BY <1>4, <1>5, <1>6 DEF AbstractAck, room

\* A new response begins with its head.
LEMMA Responded ==
  ASSUME Sending, NEW sent \in 0..sendBuf, Respond(sent)
  PROVE  \E r : /\ SentSound(r) /\ r.acked = 0 /\ r.written = 0
                /\ notes' = {} /\ peer.whole /\ peer.got = 0 => SentKeeps(r, sent)
<1>1. ASSUME NEW a, a.kind \in {"basic", "sized", "open", "chunked"}, a.length \in Nat, a.has \in Nat
      PROVE  /\ NewResponse(a) \in ResponseRecords /\ NewResponse(a).kind = a.kind
             /\ NewResponse(a).head = Bytes(0, HeadLen) /\ NewResponse(a).length = a.length
             /\ NewResponse(a).state = "HEADERS" /\ NewResponse(a).sent = 0
             /\ NewResponse(a).acked = 0 /\ NewResponse(a).written = 0
             /\ a.kind = "basic" => /\ NewResponse(a).content = Bytes(HeadLen, a.length)
                                    /\ NewResponse(a).made = HeadLen + a.length
                                    /\ NewResponse(a).left = 0
             /\ a.kind # "basic" => /\ NewResponse(a).content = <<>>
                                    /\ NewResponse(a).made = HeadLen
  <2> DEFINE none == <<>>
             content == IF a.kind = "basic" THEN Bytes(HeadLen, a.length) ELSE none
             made == HeadLen + IF a.kind = "basic" THEN a.length ELSE 0
             left == IF a.kind = "basic" THEN 0 ELSE a.has
             head == Bytes(0, HeadLen)
  <2>1. HeadLen \in Nat
    BY LengthAssumption
  <2>2. none \in Seq(Nat) /\ none = <<>>
    OBVIOUS
  <2> HIDE DEF none
  <2>3. head \in Seq(Nat) /\ head = Bytes(0, HeadLen)
    BY <2>1, BytesIs
  <2>4. content \in Seq(Nat)
    BY <1>1, <2>1, <2>2, BytesIs
  <2>5. made \in Nat /\ left \in Nat
    BY <1>1, <2>1
  <2>6. NewResponse(a) =
          [kind |-> a.kind, state |-> "HEADERS", head |-> head, content |-> content,
           length |-> a.length, sent |-> 0, acked |-> 0, written |-> 0, made |-> made,
           left |-> left, waits |-> 0, valid |-> TRUE]
    BY DEF NewResponse, none
  <2>7. /\ a.kind = "basic" => content = Bytes(HeadLen, a.length) /\ made = HeadLen + a.length
                               /\ left = 0
        /\ a.kind # "basic" => content = <<>> /\ made = HeadLen
    BY <2>1, <2>2
  <2> HIDE DEF content, made, left, head
  <2> QED
    BY <1>1, <2>3, <2>4, <2>5, <2>6, <2>7 DEF ResponseRecords
<1>2. ASSUME NEW a, a.kind = "basic", a.length \in Nat, a.has \in Nat,
             BasicRespond(NewResponse(a), sent)
      PROVE  /\ SentSound(NewResponse(a))
             /\ notes' = {} /\ peer.whole /\ peer.got = 0 => SentKeeps(NewResponse(a), sent)
  <2> DEFINE r == NewResponse(a)
  <2>1. /\ r \in ResponseRecords /\ r.kind = "basic" /\ r.head = Bytes(0, HeadLen)
        /\ r.length = a.length /\ r.sent = 0 /\ r.content = Bytes(HeadLen, a.length)
        /\ r.made = HeadLen + a.length /\ r.left = 0
    BY <1>1, <1>2
  <2>2. BasicRespond(r, sent)
    BY <1>2
  <2> HIDE DEF r
  <2>3. /\ SentSound(r)
        /\ notes' = {} /\ peer.whole /\ peer.got = 0 => SentKeeps(r, sent)
    BY <1>2, <2>1, <2>2, BasicBegins
  <2> QED
    BY <2>3 DEF r
<1>3. ASSUME NEW a \in Responses, a.kind # "basic", AbstractAck(NewResponse(a), sent)
      PROVE  /\ SentSound(NewResponse(a))
             /\ notes' = {} /\ peer.whole /\ peer.got = 0 => SentKeeps(NewResponse(a), sent)
  <2> DEFINE r == NewResponse(a)
  <2>1. a.kind \in {"basic", "sized", "open", "chunked"} /\ a.length \in Nat /\ a.has \in Nat
    BY LengthAssumption
  <2>2. /\ r \in ResponseRecords /\ r.kind = a.kind /\ r.state = "HEADERS" /\ r.head = Bytes(0, HeadLen)
        /\ r.sent = 0 /\ r.content = <<>> /\ r.made = HeadLen
    BY <1>1, <1>3, <2>1
  <2>3. AbstractAck(r, sent)
    BY <1>3
  <2> HIDE DEF r
  <2>4. HeadLen \in Nat \ {0} /\ r.length \in Nat /\ r.made \in Nat
    BY <2>2, LengthAssumption DEF ResponseRecords
  <2>5. Sound(r)
    BY <1>3, <2>2, <2>4 DEF Sound
  <2>6. r.head \in Seq(Nat) /\ Len(r.head) = HeadLen /\ From(r.head, 0)
    BY <2>2, <2>4, BytesIs
  <2>7. r.head # <<>> /\ 0 + Len(r.head) = r.made
    BY <2>2, <2>4, <2>6
  <2>8. Keeps(r, 0)
    BY <1>3, <2>2, <2>6, <2>7 DEF Keeps, HeadWaits
  <2>9. /\ SentSound(r)
        /\ notes' = {} /\ peer.whole /\ Keeps(r, peer.got) => SentKeeps(r, sent)
    BY <1>3, <2>2, <2>3, <2>5, AbstractGoesOn
  <2> QED
    BY <2>8, <2>9 DEF r
<1>4. CASE \E a \in Responses : IF NewResponse(a).kind = "basic" THEN BasicRespond(NewResponse(a), sent)
                                                                 ELSE AbstractAck(NewResponse(a), sent)
  <2>1. PICK a \in Responses : IF NewResponse(a).kind = "basic" THEN BasicRespond(NewResponse(a), sent)
                                                                ELSE AbstractAck(NewResponse(a), sent)
    BY <1>4
  <2>2. a.kind \in {"basic", "sized", "open", "chunked"} /\ a.length \in Nat /\ a.has \in Nat
    BY LengthAssumption
  <2>3. NewResponse(a).kind = a.kind /\ NewResponse(a).acked = 0 /\ NewResponse(a).written = 0
    BY <1>1, <2>2
  <2>4. CASE a.kind = "basic"
    BY <1>2, <2>1, <2>2, <2>3, <2>4
  <2>5. CASE a.kind # "basic"
    BY <1>3, <2>1, <2>3, <2>5
  <2> QED
    BY <2>4, <2>5
<1>5. CASE BasicRespond(NewResponse([kind |-> "basic", length |-> 0, has |-> 0]), sent)
  <2> DEFINE a == [kind |-> "basic", length |-> 0, has |-> 0]
  <2>1. a.kind = "basic" /\ a.length \in Nat /\ a.has \in Nat
    OBVIOUS
  <2>2. BasicRespond(NewResponse(a), sent)
    BY <1>5
  <2> HIDE DEF a
  <2>3. NewResponse(a).acked = 0 /\ NewResponse(a).written = 0
    BY <1>1, <2>1
  <2> QED
    BY <1>2, <2>1, <2>2, <2>3
<1> QED
  BY <1>4, <1>5 DEF Respond
-----------------------------------------------------------------------------
(***************************************************************************)
(* The steps.                                                              *)
(***************************************************************************)
\* An acknowledgement or a poll, of the response r.
Answers(r, evs) ==
  /\ events' = evs /\ UNCHANGED <<wire, sendBuf, handled, request, client>>
  /\ Sound(response') /\ response'.acked = r.acked
  /\ response'.state = "END" => AllAcked(response')
  /\ inflight' \in 0..sendBuf /\ peer' \in PeerRecords
  /\ notes \subseteq notes' /\ notes' \subseteq Notes
  /\ notes' = {} /\ peer.whole /\ Keeps(r, peer.got) => SentKeeps(r, inflight)

LEMMA AckAnswers ==
  ASSUME Sending, inflight \in 0..sendBuf, NEW r, Sound(r), r.state # "END", NEW evs, Ack(r, evs)
  PROVE  Deleted \/ Answers(r, evs)
<1>1. r \in ResponseRecords /\ r.state \in {"HEADERS", "CONTENT", "WAIT_ACK"}
  BY DEF Sound, ResponseRecords
<1>2. ASSUME SentSound(r), notes' = {} /\ peer.whole /\ Keeps(r, peer.got) => SentKeeps(r, inflight),
             events' = evs, UNCHANGED <<wire, sendBuf, handled, rxTimeout, request>>
      PROVE  Answers(r, evs)
  BY <1>2 DEF SentSound, Answers
<1>3. CASE /\ r.state = "WAIT_ACK"
           /\ Leaves(IF AllAcked(r) THEN [r EXCEPT !.state = "END"] ELSE r, inflight, notes)
           /\ events' = evs /\ UNCHANGED <<wire, sendBuf, handled, rxTimeout, request>>
  <2> DEFINE s == IF AllAcked(r) THEN [r EXCEPT !.state = "END"] ELSE r
  <2>1. /\ s \in ResponseRecords /\ s.kind = r.kind /\ s.made = r.made /\ s.left = r.left
        /\ s.acked = r.acked /\ s.written = r.written /\ s.sent = r.sent
        /\ s.length = r.length /\ s.state \in {"WAIT_ACK", "END"}
        /\ s.state = "END" => AllAcked(r)
    <3>1. CASE AllAcked(r)
      <4>1. s = [r EXCEPT !.state = "END"]
        BY <3>1
      <4> QED
        BY <1>1, <3>1, <4>1 DEF ResponseRecords
    <3>2. CASE ~AllAcked(r)
      <4>1. s = r
        BY <3>2
      <4> QED
        BY <1>1, <1>3, <4>1
    <3> QED
      BY <3>1, <3>2
  <2>2. Leaves(s, inflight, notes)
    BY <1>3
  <2> HIDE DEF s
  <2>3. Sound(s)
    BY <2>1 DEF Sound
  <2>4. s.state = "END" => AllAcked(s)
    BY <2>1 DEF AllAcked
  <2>5. /\ response' = s /\ inflight' = inflight /\ notes' = notes /\ peer' = peer
        /\ client' = client
    BY <2>2 DEF Leaves
  <2>6. ASSUME notes' = {}, peer.whole, Keeps(r, peer.got) PROVE SentKeeps(r, inflight)
    <3>1. AllWritten(r, peer.got)
      BY <1>3, <2>6 DEF Keeps
    <3>2. AllWritten(s, peer.got)
      BY <2>1, <3>1 DEF AllWritten
    <3>3. Keeps(s, peer.got)
      BY <2>1, <3>2 DEF Keeps
    <3> QED
      BY <2>1, <2>5, <2>6, <3>3 DEF SentKeeps
  <2>7. inflight' \in 0..sendBuf /\ peer' \in PeerRecords /\ notes \subseteq notes' /\ notes' \subseteq Notes
    BY <2>5 DEF Sending
  <2> QED
    BY <1>3, <2>1, <2>3, <2>4, <2>5, <2>6, <2>7 DEF Answers
<1>4. CASE /\ r.state # "WAIT_ACK" /\ r.kind = "basic" /\ BasicAck(r, inflight)
           /\ events' = evs /\ UNCHANGED <<wire, sendBuf, handled, rxTimeout, request>>
  <2>1. r.state = "CONTENT"
    BY <1>1, <1>4 DEF Sound
  <2> QED
    BY <1>2, <1>4, <2>1, BasicGoesOn
<1>5. CASE /\ r.state # "WAIT_ACK" /\ r.kind # "basic" /\ AbstractAck(r, inflight)
           /\ events' = evs /\ UNCHANGED <<wire, sendBuf, handled, rxTimeout, request>>
  BY <1>2, <1>5, AbstractGoesOn
<1>6. \/ Deleted
      \/ /\ \/ /\ r.state = "WAIT_ACK"
               /\ Leaves(IF AllAcked(r) THEN [r EXCEPT !.state = "END"] ELSE r, inflight, notes)
            \/ /\ r.state # "WAIT_ACK"
               /\ IF r.kind = "basic" THEN BasicAck(r, inflight) ELSE AbstractAck(r, inflight)
         /\ events' = evs /\ UNCHANGED <<wire, sendBuf, handled, rxTimeout, request>>
  BY DEF Ack
<1> QED
  BY <1>3, <1>4, <1>5, <1>6

\* What is known of the variables for a write.
LEMMA TypedSending ==
  ASSUME Typed PROVE Sending /\ inflight \in Nat /\ inflight \in 0..sendBuf
  BY LengthAssumption DEF Typed, Sending

\* The connection is closed.
LEMMA DeletedStep == Inv /\ Deleted => Inv'
<1> SUFFICES ASSUME Inv, Deleted PROVE Inv'
  OBVIOUS
<1>1. /\ client' = "GONE" /\ response' = NULL /\ events' = <<>> /\ inflight' = 0
      /\ UNCHANGED <<wire, sendBuf, peer, handled, notes, request>>
  BY DEF Deleted
<1>2. sendBuf \in Nat /\ MaxEvents \in Nat
  BY LengthAssumption DEF Inv, Typed
<1>3. <<>> \in Seq(EventRecords) /\ Len(<<>>) = 0
  OBVIOUS
<1>4. Typed'
  BY <1>1, <1>2, <1>3 DEF Inv, Typed
<1>5. RequestInv'
  BY RequestDeleted DEF Inv
<1>6. NoneSent'
  BY <1>1, <1>3 DEF NoneSent
<1>7. ResponseInv'
  BY <1>1, <1>6 DEF Inv, ResponseInv
<1> QED
  BY <1>4, <1>5, <1>7 DEF Inv

\* An acknowledgement or a poll that closes nothing: r is the response, with the events evs.
LEMMA AnswerStep ==
  ASSUME Inv, Open, response # NULL, NEW r, r.kind = response.kind, r.written = response.written,
         \A n : Keeps(response, n) => Keeps(r, n), NEW evs \in Seq(EventRecords),
         Len(evs) <= MaxEvents, Answers(r, evs), RequestInv',
         \A a, last : Acks(a, events, response.acked, last) => \E c : Acks(c, evs, r.acked, last)
  PROVE  Inv'
<1>1. Typed'
  BY DEF Inv, Typed, Answers
<1>2. handled' # 0
  BY DEF Inv, ResponseInv, RequestInv, Answers
<1>3. response'.state = "END" => AllAcked(response')
  BY DEF Answers
<1>4. ASSUME notes' = {}
      PROVE  peer'.whole /\ Keeps(response', peer'.got)
             /\ response'.written - inflight' = response.written - inflight
  <2>1. notes = {} /\ peer.whole /\ Keeps(r, peer.got)
    BY <1>4 DEF Inv, ResponseInv, Answers
  <2>2. SentKeeps(r, inflight)
    BY <1>4, <2>1 DEF Answers
  <2> QED
    BY <2>2 DEF SentKeeps
<1>5. ASSUME notes' = {}, ~request'.expect
      PROVE  \E a \in [1..(Len(events') + 1) -> Nat] :
               Acks(a, events', response'.acked, response'.written - inflight')
  <2>1. notes = {} /\ ~request.expect /\ events' = evs /\ response'.acked = r.acked
    BY <1>5 DEF Answers
  <2>2. PICK a : Acks(a, events, response.acked, response.written - inflight)
    BY <2>1 DEF Inv, ResponseInv
  <2>3. PICK c : Acks(c, evs, r.acked, response.written - inflight)
    BY <2>2
  <2>4. Acks(c, events', response'.acked, response'.written - inflight')
    BY <1>4, <1>5, <2>1, <2>3
  <2> QED
    BY <2>4 DEF Acks
<1>6. ResponseInv'
  BY <1>2, <1>3, <1>4, <1>5 DEF ResponseInv
<1> QED
  BY <1>1, <1>6 DEF Inv

LEMMA OnAckStep == Inv /\ OnAck => Inv'
<1> SUFFICES ASSUME Inv, OnAck PROVE Inv'
  OBVIOUS
<1> DEFINE e == Head(events)
           evs == Tail(events)
<1>1. Typed /\ RequestInv /\ Open /\ events # <<>> /\ e.type = "SENT"
  BY DEF Inv, OnAck
<1>2. events \in Seq(EventRecords) /\ Len(events) <= MaxEvents
  BY <1>1 DEF Typed
<1>3. /\ evs \in Seq(EventRecords) /\ Len(evs) \in Nat /\ Len(events) = Len(evs) + 1
      /\ e \in EventRecords /\ \A i \in 1..Len(evs) : evs[i] = events[i + 1]
  BY <1>1, <1>2, TailIs
<1>4. MaxEvents \in Nat
  BY LengthAssumption
<1>5. Len(evs) <= MaxEvents
  BY <1>2, <1>3, <1>4
<1>6. e.length \in Nat \ {0} /\ Acked(e) = e.length
  BY <1>1, <1>3, EventIs
<1>7. CASE response # NULL /\ ~Finished(response)
            /\ Ack([response EXCEPT !.acked = response.acked + e.length], evs)
  <2> DEFINE acked == response.acked + e.length
             r == [response EXCEPT !.acked = acked]
  <2>1. Sound(response) /\ response \in ResponseRecords /\ response.state # "END"
    BY <1>1, <1>7 DEF Typed, Sound, Finished
  <2>2. acked \in Nat /\ response.acked \in Nat
    BY <1>6, <2>1 DEF ResponseRecords
  <2>3. Ack(r, evs)
    BY <1>7
  <2>4. acked = response.acked + Acked(e)
    BY <1>6
  <2> HIDE DEF acked
  <2>5. /\ r \in ResponseRecords /\ r.kind = response.kind /\ r.state = response.state
        /\ r.head = response.head /\ r.content = response.content /\ r.made = response.made
        /\ r.left = response.left /\ r.written = response.written /\ r.sent = response.sent
        /\ r.length = response.length /\ r.acked = acked
    BY <2>1, <2>2 DEF ResponseRecords
  <2> HIDE DEF r
  <2>6. Sound(r)
    BY <2>1, <2>5 DEF Sound
  <2>7. Sending /\ inflight \in 0..sendBuf
    BY <1>1, TypedSending
  <2>8. Deleted \/ Answers(r, evs)
    BY <2>1, <2>3, <2>5, <2>6, <2>7, AckAnswers
  <2>9. CASE Deleted
    BY <2>9, DeletedStep
  <2>10. CASE Answers(r, evs)
    <3>1. ASSUME NEW n, Keeps(response, n) PROVE Keeps(r, n)
      BY <2>5, <3>1 DEF Keeps, HeadWaits, TextWaits, AllWritten
    <3>2. RequestInv'
      BY <1>1, <2>10, RequestTakesAck DEF Answers
    <3>3. ASSUME NEW a, NEW last, Acks(a, events, response.acked, last)
          PROVE  \E c : Acks(c, evs, r.acked, last)
      <4>1. \E c : Acks(c, evs, response.acked + Acked(e), last)
        BY <1>1, <1>2, <3>3, AcksTail
      <4> QED
        BY <2>4, <2>5, <4>1
    <3> HIDE DEF evs
    <3> QED
      BY <1>1, <1>3, <1>5, <1>7, <2>5, <2>10, <3>1, <3>2, <3>3, AnswerStep
  <2> QED
    BY <2>8, <2>9, <2>10
<1>8. CASE /\ response' = NULL /\ events' = evs
           /\ UNCHANGED <<wire, request, rxTimeout, client, sendBuf, inflight, peer, handled, notes>>
  <2>1. Typed'
    BY <1>1, <1>3, <1>5, <1>8 DEF Typed
  <2>2. RequestInv'
    BY <1>1, <1>8, RequestTakesAck
  <2>3. NoneSent => NoneSent'
    BY <1>3, <1>8 DEF NoneSent
  <2>4. ResponseInv'
    BY <1>8, <2>3 DEF Inv, ResponseInv
  <2> QED
    BY <2>1, <2>2, <2>4 DEF Inv
<1> QED
  BY <1>7, <1>8 DEF OnAck

LEMMA OnPollStep == Inv /\ OnPoll => Inv'
<1> SUFFICES ASSUME Inv, OnPoll PROVE Inv'
  OBVIOUS
<1>1. Typed /\ RequestInv /\ Open /\ response # NULL /\ Ack(response, events)
  BY DEF Inv, OnPoll
<1>2. Sound(response) /\ response.state # "END"
  BY <1>1 DEF Typed, OnPoll, Finished
<1>3. events \in Seq(EventRecords) /\ Len(events) <= MaxEvents
  BY <1>1 DEF Typed
<1>4. Deleted \/ Answers(response, events)
  BY <1>1, <1>2, AckAnswers, TypedSending
<1>5. CASE Deleted
  BY <1>5, DeletedStep
<1>6. CASE Answers(response, events)
  <2>1. RequestInv'
    BY <1>1, <1>6, RequestStays DEF Answers
  <2> QED
    BY <1>1, <1>3, <1>6, <2>1, AnswerStep
<1> QED
  BY <1>4, <1>5, <1>6

LEMMA PeerSendsStep == Inv /\ PeerSends => Inv'
<1> SUFFICES ASSUME Inv, PeerSends PROVE Inv'
  OBVIOUS
<1>1. /\ Typed /\ RequestInv /\ ResponseInv /\ Open /\ Len(events) < MaxEvents
      /\ UNCHANGED <<request, response, rxTimeout, client, sendBuf, inflight, peer, handled, notes>>
  BY DEF Inv, PeerSends
<1>2. PICK n \in 1..Len(wire) : /\ events' = Append(events, [type |-> "RECV", bytes |-> Take(wire, n)])
                                /\ wire' = Drop(wire, n)
  BY DEF PeerSends
<1> DEFINE bytes == Take(wire, n)
           e == [type |-> "RECV", bytes |-> bytes]
<1>3. events \in Seq(EventRecords) /\ wire \in Seq(Kinds) /\ MaxEvents \in Nat
  BY <1>1, LengthAssumption DEF Typed
<1>4. n \in 0..Len(wire) /\ n # 0
  BY <1>3
<1>5. bytes \in Seq(Kinds) /\ Len(bytes) = n /\ wire' \in Seq(Kinds)
  BY <1>2, <1>3, <1>4, TakeIs, DropIs
<1>6. bytes # <<>>
  BY <1>4, <1>5
<1> HIDE DEF bytes
<1>7. e \in EventRecords /\ e.type = "RECV" /\ e.bytes = bytes
  BY <1>5, <1>6 DEF EventRecords, RecvRecords
<1>8. events' = Append(events, e)
  BY <1>2 DEF bytes
<1> HIDE DEF e
<1>9. Text(e) = bytes /\ Acked(e) = 0
  BY <1>7, EventIs
<1>10. RequestInv'
  BY <1>1, <1>2, <1>4, <1>7, <1>8, <1>9, RequestAppends DEF bytes
<1>11. /\ events' \in Seq(EventRecords) /\ Len(events') <= MaxEvents
       /\ NoneSent => NoneSent'
  BY <1>1, <1>3, <1>7, <1>8 DEF NoneSent
<1>12. Typed'
  BY <1>1, <1>5, <1>11 DEF Typed
<1>13. ASSUME response # NULL, NEW a, NEW last, Acks(a, events, response.acked, last)
       PROVE  \E c \in [1..(Len(events') + 1) -> Nat] : Acks(c, events', response.acked, last)
  <2>1. PICK c : Acks(c, events', response.acked, last + Acked(e))
    BY <1>3, <1>7, <1>8, <1>13, AcksAppend
  <2>2. last \in Nat
    BY <1>3, <1>13, AcksAscend
  <2>3. last + Acked(e) = last
    BY <1>9, <2>2
  <2> QED
    BY <2>1, <2>3 DEF Acks
<1>14. ResponseInv'
  BY <1>1, <1>11, <1>13 DEF ResponseInv, AllAcked
<1> QED
  BY <1>10, <1>12, <1>14 DEF Inv

LEMMA AcknowledgeStep == Inv /\ Acknowledge => Inv'
<1> SUFFICES ASSUME Inv, Acknowledge PROVE Inv'
  OBVIOUS
<1>1. /\ Typed /\ RequestInv /\ ResponseInv /\ Open /\ Len(events) < MaxEvents /\ inflight > 0
      /\ UNCHANGED <<wire, request, response, rxTimeout, client, sendBuf, peer, handled, notes>>
  BY DEF Inv, Acknowledge
<1>2. /\ inflight \in Nat /\ inflight \in 0..sendBuf /\ sendBuf \in Nat
      /\ events \in Seq(EventRecords) /\ wire \in Seq(Kinds) /\ MaxEvents \in Nat
  BY <1>1, TypedSending, LengthAssumption DEF Typed, Sending
<1>3. PICK n \in {k \in AckLens : k < inflight} \cup {inflight} :
        /\ inflight' = inflight - n /\ events' = Append(events, [type |-> "SENT", length |-> n])
  BY DEF Acknowledge
<1>4. n \in Nat \ {0} /\ n <= inflight
  BY <1>1, <1>2, <1>3, LengthAssumption
<1> DEFINE e == [type |-> "SENT", length |-> n]
<1>5. e \in EventRecords /\ e.type = "SENT" /\ e.length = n
  BY <1>4 DEF EventRecords, SentRecords
<1>6. events' = Append(events, e)
  BY <1>3
<1> HIDE DEF e
<1>7. Text(e) = <<>> /\ Acked(e) = n
  BY <1>5, EventIs
<1>8. /\ 0 \in 0..Len(wire) /\ Take(wire, 0) = <<>> /\ Drop(wire, 0) = wire
  <2>1. 0 \in 0..Len(wire)
    BY <1>2
  <2>2. Len(Take(wire, 0)) = 0 /\ Take(wire, 0) \in Seq(Kinds)
    BY <1>2, <2>1, TakeIs
  <2>3. Take(wire, 0) = <<>>
    BY <2>2
  <2>4. Drop(wire, 0) = wire
    BY <1>2, SubSeqFull DEF Drop
  <2> QED
    BY <2>1, <2>3, <2>4
<1>9. RequestInv'
  BY <1>1, <1>5, <1>6, <1>7, <1>8, RequestAppends
<1>10. events' \in Seq(EventRecords) /\ Len(events') <= MaxEvents
  BY <1>1, <1>2, <1>5, <1>6
<1>11. inflight' \in 0..sendBuf
  BY <1>2, <1>3, <1>4
<1>12. Typed'
  BY <1>1, <1>10, <1>11 DEF Typed
<1>13. ASSUME response # NULL, NEW a, Acks(a, events, response.acked, response.written - inflight)
       PROVE  \E c \in [1..(Len(events') + 1) -> Nat] :
                Acks(c, events', response.acked, response.written - inflight')
  <2>1. PICK c : Acks(c, events', response.acked, response.written - inflight + Acked(e))
    BY <1>2, <1>5, <1>6, <1>13, AcksAppend
  <2>2. response.written \in Nat
    BY <1>1, <1>13 DEF Typed, Sound, ResponseRecords
  <2>3. response.written - inflight + Acked(e) = response.written - inflight'
    BY <1>2, <1>3, <1>4, <1>7, <2>2
  <2> QED
    BY <2>1, <2>3 DEF Acks
<1>14. handled = 0 => request.expect
  BY <1>1, <1>2 DEF ResponseInv
<1>15. ResponseInv'
  BY <1>1, <1>13, <1>14 DEF ResponseInv, AllAcked
<1> QED
  BY <1>9, <1>12, <1>15 DEF Inv

LEMMA SourceFailsStep == Inv /\ SourceFails => Inv'
<1> SUFFICES ASSUME Inv, SourceFails PROVE Inv'
  OBVIOUS
<1>1. /\ Typed /\ RequestInv /\ ResponseInv /\ response # NULL
      /\ response' = [response EXCEPT !.valid = FALSE]
      /\ UNCHANGED <<wire, request, rxTimeout, client, events, sendBuf, inflight, peer, handled, notes>>
  BY DEF Inv, SourceFails
<1>2. Sound(response) /\ response \in ResponseRecords
  BY <1>1 DEF Typed, Sound
<1> DEFINE s == [response EXCEPT !.valid = FALSE]
<1>3. /\ s \in ResponseRecords /\ s.kind = response.kind /\ s.state = response.state
      /\ s.head = response.head /\ s.content = response.content /\ s.made = response.made
      /\ s.left = response.left /\ s.written = response.written /\ s.sent = response.sent
      /\ s.length = response.length /\ s.acked = response.acked
  BY <1>2 DEF ResponseRecords
<1>4. response' = s
  BY <1>1
<1> HIDE DEF s
<1>5. Sound(s)
  BY <1>2, <1>3 DEF Sound
<1>6. ASSUME NEW n, Keeps(response, n) PROVE Keeps(s, n)
  BY <1>3, <1>6 DEF Keeps, HeadWaits, TextWaits, AllWritten
<1>7. AllAcked(response) => AllAcked(s)
  BY <1>3 DEF AllAcked
<1>8. Typed'
  BY <1>1, <1>4, <1>5 DEF Typed
<1>9. RequestInv'
  BY <1>1, RequestStays
<1>10. handled # 0
  BY <1>1 DEF ResponseInv
<1>11. ResponseInv'
  BY <1>1, <1>3, <1>4, <1>6, <1>7, <1>10 DEF ResponseInv
<1> QED
  BY <1>8, <1>9, <1>11 DEF Inv

\* A packet of the request is parsed, and the whole request handled.
LEMMA OnDataStep == Inv /\ OnData => Inv'
<1> SUFFICES ASSUME Inv, OnData PROVE Inv'
  OBVIOUS
<1> DEFINE e == Head(events)
           evs == Tail(events)
<1>1. Typed /\ RequestInv /\ ResponseInv /\ Open /\ events # <<>> /\ e.type = "RECV"
  BY DEF Inv, OnData
<1>2. /\ events \in Seq(EventRecords) /\ Len(events) <= MaxEvents /\ MaxEvents \in Nat
      /\ request \in RequestRecords /\ request.length \in {0, request.announced}
  BY <1>1, LengthAssumption DEF Typed
<1>3. /\ evs \in Seq(EventRecords) /\ Len(evs) \in Nat /\ Len(events) = Len(evs) + 1
      /\ e \in EventRecords /\ e = events[1] /\ \A i \in 1..Len(evs) : evs[i] = events[i + 1]
  BY <1>1, <1>2, TailIs
<1>4. Len(evs) <= MaxEvents
  BY <1>2, <1>3
<1>5. e.bytes \in Seq(Kinds) /\ Acked(e) = 0
  BY <1>1, <1>3, EventIs
<1>6. Sending /\ inflight \in Nat /\ inflight \in 0..sendBuf /\ ContinueLen \in Nat
  BY <1>1, TypedSending, LengthAssumption
<1>7. SUFFICES ASSUME ~Deleted PROVE Inv'
  BY DeletedStep
<1>8. PICK s \in ParsePacket(request, e.bytes) :
        LET q == Complete(s)
            continues == q.expect /\ request.parse \in {"START", "HEADERS"} /\ q.parse \in {"BODY", "END"}
            sent == inflight + IF continues THEN Smaller(ContinueLen, sendBuf - inflight) ELSE 0
            handles == q.parse = "END" /\ request.parse # "END"
        IN /\ q.parse # "FAIL"
           /\ \/ handles /\ Respond(sent)
              \/ ~handles /\ Leaves(response, sent, notes)
           /\ handled' = IF handles THEN handled + 1 ELSE handled
           /\ request' = q
           /\ events' = Tail(events)
           /\ UNCHANGED <<wire, sendBuf>>
  BY <1>7 DEF OnData
<1> DEFINE q == Complete(s)
           continues == q.expect /\ request.parse \in {"START", "HEADERS"} /\ q.parse \in {"BODY", "END"}
           sent == inflight + IF continues THEN Smaller(ContinueLen, sendBuf - inflight) ELSE 0
           handles == q.parse = "END" /\ request.parse # "END"
<1>9. /\ q.parse # "FAIL" /\ handled' = (IF handles THEN handled + 1 ELSE handled)
      /\ request' = q /\ events' = evs /\ UNCHANGED <<wire, sendBuf>>
  BY <1>8
<1>10. (handles /\ Respond(sent)) \/ (~handles /\ Leaves(response, sent, notes))
  BY <1>8
<1>11. /\ s \in RequestRecords /\ s.length \in {0, s.announced}
       /\ request.expect => s.expect
       /\ request.parse = "END" => s = request
  BY <1>2, <1>5, PacketFields
<1>12. /\ q \in RequestRecords /\ q.length \in {0, q.announced}
       /\ request.expect => q.expect
       /\ request.parse = "END" => q = request
  BY <1>11, CompleteFields
<1>13. handles => request.parse # "END" /\ q.parse = "END"
  OBVIOUS
<1>14. continues => q.expect /\ request.parse # "END"
  OBVIOUS
<1>15. /\ sent \in Nat /\ sent \in 0..sendBuf
       /\ ~continues => sent = inflight
  BY <1>6 DEF Sending, Smaller
<1>16. handled' = IF request'.parse = "END" /\ request.parse # "END" THEN handled + 1 ELSE handled
  BY <1>9
<1>17. client' = client /\ (~handles => response' = response /\ inflight' = sent /\ peer' = peer
                                        /\ notes' = notes)
  <2>1. CASE handles /\ Respond(sent)
    <3>1. PICK r : SentSound(r)
      BY <1>6, <1>15, <2>1, Responded
    <3> QED
      BY <2>1, <3>1 DEF SentSound
  <2>2. CASE ~handles /\ Leaves(response, sent, notes)
    BY <2>2 DEF Leaves
  <2> QED
    BY <1>10, <2>1, <2>2
<1>18. RequestInv'
  <2>1. Open'
    BY <1>1, <1>17 DEF Open
  <2>2. Complete(s).parse # "FAIL" /\ request' = Complete(s) /\ events' = Tail(events) /\ UNCHANGED wire
    BY <1>9
  <2>3. RequestInv' \/ ~Open'
    BY <1>1, <1>8, <1>16, <2>2, RequestParsed
  <2> QED
    BY <2>1, <2>3
<1>19. NoneSent => NoneSent'
  BY <1>3, <1>9 DEF NoneSent
<1> HIDE DEF q, continues, sent, handles, evs
<1>20. handled' \in Nat
  BY <1>1, <1>9 DEF Typed
<1>21. CASE ~handles
  <2>1. response' = response /\ inflight' = sent /\ peer' = peer /\ notes' = notes /\ client' = client
        /\ handled' = handled
    BY <1>9, <1>17, <1>21
  <2>2. Typed'
    BY <1>1, <1>3, <1>4, <1>9, <1>12, <1>15, <2>1 DEF Typed
  <2>3. handled = 0 /\ ~request'.expect => inflight' = 0 /\ NoneSent'
    <3> SUFFICES ASSUME handled = 0, ~request'.expect PROVE inflight' = 0 /\ NoneSent'
      OBVIOUS
    <3>1. ~q.expect
      BY <1>9
    <3>2. ~request.expect /\ ~continues
      BY <1>12, <1>14, <3>1
    <3> QED
      BY <1>1, <1>15, <1>19, <2>1, <3>2 DEF ResponseInv
  <2>4. response # NULL => q = request /\ sent = inflight
    <3> SUFFICES ASSUME response # NULL PROVE q = request /\ sent = inflight
      OBVIOUS
    <3>1. request.parse = "END"
      BY <1>1 DEF ResponseInv, RequestInv
    <3> QED
      BY <1>12, <1>14, <1>15, <3>1
  <2>5. ASSUME response # NULL, NEW a, NEW last, Acks(a, events, response.acked, last)
        PROVE  \E c \in [1..(Len(events') + 1) -> Nat] : Acks(c, events', response.acked, last)
    <3>1. PICK c : Acks(c, Tail(events), response.acked + Acked(Head(events)), last)
      BY <1>1, <1>2, <2>5, AcksTail
    <3>2. response.acked \in Nat
      BY <1>1, <2>5 DEF Typed, Sound, ResponseRecords
    <3>3. Acks(c, events', response.acked, last)
      BY <1>5, <1>9, <3>1, <3>2 DEF evs
    <3> QED
      BY <3>3 DEF Acks
  <2>6. ASSUME response # NULL, notes = {}
        PROVE  /\ Keeps(response, peer.got)
               /\ ~request'.expect =>
                    \E c \in [1..(Len(events') + 1) -> Nat] :
                      Acks(c, events', response.acked, response.written - inflight')
    <3>1. Keeps(response, peer.got)
      BY <1>1, <2>6 DEF ResponseInv
    <3>2. ASSUME ~request'.expect
          PROVE  \E c \in [1..(Len(events') + 1) -> Nat] :
                   Acks(c, events', response.acked, response.written - inflight')
      <4>1. ~request.expect /\ inflight' = inflight
        BY <1>9, <2>1, <2>4, <2>6, <3>2
      <4>2. PICK a : Acks(a, events, response.acked, response.written - inflight)
        BY <1>1, <2>6, <4>1 DEF ResponseInv
      <4> QED
        BY <2>5, <2>6, <4>1, <4>2
    <3> QED
      BY <3>1, <3>2
  <2>7. response # NULL /\ response.state = "END" => AllAcked(response)
    BY <1>1 DEF ResponseInv
  <2>8. notes = {} => peer.whole
    BY <1>1 DEF ResponseInv
  <2>9. handled = 0 => response = NULL /\ peer = [got |-> 0, whole |-> TRUE]
    BY <1>1 DEF ResponseInv
  <2>10. ResponseInv'
    BY <2>1, <2>3, <2>6, <2>7, <2>8, <2>9 DEF ResponseInv
  <2> QED
    BY <1>18, <2>2, <2>10 DEF Inv
<1>22. CASE handles
  <2>1. PICK r : /\ SentSound(r) /\ r.acked = 0 /\ r.written = 0
                 /\ notes' = {} /\ peer.whole /\ peer.got = 0 => SentKeeps(r, sent)
    BY <1>6, <1>10, <1>15, <1>22, Responded
  <2>2. handled = 0 /\ handled' # 0 /\ peer = [got |-> 0, whole |-> TRUE]
    BY <1>1, <1>9, <1>13, <1>22 DEF RequestInv, ResponseInv
  <2>3. Typed'
    BY <1>1, <1>3, <1>4, <1>9, <1>12, <1>17, <1>20, <2>1 DEF Typed, SentSound
  <2>4. peer.whole /\ peer.got = 0
    BY <2>2
  <2>5. ASSUME notes' = {} PROVE SentKeeps(r, sent)
    BY <2>1, <2>4, <2>5
  <2>6. ASSUME notes' = {}, ~request'.expect
        PROVE  \E c \in [1..(Len(events') + 1) -> Nat] :
                 Acks(c, events', response'.acked, response'.written - inflight')
    <3>1. ~request.expect /\ ~continues
      BY <1>9, <1>12, <1>14, <2>6
    <3>2. sent = 0 /\ NoneSent'
      BY <1>1, <1>15, <1>19, <2>2, <3>1 DEF ResponseInv
    <3>3. response'.written - inflight' = 0 /\ response'.acked = 0
      <4>1. response'.written - inflight' = r.written - sent /\ response'.acked = r.acked
        BY <2>1, <2>5, <2>6 DEF SentKeeps, SentSound
      <4> QED
        BY <2>1, <3>2, <4>1
    <3> DEFINE N == Len(events')
               c == [i \in 1..(N + 1) |-> 0]
    <3>4. N \in Nat /\ \A i \in 1..N : events'[i] \in EventRecords /\ events'[i].type = "RECV"
      BY <1>3, <1>9, <3>2 DEF NoneSent
    <3> HIDE DEF N
    <3>5. \A i \in 1..N : Acked(events'[i]) = 0
      BY <3>4, EventIs
    <3>6. /\ c \in [1..(N + 1) -> Nat] /\ c[1] = 0 /\ c[N + 1] = 0
          /\ \A i \in 1..N : c[i] = 0 /\ c[i + 1] = 0
      BY <3>4
    <3> HIDE DEF c
    <3>7. Acks(c, events', 0, 0)
      BY <3>5, <3>6 DEF Acks, N
    <3> QED
      BY <3>3, <3>6, <3>7 DEF N
  <2>7. response'.state # "END"
    BY <2>1 DEF SentSound
  <2>8. ASSUME notes' = {} PROVE peer'.whole /\ Keeps(response', peer'.got)
    BY <2>5, <2>8 DEF SentKeeps
  <2>9. ResponseInv'
    BY <2>2, <2>6, <2>7, <2>8 DEF ResponseInv
  <2> QED
    BY <1>18, <2>3, <2>9 DEF Inv
<1> QED
  BY <1>21, <1>22
-----------------------------------------------------------------------------
(***************************************************************************)
(* The theorems.                                                           *)
(***************************************************************************)
LEMMA InitInv == Init => Inv
<1> SUFFICES ASSUME Init PROVE Inv
  OBVIOUS
<1>1. PICK q \in Requests :
        /\ wire = q.bytes
        /\ request = [parse |-> "START", line |-> {}, length |-> 0, parsed |-> 0,
                      expect |-> FALSE, announced |-> q.length]
  BY DEF Init
<1>2. /\ q.bytes \in Seq(Kinds) /\ q.length \in Nat
      /\ EmptyFirstLine(q) \/ \E h \in 2..Len(q.bytes) : HeadIs(q, h)
  BY RequestsAssumption
<1>3. /\ response = NULL /\ client = "OPEN" /\ events = <<>> /\ sendBuf \in SendBufs /\ inflight = 0
      /\ peer = [got |-> 0, whole |-> TRUE] /\ handled = 0 /\ notes = {}
  BY DEF Init
<1>4. sendBuf \in Nat /\ MaxEvents \in Nat
  BY <1>3, LengthAssumption
<1>5. events \in Seq(EventRecords) /\ Len(events) = 0
  BY <1>3
<1>6. request \in RequestRecords /\ request.length \in {0, request.announced}
  <2>1. {} \in SUBSET Kinds
    OBVIOUS
  <2> QED
    BY <1>1, <1>2, <2>1 DEF RequestRecords, Parses
<1>7. peer \in PeerRecords
  BY <1>3 DEF PeerRecords
<1>8. Typed
  BY <1>1, <1>2, <1>3, <1>4, <1>5, <1>6, <1>7 DEF Typed, Notes
<1>9. ParserAt(request, q, 0)
  <2>1. /\ request.parse = "START" /\ request.line = {} /\ request.parsed = 0 /\ request.length = 0
        /\ request.announced = q.length
    BY <1>1
  <2>2. CASE EmptyFirstLine(q)
    BY <2>1, <2>2 DEF ParserAt, Refuses
  <2>3. ASSUME NEW h \in 2..Len(q.bytes), HeadIs(q, h) PROVE ParserAt(request, q, 0)
    <3>1. InHead(request, q, 0)
      BY <2>1 DEF InHead
    <3>2. 0 < h /\ ~(0 >= h)
      BY <1>2
    <3>3. ParserIs(request, q, h, 0)
      BY <2>1, <3>1, <3>2 DEF ParserIs
    <3> QED
      BY <2>3, <3>3 DEF ParserAt
  <2> QED
    BY <1>2, <2>2, <2>3
<1>10. RequestInv
  <2> DEFINE m == [i \in 1..(0 + 1) |-> 0]
  <2>1. m \in [1..(Len(events) + 1) -> Nat] /\ m[1] = 0
    BY <1>5
  <2>2. m[Len(events) + 1] = 0 /\ m[1] = 0
    BY <1>5
  <2>3. Len(q.bytes) = 0 + Len(wire)
    BY <1>1, <1>2
  <2>4. Copies(wire, q.bytes, 0)
    BY <1>1, <1>2 DEF Copies
  <2>5. \A i \in 1..Len(events) : FALSE
    BY <1>5
  <2> HIDE DEF m
  <2>6. Cut(m, q.bytes, events, wire)
    BY <2>1, <2>2, <2>3, <2>4, <2>5 DEF Cut
  <2>7. request.parse = "START"
    BY <1>1
  <2> QED
    BY <1>3, <1>9, <2>1, <2>6, <2>7 DEF RequestInv, Open
<1>11. ResponseInv
  BY <1>3, <1>5 DEF ResponseInv, NoneSent
<1> QED
  BY <1>8, <1>10, <1>11 DEF Inv

LEMMA NextInv == Inv /\ [Next]_vars => Inv'
<1> SUFFICES ASSUME Inv, [Next]_vars PROVE Inv'
  OBVIOUS
<1>1. CASE OnData
  BY <1>1, OnDataStep
<1>2. CASE OnAck
  BY <1>2, OnAckStep
<1>3. CASE OnPoll
  BY <1>3, OnPollStep
<1>4. CASE OnTimeout
  BY <1>4, DeletedStep DEF OnTimeout
<1>5. CASE PeerSends
  BY <1>5, PeerSendsStep
<1>6. CASE Acknowledge
  BY <1>6, AcknowledgeStep
<1>7. CASE ConnectionEnds
  BY <1>7, DeletedStep DEF ConnectionEnds
<1>8. CASE SourceFails
  BY <1>8, SourceFailsStep
<1>9. CASE UNCHANGED vars
  <2>1. /\ UNCHANGED <<wire, request, response, client, events, sendBuf, inflight, peer, handled, notes>>
    BY <1>9 DEF vars
  <2>2. Typed'
    BY <2>1 DEF Inv, Typed
  <2>3. RequestInv'
    BY <2>1, RequestStays DEF Inv
  <2>4. ResponseInv'
    BY <2>1 DEF Inv, ResponseInv, NoneSent, AllAcked
  <2> QED
    BY <2>2, <2>3, <2>4 DEF Inv
<1> QED
  BY <1>1, <1>2, <1>3, <1>4, <1>5, <1>6, <1>7, <1>8, <1>9 DEF Next

\* The parser is always where the bytes read put it, the bytes not read yet are those on
\* their way, in order; and the response keeps what is made of it and not written.
THEOREM SpecRequestInv == Spec => []Inv
BY InitInv, NextInv, PTL DEF Spec

LEMMA InvTypeOK == Inv => TypeOK
<1> SUFFICES ASSUME Inv PROVE TypeOK
  OBVIOUS
<1>1. Typed /\ RequestInv
  BY DEF Inv
<1>2. /\ request.parse \in Parses /\ request.parsed \in Nat
      /\ request.length \in {0, request.announced}
  BY <1>1 DEF Typed, RequestRecords
<1>3. ASSUME response # NULL
      PROVE  /\ response.state \in {"HEADERS", "CONTENT", "WAIT_ACK", "END"}
             /\ response.left \in Nat /\ response.sent \in 0..response.length + response.made
             /\ response.kind \in {"basic", "sized"} => response.sent <= response.length
  <2>1. Sound(response)
    BY <1>1, <1>3 DEF Typed
  <2>2. /\ response.sent \in Nat /\ response.length \in Nat /\ response.made \in Nat
        /\ response.left \in Nat /\ response.state \in {"HEADERS", "CONTENT", "WAIT_ACK", "END"}
    BY <2>1 DEF Sound, ResponseRecords
  <2>3. response.sent <= response.length + response.made
    BY <2>1 DEF Sound
  <2>4. response.sent \in 0..response.length + response.made
    BY <2>2, <2>3
  <2> QED
    BY <2>1, <2>2, <2>4 DEF Sound
<1> QED
  BY <1>1, <1>2, <1>3 DEF TypeOK, Typed, Parses, Notes

\* The state stays in its types; in particular a response never fills the send buffer
\* beyond its size, nor counts more bytes sent than it announced.
THEOREM SpecTypeOK == Spec => []TypeOK
BY SpecRequestInv, InvTypeOK, PTL

LEMMA InvHandledOnce == Inv => HandledOnce
<1> SUFFICES ASSUME Inv PROVE HandledOnce
  OBVIOUS
<1>1. Typed /\ RequestInv
  BY DEF Inv
<1>2. handled \in {0, 1} /\ (handled = 1 <=> request.parse = "END")
  BY <1>1 DEF RequestInv
<1>3. handled = 1 => /\ request.length = request.announced /\ request.parsed = request.length
                     /\ ToRead \subseteq {"body"}
  BY <1>1, <1>2, EndReads
<1>4. ASSUME Open, ToRead = {}, handled # 1 PROVE request.parsed > request.length
  <2>1. PICK q \in Requests, m \in [1..(Len(events) + 1) -> Nat] :
          Cut(m, q.bytes, events, wire) /\ ParserAt(request, q, m[1])
    BY <1>1, <1>4 DEF RequestInv
  <2>2. events \in Seq(EventRecords) /\ wire \in Seq(Kinds) /\ request \in RequestRecords
    BY <1>1 DEF Typed
  <2>3. ASSUME NEW z \in Seq(Kinds), Range(z) = {} PROVE Len(z) = 0
    <3>1. Range(z) = {z[k] : k \in 1..Len(z)}
      BY RangeEquality
    <3>2. Len(z) \in Nat /\ 1 \notin 1..Len(z)
      <4>1. Len(z) \in Nat
        OBVIOUS
      <4>2. ASSUME 1 \in 1..Len(z) PROVE FALSE
        <5>1. z[1] \in Range(z)
          BY <3>1, <4>2
        <5> QED
          BY <2>3, <5>1
      <4> QED
        BY <4>1, <4>2
    <3> QED
      BY <3>2
  <2>4. Len(wire) = 0
    BY <1>4, <2>2, <2>3 DEF ToRead
  <2>5. ASSUME NEW i \in 1..Len(events) PROVE events[i].type # "RECV"
    <3> SUFFICES ASSUME events[i].type = "RECV" PROVE FALSE
      OBVIOUS
    <3>1. events[i] \in EventRecords /\ i \in DOMAIN events
      BY <2>2
    <3>2. events[i].bytes \in Seq(Kinds) /\ events[i].bytes # <<>>
      BY <3>1, EventIs
    <3>3. Range(events[i].bytes) = {}
      BY <1>4, <3>1 DEF ToRead
    <3>4. Len(events[i].bytes) = 0
      BY <2>3, <3>2, <3>3
    <3> QED
      BY <3>2, <3>4
  <2>6. m[1] = Len(q.bytes)
    <3>1. Cut(m, q.bytes, events, wire) /\ \A i \in 1..Len(events) : events[i].type # "RECV"
      BY <2>1, <2>5
    <3> QED
      <4>1. ASSUME NEW b, Cut(m, b, events, wire) PROVE m[1] = Len(b)
        <5>1. Len(wire) = 0
          BY <2>4
        <5>2. \A i \in 1..Len(events) : events[i].type # "RECV"
          BY <3>1
        <5>3. events \in Seq(EventRecords)
          BY <2>2
        <5> QED
          BY <4>1, <5>1, <5>2, <5>3, CutEmpty
      <4> QED
        BY <3>1, <4>1
  <2>7. q.bytes \in Seq(Kinds) /\ Len(q.bytes) \in Nat /\ q.length \in Nat
    BY RequestsAssumption
  <2>8. ~(EmptyFirstLine(q) /\ Refuses(request, m[1]))
    <3> SUFFICES ASSUME EmptyFirstLine(q), Refuses(request, m[1]) PROVE FALSE
      OBVIOUS
    <3>1. m[1] # 0
      BY <2>6, <2>7 DEF EmptyFirstLine
    <3> QED
      BY <1>1, <3>1 DEF Refuses, RequestInv
  <2>9. PICK h \in 2..Len(q.bytes) : HeadIs(q, h) /\ ParserIs(request, q, h, m[1])
    BY <2>1, <2>8 DEF ParserAt
  <2>10. h \in Nat /\ Len(q.bytes) >= h
    BY <2>7
  <2>11. PastHead(request, q, Len(q.bytes) - h)
    BY <2>6, <2>9, <2>10 DEF ParserIs
  <2>12. /\ request.parse = "BODY" /\ request.length = q.length
         /\ request.parsed = Len(q.bytes) - h /\ request.parsed # request.length
    BY <1>1, <1>2, <1>4, <2>11 DEF PastHead, RequestInv
  <2>13. q.length <= Len(q.bytes) - h
    BY <2>9 DEF HeadIs
  <2> QED
    BY <2>7, <2>10, <2>12, <2>13
<1> QED
  BY <1>2, <1>3, <1>4 DEF HandledOnce

\* However the request is cut into packets, its handler is called once, with the whole of
\* it, when the last byte has been read, or never, when a packet holds more than it announced.
THEOREM SpecHandledOnce == Spec => []HandledOnce
BY SpecRequestInv, InvHandledOnce, PTL

LEMMA InvResponseWhole == Inv => ResponseWhole
<1> SUFFICES ASSUME Inv, notes = {}
             PROVE  /\ peer.whole
                    /\ response # NULL =>
                         /\ peer.got + Unwritten(response) = response.made
                         /\ response.state \in {"WAIT_ACK", "END"} =>
                              /\ peer.got = response.made
                              /\ IF response.kind = "sized" THEN response.sent = response.length
                                                            ELSE response.left = 0
                         /\ Finished(response) /\ response.kind \in {"basic", "sized"} /\ ~request.expect =>
                              inflight = 0 /\ \A i \in DOMAIN events : events[i].type # "SENT"
  BY DEF ResponseWhole
<1>1. Typed /\ ResponseInv
  BY DEF Inv
<1>2. peer.whole
  BY <1>1 DEF ResponseInv
<1>3. ASSUME response # NULL
      PROVE  /\ peer.got + Unwritten(response) = response.made
             /\ response.state \in {"WAIT_ACK", "END"} =>
                  /\ peer.got = response.made
                  /\ IF response.kind = "sized" THEN response.sent = response.length
                                                ELSE response.left = 0
             /\ Finished(response) /\ response.kind \in {"basic", "sized"} /\ ~request.expect =>
                  inflight = 0 /\ \A i \in DOMAIN events : events[i].type # "SENT"
  <2>1. response \in ResponseRecords /\ Keeps(response, peer.got)
    BY <1>1, <1>3 DEF Typed, Sound, ResponseInv
  <2>2. /\ response.state \in {"HEADERS", "CONTENT", "WAIT_ACK", "END"} /\ response.written \in Nat
        /\ response.acked \in Nat /\ response.made \in Nat /\ peer.got \in Nat
        /\ Len(response.head) \in Nat /\ Len(response.content) \in Nat
    BY <1>1, <2>1 DEF ResponseRecords, Typed, PeerRecords
  <2>3. peer.got + Unwritten(response) = response.made
    <3>1. CASE response.state = "HEADERS"
      <4>1. Len(response.content) = 0 /\ peer.got + Len(response.head) = response.made
        BY <2>1, <3>1 DEF Keeps, HeadWaits
      <4>2. Unwritten(response) = Len(response.head) + Len(response.content)
        BY <3>1 DEF Unwritten
      <4> QED
        BY <2>2, <4>1, <4>2
    <3>2. CASE response.state = "CONTENT"
      <4>1. Len(response.head) = 0 /\ peer.got + Len(response.content) = response.made
        BY <2>1, <3>2 DEF Keeps, TextWaits
      <4>2. Unwritten(response) = Len(response.head) + Len(response.content)
        BY <3>2 DEF Unwritten
      <4> QED
        BY <2>2, <4>1, <4>2
    <3>3. CASE response.state \in {"WAIT_ACK", "END"}
      <4>1. Unwritten(response) = 0 /\ peer.got = response.made
        BY <2>1, <3>3 DEF Unwritten, Keeps, AllWritten
      <4> QED
        BY <2>2, <4>1
    <3> QED
      BY <2>2, <3>1, <3>2, <3>3
  <2>4. response.state \in {"WAIT_ACK", "END"} =>
          /\ peer.got = response.made
          /\ IF response.kind = "sized" THEN response.sent = response.length
                                        ELSE response.left = 0
    BY <2>1 DEF Keeps, AllWritten
  <2>5. ASSUME Finished(response), response.kind \in {"basic", "sized"}, ~request.expect
        PROVE  inflight = 0 /\ \A i \in DOMAIN events : events[i].type # "SENT"
    <3>1. PICK a : Acks(a, events, response.acked, response.written - inflight)
      BY <1>1, <1>3, <2>5 DEF ResponseInv
    <3>2. response.acked >= response.written
      BY <1>1, <1>3, <2>5 DEF ResponseInv, Finished, AllAcked
    <3>3. events \in Seq(EventRecords) /\ inflight \in Nat
      BY <1>1, TypedSending DEF Typed
    <3>4. /\ response.acked <= response.written - inflight
          /\ response.acked = response.written - inflight => \A i \in 1..Len(events) : events[i].type = "RECV"
      BY <3>1, <3>3, AcksAscend
    <3>5. inflight = 0 /\ response.acked = response.written - inflight
      BY <2>2, <3>2, <3>3, <3>4
    <3>6. DOMAIN events = 1..Len(events)
      BY <3>3
    <3> QED
      BY <3>4, <3>5, <3>6
  <2> QED
    BY <2>3, <2>4, <2>5
<1> QED
  BY <1>2, <1>3

\* The other end gets the response in order and without a gap; what it has not is still kept;
\* and the response is finished only when all of it is written and, when its length is
\* known, acknowledged.
THEOREM SpecResponseWhole == Spec => []ResponseWhole
BY SpecRequestInv, InvResponseWhole, PTL
=============================================================================
