--------------------------- MODULE DataInduction ---------------------------
(***************************************************************************)
(* The natural numbers' least element and their induction, for sets, and   *)
(* the order of the elements of a sequence: what the proofs about queues   *)
(* and recursive functions rest on.                                        *)
(***************************************************************************)
EXTENDS Integers, Sequences, WellFoundedInduction, TLAPS

LEMMA NatIsWellFounded == IsWellFoundedOn({ss \in Nat \X Nat : ss[1] < ss[2]}, Nat)
BY NatLessThanWellFounded DEF OpToRel

\* A set of natural numbers that is not empty has a least element.
LEMMA LeastExists ==
  ASSUME NEW T \in SUBSET Nat, T # {}
  PROVE  \E x \in T : \A y \in T : x <= y
<1> DEFINE R == {ss \in Nat \X Nat : ss[1] < ss[2]}
<1>1. IsWellFoundedOn(R, Nat)
  BY NatIsWellFounded
<1> HIDE DEF R
<1>2. PICK x \in T : \A y \in T : ~(<<y, x>> \in R)
  BY <1>1, WFMin
<1>3. ASSUME NEW y \in T PROVE x <= y
  <2>1. ~(<<y, x>> \in R)
    BY <1>2
  <2>2. y \in Nat /\ x \in Nat
    OBVIOUS
  <2> QED
    BY <2>1, <2>2 DEF R
<1> QED
  BY <1>3

\* A set that has zero and with every number the next has them all.
LEMMA SetInduction ==
  ASSUME NEW S \in SUBSET Nat, 0 \in S, \A n \in S : n + 1 \in S
  PROVE  \A n \in Nat : n \in S
<1> SUFFICES ASSUME NEW n \in Nat, n \notin S PROVE FALSE
  OBVIOUS
<1> DEFINE T == Nat \ S
<1>1. PICK x \in T : \A y \in T : x <= y
  BY LeastExists
<1>2. x # 0 /\ x - 1 \in Nat /\ x - 1 \notin T
  BY <1>1
<1>3. x - 1 + 1 \in S
  BY <1>2
<1> QED
  BY <1>3
-----------------------------------------------------------------------------
(***************************************************************************)
(* The order of a sequence's elements, and what adding to it at either end *)
(* and taking from it do to that.                                          *)
(***************************************************************************)
Precedes(q, p, r) == \E i, j \in 1..Len(q) : i < j /\ q[i] = p /\ q[j] = r
Members(q) == {q[i] : i \in 1..Len(q)}
NoneTwice(q) == \A i, j \in 1..Len(q) : q[i] = q[j] => i = j

\* Behind the last element,
LEMMA PrecedesAppending ==
  ASSUME NEW S, NEW q \in Seq(S), NEW e \in S
  PROVE  \A p, r : Precedes(Append(q, e), p, r) <=> Precedes(q, p, r) \/ (p \in Members(q) /\ r = e)
<1> DEFINE s == Append(q, e)
<1>1. s \in Seq(S) /\ Len(s) = Len(q) + 1 /\ s[Len(q) + 1] = e /\ Len(q) \in Nat
  OBVIOUS
<1>2. \A i \in 1..Len(q) : s[i] = q[i]
  OBVIOUS
<1> HIDE DEF s
<1> SUFFICES ASSUME NEW p, NEW r
             PROVE  Precedes(s, p, r) <=> Precedes(q, p, r) \/ (p \in Members(q) /\ r = e)
  BY DEF s
<1>3. ASSUME Precedes(s, p, r) PROVE Precedes(q, p, r) \/ (p \in Members(q) /\ r = e)
  <2>1. PICK i, j \in 1..Len(s) : i < j /\ s[i] = p /\ s[j] = r
    BY <1>3 DEF Precedes
  <2>2. i \in 1..Len(q) /\ q[i] = p
    BY <1>1, <1>2, <2>1
  <2>3. CASE j = Len(q) + 1
    BY <1>1, <2>1, <2>2, <2>3 DEF Members
  <2>4. CASE j # Len(q) + 1
    <3>1. j \in 1..Len(q) /\ q[j] = r
      BY <1>1, <1>2, <2>1, <2>4
    <3> QED
      BY <2>1, <2>2, <3>1 DEF Precedes
  <2> QED
    BY <2>3, <2>4
<1>4. ASSUME Precedes(q, p, r) PROVE Precedes(s, p, r)
  <2>1. PICK i, j \in 1..Len(q) : i < j /\ q[i] = p /\ q[j] = r
    BY <1>4 DEF Precedes
  <2>2. i \in 1..Len(s) /\ j \in 1..Len(s) /\ s[i] = p /\ s[j] = r
    BY <1>1, <1>2, <2>1
  <2> QED
    BY <2>1, <2>2 DEF Precedes
<1>5. ASSUME p \in Members(q), r = e PROVE Precedes(s, p, r)
  <2>1. PICK i \in 1..Len(q) : q[i] = p
    BY <1>5 DEF Members
  <2>2. i \in 1..Len(s) /\ Len(q) + 1 \in 1..Len(s) /\ i < Len(q) + 1 /\ s[i] = p
    BY <1>1, <1>2, <2>1
  <2> QED
    BY <1>1, <1>5, <2>2 DEF Precedes
<1> QED
  BY <1>3, <1>4, <1>5

\* before the first,
LEMMA PrecedesPrepending ==
  ASSUME NEW S, NEW q \in Seq(S), NEW e \in S
  PROVE  /\ \A p, r : p # e => (Precedes(<<e>> \o q, p, r) <=> Precedes(q, p, r))
         /\ \A p \in Members(q) : Precedes(<<e>> \o q, e, p)
<1> DEFINE s == <<e>> \o q
<1>1. s \in Seq(S) /\ Len(s) = Len(q) + 1 /\ s[1] = e /\ Len(q) \in Nat
  OBVIOUS
<1>2. \A i \in 1..Len(q) : s[i + 1] = q[i]
  OBVIOUS
<1> HIDE DEF s
<1>3. ASSUME NEW p, NEW r, p # e, Precedes(s, p, r) PROVE Precedes(q, p, r)
  <2>1. PICK i, j \in 1..Len(s) : i < j /\ s[i] = p /\ s[j] = r
    BY <1>3 DEF Precedes
  <2>2. i # 1 /\ i - 1 \in 1..Len(q) /\ j - 1 \in 1..Len(q) /\ i - 1 < j - 1
    BY <1>1, <1>3, <2>1
  <2>3. q[i - 1] = p /\ q[j - 1] = r
    <3>1. (i - 1) + 1 = i /\ (j - 1) + 1 = j
      BY <2>1
    <3> QED
      BY <1>2, <2>1, <2>2, <3>1
  <2> QED
    BY <2>2, <2>3 DEF Precedes
<1>4. ASSUME NEW p, NEW r, Precedes(q, p, r) PROVE Precedes(s, p, r)
  <2>1. PICK i, j \in 1..Len(q) : i < j /\ q[i] = p /\ q[j] = r
    BY <1>4 DEF Precedes
  <2>2. i + 1 \in 1..Len(s) /\ j + 1 \in 1..Len(s) /\ i + 1 < j + 1 /\ s[i + 1] = p /\ s[j + 1] = r
    BY <1>1, <1>2, <2>1
  <2> QED
    BY <2>2 DEF Precedes
<1>5. ASSUME NEW p \in Members(q) PROVE Precedes(s, e, p)
  <2>1. PICK i \in 1..Len(q) : q[i] = p
    BY DEF Members
  <2>2. 1 \in 1..Len(s) /\ i + 1 \in 1..Len(s) /\ 1 < i + 1 /\ s[i + 1] = p
    BY <1>1, <1>2, <2>1
  <2> QED
    BY <1>1, <2>2 DEF Precedes
<1> QED
  BY <1>3, <1>4, <1>5 DEF s

\* and without the first.
LEMMA PrecedesTaking ==
  ASSUME NEW S, NEW q \in Seq(S), q # <<>>, NoneTwice(q)
  PROVE  /\ \A p, r : p # Head(q) => (Precedes(Tail(q), p, r) <=> Precedes(q, p, r))
         /\ \A p : ~Precedes(q, p, Head(q))
         /\ \A p \in Members(Tail(q)) : Precedes(q, Head(q), p)
<1> DEFINE s == Tail(q)
<1>1. /\ s \in Seq(S) /\ Len(s) = Len(q) - 1 /\ Len(q) \in Nat \ {0}
      /\ Head(q) = q[1] /\ q[1] \in S
  OBVIOUS
<1>2. \A i \in 1..Len(s) : i + 1 \in 1..Len(q) /\ s[i] = q[i + 1]
  OBVIOUS
<1> HIDE DEF s
<1>3. ASSUME NEW p, NEW r, p # q[1], Precedes(q, p, r) PROVE Precedes(s, p, r)
  <2>1. PICK i, j \in 1..Len(q) : i < j /\ q[i] = p /\ q[j] = r
    BY <1>3 DEF Precedes
  <2>2. i # 1 /\ i - 1 \in 1..Len(s) /\ j - 1 \in 1..Len(s) /\ i - 1 < j - 1
    BY <1>1, <1>3, <2>1
  <2>3. s[i - 1] = p /\ s[j - 1] = r
    <3>1. (i - 1) + 1 = i /\ (j - 1) + 1 = j
      BY <2>1
    <3> QED
      BY <1>2, <2>1, <2>2, <3>1
  <2> QED
    BY <2>2, <2>3 DEF Precedes
<1>4. ASSUME NEW p, NEW r, Precedes(s, p, r) PROVE Precedes(q, p, r)
  <2>1. PICK i, j \in 1..Len(s) : i < j /\ s[i] = p /\ s[j] = r
    BY <1>4 DEF Precedes
  <2>2. i + 1 \in 1..Len(q) /\ j + 1 \in 1..Len(q) /\ i + 1 < j + 1 /\ q[i + 1] = p /\ q[j + 1] = r
    BY <1>2, <2>1
  <2> QED
    BY <2>2 DEF Precedes
<1>5. ASSUME NEW p, Precedes(q, p, q[1]) PROVE FALSE
  <2>1. PICK i, j \in 1..Len(q) : i < j /\ q[i] = p /\ q[j] = q[1]
    BY <1>5 DEF Precedes
  <2>2. 1 \in 1..Len(q) /\ j # 1
    BY <1>1, <2>1
  <2> QED
    BY <2>1, <2>2 DEF NoneTwice
<1>6. ASSUME NEW p \in Members(s) PROVE Precedes(q, q[1], p)
  <2>1. PICK i \in 1..Len(s) : s[i] = p
    BY DEF Members
  <2>2. 1 \in 1..Len(q) /\ i + 1 \in 1..Len(q) /\ 1 < i + 1 /\ q[i + 1] = p
    BY <1>1, <1>2, <2>1
  <2> QED
    BY <2>2 DEF Precedes
<1> QED
  BY <1>1, <1>3, <1>4, <1>5, <1>6 DEF s

\* The order is one of elements, and strict.
LEMMA PrecedesMembers ==
  ASSUME NEW S, NEW q \in Seq(S), NEW p, NEW r, Precedes(q, p, r)
  PROVE  /\ p \in Members(q) /\ r \in Members(q)
         /\ NoneTwice(q) => p # r /\ ~Precedes(q, r, p)
<1>1. PICK i, j \in 1..Len(q) : i < j /\ q[i] = p /\ q[j] = r
  BY DEF Precedes
<1>2. p \in Members(q) /\ r \in Members(q)
  BY <1>1 DEF Members
<1>3. ASSUME NoneTwice(q) PROVE p # r
  BY <1>1, <1>3 DEF NoneTwice
<1>4. ASSUME NoneTwice(q), Precedes(q, r, p) PROVE FALSE
  <2>1. PICK k, l \in 1..Len(q) : k < l /\ q[k] = r /\ q[l] = p
    BY <1>4 DEF Precedes
  <2>2. k = j /\ l = i
    BY <1>1, <1>4, <2>1 DEF NoneTwice
  <2> QED
    BY <1>1, <2>1, <2>2
<1> QED
  BY <1>2, <1>3, <1>4

\* What stays without a double.
LEMMA NoneTwiceStays ==
  ASSUME NEW S, NEW q \in Seq(S), NEW e \in S, NoneTwice(q)
  PROVE  /\ e \notin Members(q) => NoneTwice(Append(q, e)) /\ NoneTwice(<<e>> \o q)
         /\ q # <<>> => NoneTwice(Tail(q)) /\ Head(q) \notin Members(Tail(q))
<1>1. ASSUME e \notin Members(q) PROVE NoneTwice(Append(q, e))
  BY <1>1 DEF NoneTwice, Members
<1>2. ASSUME e \notin Members(q) PROVE NoneTwice(<<e>> \o q)
  <2> DEFINE s == <<e>> \o q
  <2>1. s \in Seq(S) /\ Len(s) = Len(q) + 1 /\ s[1] = e /\ Len(q) \in Nat
    OBVIOUS
  <2>2. \A i \in 1..Len(q) : s[i + 1] = q[i]
    OBVIOUS
  <2> HIDE DEF s
  <2>3. \A i \in 1..Len(s) : i # 1 => i - 1 \in 1..Len(q) /\ s[i] = q[i - 1]
    <3> SUFFICES ASSUME NEW i \in 1..Len(s), i # 1 PROVE i - 1 \in 1..Len(q) /\ s[i] = q[i - 1]
      OBVIOUS
    <3>1. i - 1 \in 1..Len(q) /\ (i - 1) + 1 = i
      BY <2>1
    <3> QED
      BY <2>2, <3>1
  <2> SUFFICES ASSUME NEW i \in 1..Len(s), NEW j \in 1..Len(s), s[i] = s[j] PROVE i = j
    BY DEF NoneTwice, s
  <2>4. i = 1 <=> j = 1
    BY <1>2, <2>1, <2>3 DEF Members
  <2>5. i # 1 /\ j # 1 => i - 1 = j - 1
    BY <2>3 DEF NoneTwice
  <2> QED
    BY <2>4, <2>5
<1>3. ASSUME q # <<>> PROVE NoneTwice(Tail(q)) /\ Head(q) \notin Members(Tail(q))
  <2> DEFINE s == Tail(q)
  <2>1. s \in Seq(S) /\ Len(s) = Len(q) - 1 /\ Len(q) \in Nat \ {0} /\ Head(q) = q[1]
    BY <1>3
  <2>2. \A i \in 1..Len(s) : i + 1 \in 1..Len(q) /\ s[i] = q[i + 1]
    BY <1>3
  <2> HIDE DEF s
  <2>3. NoneTwice(s)
    <3> SUFFICES ASSUME NEW i \in 1..Len(s), NEW j \in 1..Len(s), s[i] = s[j] PROVE i = j
      BY DEF NoneTwice
    <3>1. i + 1 = j + 1
      BY <2>2 DEF NoneTwice
    <3> QED
      BY <3>1
  <2>4. ASSUME NEW i \in 1..Len(s), s[i] = q[1] PROVE FALSE
    <3>1. i + 1 = 1
      BY <2>1, <2>2, <2>4 DEF NoneTwice
    <3> QED
      BY <3>1
  <2> QED
    BY <2>1, <2>3, <2>4 DEF Members, s
<1> QED
  BY <1>1, <1>2, <1>3
=============================================================================
