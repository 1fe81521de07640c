----------------------------- MODULE CJsonTree ------------------------------
(***************************************************************************)
(* The trees of Arduino_JSON/src/cjson/cJSON.c as operators on a heap.     *)
(* A heap h has the nodes, the allocations that will still succeed in the  *)
(* running call (left), whether one failed, the nodes the call freed, and  *)
(* bad, which tells that a freed node was freed again.                     *)
(* A node is a pointer, Nil the null pointer.  Operators that return a     *)
(* pointer or a truth value return it beside the heap, as [h, r].          *)
(***************************************************************************)
EXTENDS Integers, Sequences, FiniteSets, SequencesExt

CONSTANTS
  Nodes,    \* addresses of nodes, 1..n
  Keys      \* names of an object's members; "A" and "a" differ only in case

Nil == 0
NoKey == ""
Lists == {"arr", "obj"}
Free == [t |-> "free", key |-> NoKey, next |-> Nil, prev |-> Nil, child |-> Nil, ref |-> Nil]
NodeRecords ==
  [t : {"free", "null", "str"} \cup Lists, key : Keys \cup {NoKey}, next : Nodes \cup {Nil},
   prev : Nodes \cup {Nil}, child : Nodes \cup {Nil}, ref : Nodes \cup {Nil}]
EmptyHeap == [node |-> [n \in Nodes |-> Free], left |-> 0, failed |-> FALSE, freed |-> {}, bad |-> FALSE]

Live(h) == {n \in Nodes : h.node[n].t # "free"}
Lower(k) == IF k = "A" THEN "a" ELSE k
IsList(h, n, t) == n # Nil /\ h.node[n].t = t

\* cJSON_New_Item; the copy of a string takes an allocation too.
NewItem(h, t) ==
  LET free == Nodes \ Live(h) IN
  IF h.left = 0 \/ free = {} THEN [h |-> [h EXCEPT !.failed = TRUE], r |-> Nil]
  ELSE LET n == CHOOSE m \in free : \A k \in free : m <= k
       IN [h |-> [h EXCEPT !.left = @ - 1, !.node[n] = [Free EXCEPT !.t = t]], r |-> n]
Strdup(h) == IF h.left = 0 THEN [h |-> [h EXCEPT !.failed = TRUE], r |-> FALSE]
             ELSE [h |-> [h EXCEPT !.left = @ - 1], r |-> TRUE]

\* The nodes of a list from n on.
RECURSIVE Chain(_, _)
Chain(h, n) == IF n = Nil THEN <<>> ELSE <<n>> \o Chain(h, h.node[n].next)
Children(h, n) == IF n = Nil THEN <<>> ELSE Chain(h, h.node[n].child)

\* cJSON_Delete frees what follows n in its list as well.
RECURSIVE Delete(_, _)
Delete(h, n) ==
  IF n = Nil THEN h
  ELSE IF h.node[n].t = "free" THEN [h EXCEPT !.bad = TRUE]
  ELSE LET below == IF h.node[n].ref # Nil THEN h ELSE Delete(h, h.node[n].child)
       IN Delete([below EXCEPT !.node[n] = Free, !.freed = @ \cup {n}], h.node[n].next)

\* Constructors of a leaf or an empty list; a string's text is allocated after the node.
Create(h, t) ==
  LET new == NewItem(h, t)
      text == Strdup(new.h)
  IN CASE t # "str" \/ new.r = Nil -> new
       [] t = "str" /\ new.r # Nil /\ text.r -> [h |-> text.h, r |-> new.r]
       [] OTHER -> [h |-> Delete(text.h, new.r), r |-> Nil]

GetArrayItem(h, array, i) ==
  LET items == Children(h, array) IN IF i \in 0..(Len(items) - 1) THEN items[i + 1] ELSE Nil

SameKey(a, b, caseSensitive) == IF caseSensitive THEN a = b ELSE Lower(a) = Lower(b)
\* get_object_item: without regard to case a member that has no name is passed
\* over, otherwise the search ends at it.
GetObjectItem(h, object, k, caseSensitive) ==
  LET items == Children(h, object)
      stops == {i \in DOMAIN items : \/ SameKey(h.node[items[i]].key, k, caseSensitive)
                                     \/ caseSensitive /\ h.node[items[i]].key = NoKey}
      first == CHOOSE i \in stops : \A j \in stops : i <= j
  IN IF stops = {} THEN Nil ELSE IF h.node[items[first]].key = NoKey THEN Nil ELSE items[first]

AddItemToArray(h, array, item) ==
  LET items == Children(h, array) IN
  IF array = Nil \/ item = Nil THEN h
  ELSE IF items = <<>> THEN [h EXCEPT !.node[array].child = item]
  ELSE [h EXCEPT !.node[Last(items)].next = item, !.node[item].prev = Last(items)]

\* A constant key is not copied.  r tells whether the item was added.
AddItemToObject(h, object, k, item, constant) ==
  LET copy == IF constant THEN [h |-> h, r |-> TRUE] ELSE Strdup(h) IN
  IF object = Nil \/ item = Nil \/ ~copy.r THEN [h |-> copy.h, r |-> FALSE]
  ELSE [h |-> AddItemToArray([copy.h EXCEPT !.node[item].key = k], object, item), r |-> TRUE]

\* cJSON_AddNullToObject and its sisters delete the new item when it cannot be added.
AddNewToObject(h, object, k, t) ==
  LET new == Create(h, t)
      added == AddItemToObject(new.h, object, k, new.r, FALSE)
  IN IF added.r THEN [h |-> added.h, r |-> new.r] ELSE [h |-> Delete(added.h, new.r), r |-> Nil]

\* create_reference: a node that shares the item's children and text, and owns
\* neither; ref says whose they are.
CreateReference(h, item) ==
  LET new == NewItem(h, "null") IN
  IF item = Nil \/ new.r = Nil THEN new
  ELSE [new EXCEPT !.h.node[new.r] =
          [h.node[item] EXCEPT !.key = NoKey, !.next = Nil, !.prev = Nil, !.ref = item]]

DetachKeepsPrev(h, parent, item) ==   \* mutant: the next item's prev is left alone
  IF parent = Nil \/ item = Nil THEN h
  ELSE LET at == h.node[item]
           a == IF at.prev # Nil THEN [h EXCEPT !.node[at.prev].next = at.next] ELSE h
           c == IF h.node[parent].child = item THEN [a EXCEPT !.node[parent].child = at.next] ELSE a
       IN [c EXCEPT !.node[item].prev = Nil, !.node[item].next = Nil]
DetachItemViaPointer(h, parent, item) ==
  IF parent = Nil \/ item = Nil THEN h
  ELSE LET at == h.node[item]
           a == IF at.prev # Nil THEN [h EXCEPT !.node[at.prev].next = at.next] ELSE h
           b == IF at.next # Nil THEN [a EXCEPT !.node[at.next].prev = at.prev] ELSE a
           c == IF h.node[parent].child = item THEN [b EXCEPT !.node[parent].child = at.next] ELSE b
       IN [c EXCEPT !.node[item].prev = Nil, !.node[item].next = Nil]

InsertItemInArray(h, array, i, item) ==
  LET after == GetArrayItem(h, array, i) IN
  IF i < 0 THEN h
  ELSE IF after = Nil THEN AddItemToArray(h, array, item)
  ELSE LET before == h.node[after].prev
           g == [h EXCEPT !.node[item].next = after, !.node[item].prev = before, !.node[after].prev = item]
       IN IF h.node[array].child = after THEN [g EXCEPT !.node[array].child = item]
          ELSE [g EXCEPT !.node[before].next = item]

ReplaceItemViaPointer(h, parent, item, new) ==
  IF parent = Nil \/ item = Nil \/ new = Nil THEN [h |-> h, r |-> FALSE]
  ELSE IF new = item THEN [h |-> h, r |-> TRUE]
  ELSE LET at == h.node[item]
           a == [h EXCEPT !.node[new].next = at.next, !.node[new].prev = at.prev]
           b == IF at.next # Nil THEN [a EXCEPT !.node[at.next].prev = new] ELSE a
           c == IF at.prev # Nil THEN [b EXCEPT !.node[at.prev].next = new] ELSE b
           d == IF h.node[parent].child = item THEN [c EXCEPT !.node[parent].child = new] ELSE c
       IN [h |-> Delete([d EXCEPT !.node[item].next = Nil, !.node[item].prev = Nil], item), r |-> TRUE]

\* replace_item_in_object gives the new item the name first, none when that fails.
ReplaceItemInObject(h, object, k, new, caseSensitive) ==
  LET copy == Strdup(h)
      named == [copy.h EXCEPT !.node[new].key = IF copy.r THEN k ELSE NoKey]
  IN IF new = Nil THEN [h |-> h, r |-> FALSE]
     ELSE ReplaceItemViaPointer(named, object, GetObjectItem(named, object, k, caseSensitive), new)

\* cJSON_CreateStringArray and its sisters: n items of type t.
RECURSIVE FillArray(_, _, _, _)
FillArray(h, array, n, t) ==
  IF n = 0 THEN [h |-> h, r |-> array]
  ELSE LET new == Create(h, t) IN
       IF new.r = Nil THEN [h |-> Delete(new.h, array), r |-> Nil]
       ELSE FillArray(AddItemToArray(new.h, array, new.r), array, n - 1, t)
CreateArrayOf(h, n, t) ==
  LET new == Create(h, "arr") IN IF new.r = Nil THEN new ELSE FillArray(new.h, new.r, n, t)

RECURSIVE Duplicate(_, _, _), DuplicateChildren(_, _, _)
\* The copies of a list's items are appended to the new list, until one fails.
DuplicateChildren(h, new, items) ==
  IF items = <<>> THEN [h |-> h, r |-> TRUE]
  ELSE LET copy == Duplicate(h, Head(items), TRUE) IN
       IF copy.r = Nil THEN [h |-> copy.h, r |-> FALSE]
       ELSE DuplicateChildren(AddItemToArray(copy.h, new, copy.r), new, Tail(items))

Duplicate(h, item, recurse) ==
  LET from == h.node[item]
      new == NewItem(h, from.t)
      text == IF from.t = "str" THEN Strdup(new.h) ELSE [h |-> new.h, r |-> TRUE]
      key == IF from.key # NoKey /\ text.r THEN Strdup(text.h) ELSE text
      named == [key.h EXCEPT !.node[new.r].key = from.key]
      all == IF recurse THEN DuplicateChildren(named, new.r, Children(h, item)) ELSE [h |-> named, r |-> TRUE]
  IN CASE item = Nil -> [h |-> h, r |-> Nil]
       [] item # Nil /\ new.r = Nil -> new
       [] item # Nil /\ new.r # Nil /\ ~key.r -> [h |-> Delete(key.h, new.r), r |-> Nil]
       [] OTHER -> IF all.r THEN [h |-> all.h, r |-> new.r] ELSE [h |-> Delete(all.h, new.r), r |-> Nil]

RECURSIVE Compare(_, _, _, _)
Compare(h, a, b, caseSensitive) ==
  LET as == Children(h, a)
      bs == Children(h, b)
      Covers(some, other) ==
        \A i \in DOMAIN some :
          LET same == GetObjectItem(h, other, h.node[some[i]].key, caseSensitive)
          IN same # Nil /\ Compare(h, some[i], same, caseSensitive)
  IN /\ a # Nil /\ b # Nil /\ h.node[a].t = h.node[b].t
     /\ \/ a = b
        \/ h.node[a].t \notin Lists
        \/ h.node[a].t = "arr" /\ Len(as) = Len(bs) /\ \A i \in DOMAIN as : Compare(h, as[i], bs[i], caseSensitive)
        \/ h.node[a].t = "obj" /\ Covers(as, b) /\ Covers(bs, a)

\* What Delete would free, and the whole of the children's structure.
RECURSIVE Tree(_, _)
Tree(h, n) ==
  IF n = Nil THEN {}
  ELSE {n} \cup (IF h.node[n].ref # Nil THEN {} ELSE UNION {Tree(h, c) : c \in ToSet(Children(h, n))})

\* Every list is doubly linked: its first item has no prev, and prev undoes next.
ListsLinked(h) ==
  \A n \in Live(h) :
    /\ h.node[n].next # Nil => h.node[h.node[n].next].prev = n
    /\ h.node[n].prev # Nil => h.node[h.node[n].prev].next = n
    /\ h.node[n].child # Nil /\ h.node[n].ref = Nil => h.node[h.node[n].child].prev = Nil
=============================================================================
