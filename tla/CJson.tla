------------------------------- MODULE CJson --------------------------------
(***************************************************************************)
(* A program that builds trees with cJSON's functions.  It owns the roots; *)
(* an item it adds to a list belongs to the list from then on, also when   *)
(* the function, which returns nothing, could not add it: such an item is  *)
(* lost.  Any allocation of a call may fail.                               *)
(***************************************************************************)
EXTENDS CJsonTree

CONSTANTS
  Leaves,    \* types of leaves created
  Budgets,   \* how many allocations of one call may succeed
  Indices,   \* the indices passed
  MaxRoots,  \* bound: items the program owns at a time
  MaxLists,  \* bound: arrays and objects, references to them included
  MaxLost    \* bound: items lost

VARIABLES
  heap,
  roots,     \* items the program owns
  lost       \* items that belong to nobody any more

cJsonVars == <<heap, roots, lost>>

Init == heap = EmptyHeap /\ roots = {} /\ lost = {}

Call(n) == [heap EXCEPT !.left = n]
Return(h) == heap' = [h EXCEPT !.left = 0, !.failed = FALSE, !.freed = {}]
\* A root is left alone while there is a reference to it.
Referenced == {heap.node[m].ref : m \in Live(heap)}
Changeable == roots \ Referenced
\* Lists the program may pass: those in its own trees, and not shared ones.
OwnLists(t) == {n \in UNION {Tree(heap, r) : r \in Changeable} : heap.node[n].t = t /\ heap.node[n].ref = Nil}
\* Items that may go into a list: a root that does not hold the list itself.
Spare(list) == {r \in Changeable : list \notin Tree(heap, r)}
Small(h) == Cardinality({n \in Live(h) : h.node[n].t \in Lists}) <= MaxLists
NewRoot(res) == Small(res.h) /\ Cardinality(roots) < MaxRoots /\ Return(res.h) /\ roots' = (IF res.r = Nil THEN roots ELSE roots \cup {res.r}) /\ UNCHANGED lost
\* item was handed over; it is lost unless it was taken.
HandOver(h, item, taken) ==
  /\ Cardinality(lost) < MaxLost \/ taken
  /\ Return(h) /\ roots' = roots \ {item} /\ lost' = IF taken THEN lost ELSE lost \cup {item}

CreateItem == \E t \in Leaves \cup Lists, n \in Budgets : NewRoot(Create(Call(n), t))
CreateItems == \E n \in Budgets : NewRoot(CreateArrayOf(Call(n), 2, "str"))
DuplicateItem ==
  \E r \in roots, recurse \in BOOLEAN, n \in Budgets : NewRoot(Duplicate(Call(n), r, recurse))

AddToArray ==
  \E a \in OwnLists("arr") : \E i \in Spare(a) : HandOver(AddItemToArray(Call(0), a, i), i, TRUE)
InsertInArray ==
  \E a \in OwnLists("arr"), k \in Indices : \E i \in Spare(a) :
    HandOver(InsertItemInArray(Call(0), a, k, i), i, k >= 0)
AddToObject ==
  \E o \in OwnLists("obj"), k \in Keys, constant \in BOOLEAN, n \in Budgets : \E i \in Spare(o) :
    LET res == AddItemToObject(Call(n), o, k, i, constant) IN HandOver(res.h, i, res.r)
AddNew ==
  \E o \in OwnLists("obj"), k \in Keys, n \in Budgets :
    Return(AddNewToObject(Call(n), o, k, "str").h) /\ UNCHANGED <<roots, lost>>
\* The reference goes into the list; the item stays where it is.
AddReference ==
  \E l \in OwnLists("arr") \cup OwnLists("obj"), n \in Budgets : \E i \in {r \in roots : l \notin Tree(heap, r)} :
    LET new == CreateReference(Call(n), i)
        res == IF heap.node[l].t = "arr" THEN [h |-> AddItemToArray(new.h, l, new.r), r |-> TRUE]
               ELSE AddItemToObject(new.h, l, "a", new.r, FALSE)
    IN /\ Small(res.h) /\ (res.r \/ new.r = Nil \/ Cardinality(lost) < MaxLost)
       /\ Return(res.h) /\ lost' = (IF res.r \/ new.r = Nil THEN lost ELSE lost \cup {new.r})
       /\ UNCHANGED roots

\* Detached, an item is a root again; cJSON_DeleteItemFrom... deletes it at once.
TakeOut(list, item, delete) ==
  /\ item # Nil
  /\ LET h == DetachItemViaPointer(Call(0), list, item)
     IN IF delete THEN Return(Delete(h, item)) /\ UNCHANGED roots ELSE Cardinality(roots) < MaxRoots /\ Return(h) /\ roots' = roots \cup {item}
  /\ UNCHANGED lost
TakeFromArray ==
  \E a \in OwnLists("arr"), k \in Indices, delete \in BOOLEAN : TakeOut(a, GetArrayItem(heap, a, k), delete)
TakeFromObject ==
  \E o \in OwnLists("obj"), k \in Keys, cs, delete \in BOOLEAN : TakeOut(o, GetObjectItem(heap, o, k, cs), delete)

ReplaceInArray ==
  \E a \in OwnLists("arr"), k \in Indices : \E i \in Spare(a) :
    LET res == ReplaceItemViaPointer(Call(0), a, GetArrayItem(heap, a, k), i) IN HandOver(res.h, i, res.r)
ReplaceInObject ==
  \E o \in OwnLists("obj"), k \in Keys, cs \in BOOLEAN, n \in Budgets : \E i \in Spare(o) :
    LET res == ReplaceItemInObject(Call(n), o, k, i, cs) IN HandOver(res.h, i, res.r)

DeleteItem == \E r \in Changeable : Return(Delete(Call(0), r)) /\ roots' = roots \ {r} /\ UNCHANGED lost

Next ==
  \/ CreateItem \/ CreateItems \/ DuplicateItem \/ DeleteItem
  \/ AddToArray \/ InsertInArray \/ AddToObject \/ AddNew \/ AddReference
  \/ TakeFromArray \/ TakeFromObject \/ ReplaceInArray \/ ReplaceInObject

Spec == Init /\ [][Next]_cJsonVars
-----------------------------------------------------------------------------
\* Trees are made of the nodes there are.
TypeOK ==
  /\ heap.node \in [Nodes -> NodeRecords] /\ heap.left = 0
  /\ roots \subseteq Nodes /\ lost \subseteq Nodes

\* The lists stay linked both ways, and each live node is in exactly one tree of
\* the program's roots or of the items a failed call lost: no function frees an
\* item twice, loses one without a failure, or leaves one in two lists.
NodesOwnedOnce ==
  /\ ~heap.bad /\ ListsLinked(heap)
  /\ UNION {Tree(heap, r) : r \in roots \cup lost} = Live(heap)
  /\ \A r, s \in roots \cup lost : r # s => Tree(heap, r) \cap Tree(heap, s) = {}
  /\ \A n \in Live(heap) : Cardinality({p \in Live(heap) : heap.node[p].ref = Nil /\ n \in ToSet(Children(heap, p))})
                           = IF n \in roots \cup lost THEN 0 ELSE 1

\* The members of every object in the tree have names, and different ones.
Distinct(h, r) ==
  \A o \in Tree(h, r) : h.node[o].t = "obj" =>
    LET items == Children(h, o) IN
    \A i, j \in DOMAIN items : /\ h.node[items[i]].key # NoKey
                               /\ i # j => h.node[items[i]].key # h.node[items[j]].key

\* cJSON_Compare is symmetric; and an item equals its duplicate when the names
\* in it are distinct, for a second member of one name is never looked at.
CopiesAreEqual ==
  \A r \in roots :
    /\ \A s \in roots, cs \in BOOLEAN : Compare(heap, r, s, cs) = Compare(heap, s, r, cs)
    /\ LET copy == Duplicate(Call(Cardinality(Nodes) * 3), r, TRUE)
       IN copy.r # Nil /\ Distinct(copy.h, copy.r) => Compare(copy.h, r, copy.r, TRUE)
=============================================================================
