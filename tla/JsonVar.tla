------------------------------ MODULE JsonVar -------------------------------
(***************************************************************************)
(* JSONVar, the class a sketch uses (Arduino_JSON/src/JSONVar.cpp).  A     *)
(* handle points at a node of a cJSON tree and, unless the node is a root, *)
(* at its parent; a handle without a parent owns its tree.  Handles into   *)
(* one tree do not know of each other: when a node is replaced, those that *)
(* point at it or at its parent are stale, and an object that another was  *)
(* constructed from by moving is left with uninitialised pointers.  A      *)
(* program must not use either except to destroy them or to assign to them *)
(* by moving; the destructor trusts the uninitialised pointers.            *)
(***************************************************************************)
EXTENDS CJsonTree

CONSTANTS
  Handles,   \* the program's JSONVar objects
  Budgets,   \* how many allocations of one call may succeed
  Indices    \* the indices passed to operator[]

VARIABLES
  heap,
  handle,    \* each object's _json and _parent, and whether it is constructed
  stale,     \* handles with a pointer to a freed node
  garbage,   \* handles whose pointers were never initialised
  strained,  \* an allocation failed, an index was negative, or an object that
             \* points at nothing was copied to an element
  hung,      \* operator[] does not return
  wild       \* a destructor freed what an uninitialised pointer happened to name

jsonVarVars == <<heap, handle, stale, garbage, strained, hung, wild>>

None == [json |-> Nil, parent |-> Nil, made |-> FALSE]
Var(json, parent) == [json |-> json, parent |-> parent, made |-> TRUE]

Init ==
  /\ heap = EmptyHeap /\ handle = [x \in Handles |-> None]
  /\ stale = {} /\ garbage = {} /\ strained = FALSE /\ hung = FALSE /\ wild = FALSE

Call(n) == [heap EXCEPT !.left = n]
Unmade(x) == ~handle[x].made
Usable(x) == handle[x].made /\ x \notin stale \cup garbage
Running == ~hung /\ ~wild
\* The call leaves heap h and the handles f; of the others, those that point at
\* a freed node are stale.  Sloppy tells of a negative index or an empty copy.
Return(h, f, sloppy) ==
  /\ Running /\ UNCHANGED <<hung, wild>>
  /\ garbage' = garbage \ DOMAIN f
  /\ heap' = [h EXCEPT !.left = 0, !.failed = FALSE, !.freed = {}]
  /\ handle' = f @@ handle
  /\ stale' = (stale \cup {x \in Handles : handle[x].made /\ {handle[x].json, handle[x].parent} \cap h.freed # {}})
              \ DOMAIN f
  /\ strained' = (strained \/ h.failed \/ sloppy)

ReplaceJsonFrees(h, v, new) ==   \* mutant: the parent is not told
  Delete(h, v.json)
\* replaceJson: what v points at gives way to the new node.
ReplaceJson(h, v, new) ==
  CASE v.json = Nil -> h
    [] v.json # Nil /\ v.parent = Nil -> Delete(h, v.json)
    [] IsList(h, v.parent, "obj") /\ v.json # Nil ->
         ReplaceItemInObject(h, v.parent, h.node[v.json].key, new, TRUE).h
    [] IsList(h, v.parent, "arr") /\ v.json # Nil -> ReplaceItemViaPointer(h, v.parent, v.json, new).h
Assign(x, new) ==
  Return(ReplaceJson(new.h, handle[x], new.r), x :> Var(new.r, handle[x].parent),
         new.r = Nil /\ handle[x].parent # Nil)

Construct == \E x \in Handles : Unmade(x) /\ Return(Call(0), x :> Var(Nil, Nil), FALSE)
CopyConstruct ==
  \E x, y \in Handles, n \in Budgets :
    /\ Unmade(x) /\ Usable(y)
    /\ LET copy == Duplicate(Call(n), handle[y].json, TRUE) IN Return(copy.h, x :> Var(copy.r, Nil), FALSE)
\* The new object's own pointers, which nothing has set, go to the source.
MoveConstruct ==
  \E x, y \in Handles :
    /\ Unmade(x) /\ handle[y].made /\ Running
    /\ handle' = [handle EXCEPT ![x] = handle[y], ![y] = Var(Nil, Nil)]
    /\ stale' = (stale \ {y}) \cup {z \in {x} : y \in stale}
    /\ garbage' = garbage \cup {y} \cup {z \in {x} : y \in garbage}
    /\ UNCHANGED <<heap, strained, hung, wild>>
Destroy ==
  \E x \in Handles :
    /\ handle[x].made
    /\ Return(IF handle[x].parent = Nil THEN Delete(Call(0), handle[x].json) ELSE Call(0), x :> None, FALSE)
\* What the destructor frees then may be anything, or nothing (Destroy).
DestroyGarbage ==
  /\ Running /\ garbage # {} /\ wild' = TRUE
  /\ UNCHANGED <<heap, handle, stale, garbage, strained, hung>>

AssignLeaf == \E x \in Handles, t \in {"null", "str"}, n \in Budgets : Usable(x) /\ Assign(x, Create(Call(n), t))
AssignCopy ==
  \E x, y \in Handles, n \in Budgets :
    Usable(x) /\ Usable(y) /\ Assign(x, Duplicate(Call(n), handle[y].json, TRUE))
\* Assigning `undefined' deletes a member; elsewhere it leaves null.
AssignUndefined ==
  \E x \in Handles, n \in Budgets :
    /\ Usable(x)
    /\ IF IsList(heap, handle[x].parent, "obj")
       THEN LET parent == handle[x].parent
                item == GetObjectItem(heap, parent, heap.node[handle[x].json].key, TRUE)
            IN /\ handle[x].json # Nil   \* otherwise the program crashes
               /\ Return(Delete(DetachItemViaPointer(Call(0), parent, item), item), x :> Var(Nil, Nil), FALSE)
       ELSE Assign(x, Create(Call(n), "null"))
\* Assigning a temporary only swaps the two objects.
MoveAssign ==
  \E x, y \in Handles :
    /\ x # y /\ handle[x].made /\ handle[y].made /\ Running
    /\ handle' = [handle EXCEPT ![x] = handle[y], ![y] = handle[x]]
    /\ LET other == [z \in Handles |-> CASE z = x -> y [] z = y -> x [] OTHER -> z] IN
         stale' = {z \in Handles : other[z] \in stale} /\ garbage' = {z \in Handles : other[z] \in garbage}
    /\ UNCHANGED <<heap, strained, hung, wild>>

\* What operator[] makes of an object that is not a list of the type it needs.
Become(x, t, n) ==
  IF IsList(heap, handle[x].json, t) THEN [h |-> Call(n), r |-> handle[x].json]
  ELSE LET new == Create(Call(n), t) IN [h |-> ReplaceJson(new.h, handle[x], new.r), r |-> new.r]

Member ==
  \E x, y \in Handles, k \in Keys, n \in Budgets :
    /\ Unmade(x) /\ Usable(y)
    /\ LET list == Become(y, "obj", n)
           found == GetObjectItem(list.h, list.r, k, TRUE)
           item == IF found = Nil THEN AddNewToObject(list.h, list.r, k, "null") ELSE [h |-> list.h, r |-> found]
       IN Return(item.h, (x :> Var(item.r, list.r)) @@ (y :> Var(list.r, handle[y].parent)), FALSE)

\* The array is filled up with nulls until it is long enough, which it never is
\* when there is no array or no memory for a null.
RECURSIVE FillUp(_, _, _)
FillUp(h, array, i) ==
  IF i < Len(Children(h, array)) THEN [h |-> h, r |-> GetArrayItem(h, array, i), hangs |-> FALSE]
  ELSE LET new == Create(h, "null") IN
       IF new.r = Nil \/ array = Nil THEN [h |-> new.h, r |-> Nil, hangs |-> TRUE]
       ELSE FillUp(AddItemToArray(new.h, array, new.r), array, i)
Element ==
  \E x, y \in Handles, i \in Indices, n \in Budgets :
    /\ Unmade(x) /\ Usable(y)
    /\ LET list == Become(y, "arr", n)
           item == FillUp(list.h, list.r, i)
       IN IF item.hangs THEN Running /\ hung' = TRUE /\ strained' = TRUE /\ UNCHANGED <<heap, handle, stale, garbage, wild>>
          ELSE Return(item.h, (x :> Var(item.r, list.r)) @@ (y :> Var(list.r, handle[y].parent)), i < 0)

KeysOf ==
  \E x, y \in Handles, n \in Budgets :
    /\ Unmade(x) /\ Usable(y)
    /\ LET keys == CreateArrayOf(Call(n), Len(Children(heap, handle[y].json)), "str") IN
       IF IsList(heap, handle[y].json, "obj") THEN Return(keys.h, x :> Var(keys.r, Nil), FALSE)
       ELSE Return(Call(0), x :> Var(Nil, Nil), FALSE)

\* A text with two members of one name, or one that cannot be parsed.
Parse ==
  \E x \in Handles, n \in Budgets :
    /\ Unmade(x)
    /\ LET object == Create(Call(n), "obj")
           one == AddNewToObject(object.h, object.r, "a", "null")
           two == AddNewToObject(one.h, object.r, "a", "str")
       IN IF two.r = Nil THEN Return([heap EXCEPT !.failed = TRUE], x :> Var(Nil, Nil), FALSE)
          ELSE Return(two.h, x :> Var(object.r, Nil), FALSE)

Next ==
  \/ Construct \/ CopyConstruct \/ MoveConstruct \/ Destroy \/ DestroyGarbage
  \/ AssignLeaf \/ AssignCopy \/ AssignUndefined \/ MoveAssign \/ Member \/ Element \/ KeysOf \/ Parse

Spec == Init /\ [][Next]_jsonVarVars
-----------------------------------------------------------------------------
Roots == {x \in Handles : handle[x].made /\ handle[x].parent = Nil /\ handle[x].json # Nil}

\* Objects point to nodes or to nothing.
TypeOK ==
  /\ heap.node \in [Nodes -> NodeRecords]
  /\ handle \in [Handles -> [json : Nodes \cup {Nil}, parent : Nodes \cup {Nil}, made : BOOLEAN]]
  /\ stale \cup garbage \subseteq {x \in Handles : handle[x].made}

\* An object that owns its tree is never stale, and never shares the tree: its
\* destructor and its assignments free a node once, and no freed node is left in
\* a tree -- unless the source of a move construction was destroyed, and its
\* destructor freed what the uninitialised pointers named.
OwnersAreSound ==
  ~wild =>
  /\ ~heap.bad /\ ListsLinked(heap)
  /\ \A x \in Roots :
       /\ x \notin stale
       /\ Tree(heap, handle[x].json) \subseteq Live(heap)
       /\ \A y \in Roots \ {x} : Tree(heap, handle[x].json) \cap Tree(heap, handle[y].json) = {}

\* As long as memory suffices, no index is negative and no empty copy is assigned,
\* every node belongs to an owner's tree, and an object that is not stale still
\* points at a child of its parent.
NothingSlips ==
  ~strained /\ ~wild =>
    /\ UNION {Tree(heap, handle[x].json) : x \in Roots} = Live(heap)
    /\ \A x \in Handles : Usable(x) /\ handle[x].parent # Nil =>
         handle[x].json \in ToSet(Children(heap, handle[x].parent))
=============================================================================
