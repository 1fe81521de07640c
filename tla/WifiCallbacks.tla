---------------------------- MODULE WifiCallbacks ----------------------------
(***************************************************************************)
(* WiFiGeneric.cpp, cbEventList: onEvent() registers a function for one    *)
(* event or for all, removeEvent() takes it out by function and event or   *)
(* by id, and _eventCallback() walks the vector by index on the event      *)
(* task, calling from a copy of each entry; the program and the functions  *)
(* called change the vector meanwhile, with no lock.                       *)
(***************************************************************************)
EXTENDS Naturals, Sequences, FiniteSets

CONSTANTS
    Functions,      \* the functions a program registers
    Events,         \* the events
    MaxIds          \* bound on registrations

All == "SYSTEM_EVENT_MAX"

VARIABLES
    cbEventList,    \* the vector: [id, cb, event]
    current_id,     \* the next id
    walk,           \* _eventCallback(): [event, i], i = 0 when it is done
    heard,          \* ids called in this walk
    due,            \* ids that were to be called and stayed in the list
    shifted         \* an entry the walk had passed was erased

callbackVars == <<cbEventList, current_id, walk, heard, due, shifted>>

Walking == walk.i > 0
Wants(entry, event) == entry.event \in {event, All}

\* The loop of removeEvent(): erase(begin() + i), and on with i + 1, so the
\* entry that follows an erased one is not looked at.
EraseStep(acc, entry, meant) ==
    IF entry \in meant /\ ~acc.skip
    THEN [kept |-> acc.kept, skip |-> TRUE]
    ELSE [kept |-> Append(acc.kept, entry), skip |-> FALSE]
EraseLoop(list, meant) ==
    LET seen[n \in 0 .. Len(list)] ==
            IF n = 0 THEN [kept |-> <<>>, skip |-> FALSE]
            ELSE EraseStep(seen[n - 1], list[n], meant)
    IN  seen[Len(list)].kept

IdsOf(list) == {list[k].id : k \in 1..Len(list)}

\* onEvent(): the four overloads.
OnEvent(f, e) ==
    /\ current_id < MaxIds
    /\ cbEventList' = Append(cbEventList, [id |-> current_id, cb |-> f, event |-> e])
    /\ current_id' = current_id + 1
    /\ UNCHANGED <<walk, heard, due, shifted>>

RemoveEvents(meant) ==
    /\ cbEventList' = EraseLoop(cbEventList, meant)
    /\ due' = due \cap IdsOf(cbEventList')
    /\ shifted' = \/ shifted
                  \/ /\ Walking
                     /\ \E k \in 1..Len(cbEventList) :
                            k < walk.i /\ cbEventList[k].id \notin IdsOf(cbEventList')
    /\ UNCHANGED <<current_id, walk, heard>>

Registered == {cbEventList[k] : k \in DOMAIN cbEventList}
RemoveByFunction(f, e) == RemoveEvents({entry \in Registered : entry.cb = f /\ entry.event = e})
RemoveById(id) == RemoveEvents({entry \in Registered : entry.id = id})

\* _eventCallback() reaches its loop.
Dispatch(e) ==
    /\ ~Walking
    /\ walk' = [event |-> e, i |-> 1]
    /\ heard' = {} /\ shifted' = FALSE
    /\ due' = {entry.id : entry \in {x \in Registered : x.event \in {e, All}}}
    /\ UNCHANGED <<cbEventList, current_id>>

\* One turn: the entry is copied, and called if it is for the event.  What the
\* function does to the list is a step of its own, before the next turn.
Turn ==
    /\ Walking
    /\ IF walk.i > Len(cbEventList)
       THEN walk' = [walk EXCEPT !.i = 0] /\ UNCHANGED heard
       ELSE /\ walk' = [walk EXCEPT !.i = @ + 1]
            /\ heard' = IF Wants(cbEventList[walk.i], walk.event)
                        THEN heard \cup {cbEventList[walk.i].id} ELSE heard
    /\ UNCHANGED <<cbEventList, current_id, due, shifted>>

Init ==
    /\ cbEventList = <<>> /\ current_id = 1
    /\ walk = [event |-> CHOOSE e \in Events : TRUE, i |-> 0]
    /\ heard = {} /\ due = {} /\ shifted = FALSE

Next ==
    \/ \E f \in Functions, e \in Events \cup {All} :
           OnEvent(f, e) \/ RemoveByFunction(f, e)
    \/ \E id \in 1..(MaxIds - 1) : RemoveById(id)
    \/ \E e \in Events : Dispatch(e)
    \/ Turn
Spec == Init /\ [][Next]_callbackVars

-----------------------------------------------------------------------------
\* Every variable keeps its kind of value, and ids are never given twice.
TypeOK ==
    /\ cbEventList \in Seq([id : 1..MaxIds, cb : Functions, event : Events \cup {All}])
    /\ Cardinality(IdsOf(cbEventList)) = Len(cbEventList)
    /\ \A id \in IdsOf(cbEventList) : id < current_id
    /\ walk.i \in 0..(MaxIds + 1)

\* When the walk ends, every function that was registered for the event when it
\* began, and still is, has been called; unless an entry the walk had passed was
\* erased, which moves the rest under its index.
EveryoneHears == [][Turn /\ walk'.i = 0 /\ ~shifted => due \subseteq heard]_callbackVars
=============================================================================
