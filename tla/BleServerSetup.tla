--------------------------- MODULE BleServerSetup ----------------------------
(***************************************************************************)
(* How a program's task sets a GATT server up: every call asks the stack   *)
(* and waits on a binary semaphore, which the Bluetooth task gives when    *)
(* the stack's event comes.  The stack may refuse a request at once; the   *)
(* call then returns and leaves its semaphore taken.                       *)
(***************************************************************************)
EXTENDS BleCalls

CONSTANTS
  Services, Chars, Descrs,  \* objects, numbers: the maps are ordered by address
  Parent,                   \* the service of a characteristic, the characteristic of a descriptor
  Uuid                      \* of services and descriptors

VARIABLES
  handle,    \* m_handle of each object, 0 for NULL_HANDLE
  given,     \* the handle the stack gave to each object
  services,  \* m_uuidMap of the server's service map
  chars,     \* characteristics in the services' maps
  bound,     \* descriptors whose m_pCharacteristic is set
  last,      \* m_lastCreatedCharacteristic of each service, 0 for none
  started,   \* services the stack has started
  refused    \* whether the stack has refused a request

setupVars == <<todo, taken, asked, handle, given, services, chars, bound, last, started, refused>>

Server == 0
Objects == Services \cup Chars \cup Descrs
Init ==
  /\ todo = <<>> /\ taken = {} /\ asked = <<>> /\ refused = FALSE
  /\ handle = [x \in Objects |-> 0] /\ given = [x \in {Server} \cup Objects |-> 0]
  /\ services = {} /\ chars = {} /\ bound = {} /\ last = [s \in Services |-> 0] /\ started = {}
-----------------------------------------------------------------------------
InOrder(set) == SetToSortSeq(set, <)
\* What steps has for each member, in the order of the map.
Each(set, steps) == LET xs == InOrder(set) IN FlattenSeq([i \in DOMAIN xs |-> steps[xs[i]]])

CreateApp == Take("register", Server) \o Ask("register", Server, <<>>) \o Wait("register", Server)
CreateService(s) ==
  Take("service", Server) \o Do("enter", "", s) \o Exchange("create", s) \o Wait("service", Server)
\* An object that has its handle is left alone, and so are its descriptors.
CreateDescr(d) == IF handle[d] # 0 THEN <<>> ELSE Do("enter", "", d) \o Exchange("descr", d)
CreateChar(c) ==
  Do("enter", "", c) \o
  IF handle[c] # 0 THEN <<>>
  ELSE Take("char", c) \o Ask("char", c, Wait("char", c) \o Each({d \in Descrs : Parent[d] = c}, [d \in Descrs |-> CreateDescr(d)]))
Start(s) ==
  IF handle[s] = 0 THEN <<>>
  ELSE Each({c \in chars : Parent[c] = s}, [c \in chars |-> CreateChar(c)]) \o Exchange("start", s)
Stop(s) == IF handle[s] = 0 THEN <<>> ELSE Exchange("stop", s)
RemoveService(s) == Stop(s) \o Exchange("delete", s) \o Do("leave", "", s)

Registered == given[Server] # 0
Call ==
  /\ todo = <<>>
  /\ \/ ~Registered /\ todo' = CreateApp /\ UNCHANGED chars
     \/ /\ Registered
        /\ \E s \in Services :
             \/ s \notin services /\ given[s] = 0 /\ todo' = CreateService(s)
             \/ s \in services /\ todo' \in {Start(s), Stop(s), RemoveService(s)}
        /\ UNCHANGED chars
     \/ \E c \in Chars \ chars :
          Parent[c] \in services /\ chars' = chars \cup {c} /\ UNCHANGED todo
  /\ UNCHANGED <<taken, asked, handle, given, services, bound, last, started, refused>>

\* What the functions do between their waits.
Local ==
  /\ Doing("enter") \/ Doing("leave")
  /\ Proceed /\ UNCHANGED <<taken, asked>>
  /\ LET x == todo[1].x IN
     /\ services' = (IF Doing("leave") THEN services \ {x} ELSE IF x \in Services THEN services \cup {x} ELSE services)
     /\ bound' = (IF x \in Descrs THEN bound \cup {x} ELSE bound)
     /\ last' = (IF x \in Chars THEN [last EXCEPT ![Parent[x]] = x] ELSE last)
Step ==
  /\ \/ Local /\ UNCHANGED refused
     \/ (TakeStep \/ WaitStep \/ Accept) /\ UNCHANGED <<services, bound, last, refused>>
     \/ Refuse /\ refused' = TRUE /\ UNCHANGED <<services, bound, last>>
  /\ UNCHANGED <<handle, given, chars, started>>
-----------------------------------------------------------------------------
(* The events, as the server, its services, their characteristics and the  *)
(* descriptors handle them, in this order.                                 *)

\* The services with this handle put it into the characteristic created last.
AddChar(c, h) ==
  LET mine == {last[t] : t \in {t \in services : handle[t] = given[Parent[c]]}} \ {0}
      now == [x \in Objects |-> IF x \in mine THEN h ELSE handle[x]]
  IN /\ handle' = now
     /\ taken' = taken \ {<<"char", x>> : x \in {x \in chars : Parent[x] \in services /\ now[x] = h}}
AddDescr(d, h) ==
  LET mine == {e \in bound : /\ Uuid[e] = Uuid[d] /\ handle[Parent[Parent[e]]] = given[Parent[Parent[d]]]
                             /\ Parent[e] = last[Parent[Parent[e]]]}
  IN /\ handle' = [x \in Objects |-> IF x \in mine THEN h ELSE handle[x]]
     /\ taken' = taken \ {<<"descr", e>> : e \in mine}
\* mutant: a service that has its handle takes another one's
CreateAgain(s, h) ==
  LET mine == {t \in services : Uuid[t] = Uuid[s]}
  IN /\ handle' = [x \in Objects |-> IF x \in mine THEN h ELSE handle[x]]
     /\ taken' = (taken \ {<<"service", Server>>}) \ {<<"create", t>> : t \in mine}

\* All services with this UUID are told, the ones that have a handle keep it.
Create(s, h) ==
  LET mine == {t \in services : Uuid[t] = Uuid[s]}
  IN /\ handle' = [x \in Objects |-> IF x \in mine /\ handle[x] = 0 THEN h ELSE handle[x]]
     /\ taken' = (taken \ {<<"service", Server>>}) \ {<<"create", t>> : t \in mine}
Tell(kind, s) ==
  taken' = taken \ {<<kind, t>> : t \in {t \in services : handle[t] = given[s]}} /\ UNCHANGED handle

Answer ==
  /\ asked # <<>> /\ asked' = Tail(asked)
  /\ LET kind == Head(asked)[1]
         x == Head(asked)[2]
         h == 1 + Cardinality({y \in DOMAIN given : given[y] # 0})
     IN CASE kind = "register" -> taken' = taken \ {<<kind, x>>} /\ given' = [given EXCEPT ![x] = h] /\ UNCHANGED <<handle, started>>
          [] kind = "create" -> Create(x, h) /\ given' = [given EXCEPT ![x] = h] /\ UNCHANGED started
          [] kind = "char" -> AddChar(x, h) /\ given' = [given EXCEPT ![x] = h] /\ UNCHANGED started
          [] kind = "descr" -> AddDescr(x, h) /\ given' = [given EXCEPT ![x] = h] /\ UNCHANGED started
          [] kind = "start" -> Tell(kind, x) /\ started' = started \cup {x} /\ UNCHANGED given
          [] OTHER -> Tell(kind, x) /\ started' = started \ {x} /\ UNCHANGED given
  /\ UNCHANGED <<todo, services, chars, bound, last, refused>>

Next == Call \/ Step \/ Answer
Spec == Init /\ [][Next]_setupVars /\ WF_setupVars(Step) /\ WF_setupVars(Answer)
-----------------------------------------------------------------------------
\* Every variable keeps its kind of value.
TypeOK ==
  /\ refused \in BOOLEAN
  /\ handle \in [Objects -> 0..Cardinality(Objects) + 1] /\ given \in [{Server} \cup Objects -> 0..Cardinality(Objects) + 1]
  /\ services \subseteq Services /\ chars \subseteq Chars /\ bound \subseteq Descrs /\ started \subseteq Services

\* Every object has the handle the stack gave it, though the events name a service
\* by its UUID and a characteristic not at all: also when two services have one
\* UUID, and after requests that were refused.
HandlesAreRight == \A x \in Objects : handle[x] = given[x]

\* A call waits for ever only when the stack has refused something before.
CallsReturn == todo # <<>> ~> (todo = <<>> \/ refused)
=============================================================================
