------------------------------- MODULE MCData -------------------------------
(* What a program's objects hold, for TLC: JSON text and its trees, the JSONVar objects *)
(* that point into them, the sockets that clients and a server share, and TLS clients.  *)
(* A behaviour is of one part, the others stay in their first state.                    *)
EXTENDS Integers, Sequences, TLC

CONSTANTS x, y   \* objects of the program: JSONVar, WiFiClient, WiFiClientSecure

VARIABLES
    part,
    text, value, damage,
    tree, roots, lost,
    heap, handle, stale, garbage, strained, hung, wild,
    sock, rx, socket, connected, server, errno, lostFds, endless,
    fds, obj, wire, shared, leaked, kept

textVars == <<text, value, damage>>
treeVars == <<tree, roots, lost>>
varVars == <<heap, handle, stale, garbage, strained, hung, wild>>
sockVars == <<sock, rx, socket, connected, server, errno, lostFds, endless>>
secureVars == <<fds, obj, wire, shared, leaked, kept>>
vars == <<part, textVars, treeVars, varVars, sockVars, secureVars>>

-----------------------------------------------------------------------------
\* Texts of a few symbols, and values of each type, nested twice, with escaped names,
\* names that are equal and an empty one, whose printed text is damaged once.
Symbols == {"null", "true", "-", "1", "quote", "backslash", "n", "uA", "u0", "uH", "uL", "ctl",
            "[", "]", "{", "}", ",", ":", " ", "bom"}
Val(t, v) == [t |-> t, v |-> v]
NullValue == Val("null", <<>>)
Named(k, v) == [key |-> k, val |-> v]
Leaves == {NullValue, Val("num", <<"-", "1">>), Val("num", <<"nan">>), Val("str", <<"quote", "pair">>),
           Val("str", <<"nl", "backslash">>), Val("arr", <<>>), Val("obj", <<>>)}
Values ==
    Leaves
    \cup {Val("arr", <<v, NullValue>>) : v \in Leaves}
    \cup {Val("obj", <<Named(<<"quote">>, v), Named(<<"quote">>, v)>>) : v \in Leaves}
    \cup {Val("obj", <<Named(<<"ctl">>, Val("arr", <<v>>)), Named(<<>>, Val("true", <<>>))>>) : v \in Leaves}
Text == INSTANCE JsonText WITH MaxText <- 3, MaxDamage <- 1, NestingLimit <- 3

\* Four nodes, names that differ in case, and calls that run out of memory at once,
\* after one allocation, and never.
Tree == INSTANCE CJson WITH
    heap <- tree, Nodes <- 1..4, Keys <- {"a", "A"}, Budgets <- {0, 1, 9}, Indices <- {0, 1},
    Leaves <- {"str"}, MaxLists <- 1, MaxLost <- 1, MaxRoots <- 3

Vars == INSTANCE JsonVar WITH
    Handles <- {x, y}, Nodes <- 1..4, Keys <- {"a"}, Budgets <- {0, 1, 9}, Indices <- {0, 1}
Symmetry == Permutations({x, y})

\* Two objects for two descriptors, a buffer smaller than what a peer sends.
Sockets == INSTANCE WifiSockets WITH
    Clients <- {x, y}, Fds <- {0, 1}, Size <- 2, MaxSent <- 2,
    handle <- socket, lost <- lostFds, hung <- endless

Secure == INSTANCE WifiSecure WITH Objects <- {x, y}, Fds <- {0, 1}, Bytes <- 2, stale <- kept

-----------------------------------------------------------------------------
Init ==
    /\ part \in {"text", "tree", "vars", "sockets", "secure"}
    /\ Text!Init /\ Tree!Init /\ Vars!Init
    /\ Sockets!Init /\ Secure!Init

Next ==
    /\ UNCHANGED part
    /\ \/ part = "text" /\ Text!Next
       \/ part # "text" /\ UNCHANGED textVars
    /\ \/ part = "tree" /\ Tree!Next
       \/ part # "tree" /\ UNCHANGED treeVars
    /\ \/ part = "vars" /\ Vars!Next
       \/ part # "vars" /\ UNCHANGED varVars
    /\ \/ part = "sockets" /\ Sockets!Next
       \/ part # "sockets" /\ UNCHANGED sockVars
    /\ \/ part = "secure" /\ Secure!Next
       \/ part # "secure" /\ UNCHANGED secureVars
Spec == Init /\ [][Next]_vars

-----------------------------------------------------------------------------
\* Each part's variables keep their kinds and bounds.
TypeOK ==
    /\ part = "text" => Text!TypeOK
    /\ part = "tree" => Tree!TypeOK
    /\ part = "vars" => Vars!TypeOK
    /\ part = "sockets" => Sockets!TypeOK
    /\ part = "secure" => Secure!TypeOK

\* What cJSON prints is parsed to the same value, with format or without, minified
\* (cJSON_Minify), and printed into a buffer that grows or that just has the room the
\* header asks for (cJSON_PrintPreallocated).
TextRoundTrips ==
    part = "text" => Text!TextRoundTrips /\ Text!MinifyKeepsValue /\ Text!PrintFits

\* Each node of a tree is owned once, by whatever calls and failed allocations it was
\* made, and a duplicate equals its original (cJSON_Compare).
NodesOwnedOnce == part = "tree" => Tree!NodesOwnedOnce /\ Tree!CopiesAreEqual

\* JSONVar objects free each tree once, and lose none while memory suffices, but for
\* the pointers a move construction leaves uninitialised (JSONVar(JSONVar &&)).
OwnersAreSound == part = "vars" => Vars!OwnersAreSound /\ Vars!NothingSlips

\* Every descriptor belongs to the objects that share it, or to the server, and is
\* closed once, and the program reads a peer's bytes in order and without a gap
\* (WiFiClient, WiFiServer, WiFiClientSecure).
SocketsAreSound ==
    /\ part = "sockets" => Sockets!DescriptorsOwned /\ Sockets!StreamsAreWhole
    /\ part = "secure" => Secure!SocketsOwned /\ Secure!BytesInOrder
=============================================================================
