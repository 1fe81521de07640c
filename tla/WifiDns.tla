------------------------------- MODULE WifiDns -------------------------------
(***************************************************************************)
(* WiFiGeneric.cpp, hostByName(): a task resolves a name through lwIP,     *)
(* whose callback writes the address into the caller's variable and sets   *)
(* WIFI_DNS_DONE_BIT; WIFI_DNS_IDLE_BIT is meant to let one lookup run at  *)
(* a time.  lwIP gives up after 14 s, before the caller's 15 s; two tasks  *)
(* resolve, so nobody waits 16 s for the idle bit.                         *)
(***************************************************************************)
EXTENDS Naturals, FiniteSets

CONSTANTS
    Callers,        \* the tasks that resolve names
    Names           \* the names each asks for; the address of a name is the name itself

Zero == "0.0.0.0"
Hosts == UNION {Names[t] : t \in Callers}

VARIABLES
    dnsBits,        \* the two DNS bits of the network event group
    lookup,         \* each task's hostByName(): [at, host]
    aResult,        \* each task's variable
    asked,          \* requests lwIP works on: <<task, name>>
    failed,         \* tasks whose request lwIP could not resolve
    overlapped      \* two tasks were past the idle bit at once

dnsVars == <<dnsBits, lookup, aResult, asked, failed, overlapped>>

Points == {"idle", "free", "clear", "ask", "wait", "release"}
Goto(t, p) == lookup' = [lookup EXCEPT ![t].at = p]
Past(t) == lookup[t].at \in {"clear", "ask", "wait", "release"}

HostByName(t, h) ==
    /\ lookup[t].at = "idle"
    /\ lookup' = [lookup EXCEPT ![t] = [at |-> "free", host |-> h]]
    /\ aResult' = [aResult EXCEPT ![t] = Zero]
    /\ failed' = failed \ {t}
    /\ UNCHANGED <<dnsBits, asked, overlapped>>

\* waitStatusBits(WIFI_DNS_IDLE_BIT) leaves the bit set.
WaitIdle(t) ==
    /\ lookup[t].at = "free" /\ "idle" \in dnsBits
    /\ Goto(t, "clear")
    /\ overlapped' = (overlapped \/ \E u \in Callers \ {t} : Past(u))
    /\ UNCHANGED <<dnsBits, aResult, asked, failed>>

ClearBits(t) ==
    /\ lookup[t].at = "clear"
    /\ dnsBits' = {}
    /\ Goto(t, "ask")
    /\ UNCHANGED <<aResult, asked, failed, overlapped>>

\* dns_gethostbyname(): known, in progress, or refused.
GetHostByName(t) ==
    /\ lookup[t].at = "ask"
    /\ \/ /\ aResult' = [aResult EXCEPT ![t] = lookup[t].host]
          /\ Goto(t, "release") /\ UNCHANGED <<asked, failed>>
       \/ /\ asked' = asked \cup {<<t, lookup[t].host>>}
          /\ Goto(t, "wait") /\ UNCHANGED <<aResult, failed>>
       \/ /\ failed' = failed \cup {t}
          /\ Goto(t, "release") /\ UNCHANGED <<aResult, asked>>
    /\ UNCHANGED <<dnsBits, overlapped>>

\* wifi_dns_found_callback(), on lwIP's task.
FoundCallback(t, h) ==
    /\ <<t, h>> \in asked
    /\ asked' = asked \ {<<t, h>>}
    /\ dnsBits' = dnsBits \cup {"done"}
    /\ \/ aResult' = [aResult EXCEPT ![t] = h] /\ UNCHANGED failed
       \/ failed' = failed \cup {t} /\ UNCHANGED aResult
    /\ UNCHANGED <<lookup, overlapped>>

\* waitStatusBits(WIFI_DNS_DONE_BIT) ends with the bit or, lwIP having given up
\* the caller's request, after 15 s; the bit is cleared.
WaitDone(t) ==
    /\ lookup[t].at = "wait"
    /\ "done" \in dnsBits \/ <<t, lookup[t].host>> \notin asked
    /\ dnsBits' = dnsBits \ {"done"}
    /\ Goto(t, "release")
    /\ UNCHANGED <<aResult, asked, failed, overlapped>>

\* mutant: the idle bit is not set again
ReleaseKeepsBusy(t) ==
    /\ lookup[t].at = "release"
    /\ Goto(t, "idle")
    /\ UNCHANGED <<dnsBits, aResult, asked, failed, overlapped>>

Release(t) ==
    /\ lookup[t].at = "release"
    /\ dnsBits' = dnsBits \cup {"idle"}
    /\ Goto(t, "idle")
    /\ UNCHANGED <<aResult, asked, failed, overlapped>>

Init ==
    /\ dnsBits = {"idle"}
    /\ lookup = [t \in Callers |-> [at |-> "idle", host |-> CHOOSE h \in Names[t] : TRUE]]
    /\ aResult = [t \in Callers |-> Zero]
    /\ asked = {} /\ failed = {} /\ overlapped = FALSE

LookupStep(t) ==
    WaitIdle(t) \/ ClearBits(t) \/ GetHostByName(t) \/ WaitDone(t) \/ Release(t)
LwipStep == \E t \in Callers, h \in Hosts : FoundCallback(t, h)
Next ==
    \/ \E t \in Callers : LookupStep(t) \/ \E h \in Names[t] : HostByName(t, h)
    \/ LwipStep
DnsFairness == WF_dnsVars(LwipStep) /\ \A t \in Callers : SF_dnsVars(LookupStep(t))
Spec == Init /\ [][Next]_dnsVars /\ DnsFairness

-----------------------------------------------------------------------------
\* Every variable keeps its kind of value.
TypeOK ==
    /\ dnsBits \subseteq {"idle", "done"}
    /\ lookup \in [Callers -> [at : Points, host : Hosts]]
    /\ aResult \in [Callers -> Hosts \cup {Zero}]
    /\ asked \subseteq Callers \X Hosts /\ failed \subseteq Callers

\* Unless two tasks got past the idle bit at once, lwIP never writes into the
\* variable of a call that has returned, and a call returns the address of its
\* own name, or none only because lwIP could not resolve it.
LookupsAreOwn ==
    ~overlapped => \A t \in Callers :
        /\ \A h \in Hosts : <<t, h>> \in asked =>
                                lookup[t] = [at |-> "wait", host |-> h]
        /\ lookup[t].at = "release" =>
               aResult[t] = IF t \in failed THEN Zero ELSE lookup[t].host

\* Every lookup returns, with or without an address.
Returned(t) == lookup[t].at = "idle"
LookupReturns == \A t \in Callers : ~Returned(t) ~> Returned(t)
=============================================================================
