----------------------------- MODULE WifiStation -----------------------------
(***************************************************************************)
(* WiFiGeneric.cpp, WiFiSTA.cpp and WiFiAP.cpp: the driver posts events to *)
(* a queue; the network event task turns each into a status and status     *)
(* bits and, after some losses, calls disconnect() and begin() by itself;  *)
(* the program's task calls mode(), begin(), disconnect(), softAP() and    *)
(* the rest meanwhile.  The driver (esp_wifi_...) is modelled by what the  *)
(* code relies on: which calls it accepts and which events it posts.       *)
(***************************************************************************)
EXTENDS Naturals, Sequences

CONSTANTS
    Networks,       \* the networks a program may name
    MaxQueue,       \* bound on waiting events (the queue holds 32)
    MaxCalls,       \* bound on the program's calls
    MaxLosses       \* bound on failures of the radio

NoNet == "no ssid"

\* Reasons of STA_DISCONNECTED: the value _setStatus() gets for each; none
\* for AUTH_EXPIRE.
StatusAfter == [noFound |-> "no ssid avail", authFail |-> "connect failed",
                assocFail |-> "connect failed", beacon |-> "connection lost",
                connFail |-> "disconnected", leave |-> "disconnected"]
Reasons == DOMAIN StatusAfter \cup {"expire"}
Retried == Reasons \ {"authFail", "leave"}
Loss(r) == [id |-> "disconnected", reason |-> r]
Event(id) == [id |-> id, reason |-> ""]
Start == [sta |-> "sta start", ap |-> "ap start"]
Stop == [sta |-> "sta stop", ap |-> "ap stop"]
NoEvent == Event("")

VARIABLES
    drv,        \* the driver: [mode, config, link, queue]
    dhcp,       \* FALSE when config() set a static address: ~_useStaticIp
    status,     \* _sta_status_group
    bits,       \* the network event group
    auto,       \* _autoReconnect
    task,       \* the event task: [at, event]
    smart,      \* _smartConfigStarted and _smartConfigDone
    calls,      \* calls made, to bound them
    losses,     \* failures of the radio, to bound them
    expired,    \* the last loss was AUTH_EXPIRE, and no status came since
    quiet,      \* the program switched the station off, no loss being queued
    lost        \* the reason of a loss of the radio not yet made good, given
                \* up by a call of the program or by begin() taking a stale
                \* status for a connection

stationVars == <<drv, dhcp, status, bits, auto, task, smart, calls, losses,
                 expired, quiet, lost>>

-----------------------------------------------------------------------------
\* The driver's answers to the calls of the code.  getMode() is drv.mode, {}
\* while WiFi is stopped.
Post(d, events) == [d EXCEPT !.queue = @ \o events]

\* esp_wifi_disconnect(): an event only when there was something to leave.
Disconnect(d) ==
    IF d.link = "down" THEN d
    ELSE Post([d EXCEPT !.link = "down"], <<Loss("leave")>>)

\* esp_wifi_connect(): nothing while it is connecting or has no SSID.
Connect(d) ==
    IF d.link = "down" /\ d.config # NoNet THEN [d EXCEPT !.link = "joining"]
    ELSE d

\* mode(m): wifiLowLevelInit(), esp_wifi_set_mode() and espWiFiStart(), or
\* espWiFiStop() for {}; interfaces that go or come post their events.
Mode(d, m) ==
    LET was == d.mode
        left == IF "sta" \in m THEN d ELSE Disconnect(d)
        Went(i) == IF i \in was \ m THEN <<Event(Stop[i])>> ELSE <<>>
        Came(i) == IF i \in m \ was THEN <<Event(Start[i])>> ELSE <<>>
        stopped == Post(Post([left EXCEPT !.mode = m], Went("sta")), Went("ap"))
    IN  Post(Post(stopped, Came("sta")), Came("ap"))

EnableSTA(d) == Mode(d, d.mode \cup {"sta"})
EnableAP(d, on) == Mode(d, IF on THEN d.mode \cup {"ap"} ELSE d.mode \ {"ap"})

\* begin(): the stored configuration; connects unless status() says connected.
BeginStored(d) ==
    LET on == EnableSTA(d)
    IN  IF status = "connected" THEN on ELSE Connect(on)

\* begin(ssid, ...): a new configuration leaves the old network first.
Begin(d, n) ==
    LET on == EnableSTA(d)
    IN  IF on.config # n THEN Connect([Disconnect(on) EXCEPT !.config = n])
        ELSE IF status = "connected" THEN on ELSE Connect(on)

\* disconnect(wifioff, eraseap).
Leave(d, off, erase) ==
    IF "sta" \notin d.mode THEN d
    ELSE LET left == Disconnect([d EXCEPT !.config = IF erase THEN NoNet ELSE @])
         IN  IF off THEN Mode(left, left.mode \ {"sta"}) ELSE left

-----------------------------------------------------------------------------
\* The program's calls, each one step.  A call may be refused by the driver,
\* which leaves all as it was.
LossPending ==
    \/ \E i \in 1..Len(drv.queue) : drv.queue[i].reason \in Retried
    \/ task.at # "rest" /\ task.event.reason \in Retried

Call(d) ==
    /\ calls < MaxCalls /\ calls' = calls + 1
    /\ drv' = d
    /\ Len(d.queue) <= MaxQueue
    /\ quiet' = /\ "sta" \notin d.mode
                /\ quiet \/ ~LossPending
    /\ lost' = "none"
    /\ UNCHANGED <<status, bits, task, losses, expired>>

SetMode(m) == Call(Mode(drv, m)) /\ UNCHANGED <<dhcp, auto, smart>>
BeginNetwork(n) == Call(Begin(drv, n)) /\ UNCHANGED <<dhcp, auto, smart>>
BeginAgain == Call(BeginStored(drv)) /\ UNCHANGED <<dhcp, auto, smart>>
DisconnectSta(off, erase) ==
    Call(Leave(drv, off, erase)) /\ UNCHANGED <<dhcp, auto, smart>>

\* reconnect().
Reconnect ==
    /\ "sta" \in drv.mode
    /\ Call(Connect(Disconnect(drv)))
    /\ UNCHANGED <<dhcp, auto, smart>>

\* config(): a local address stops DHCP, no address starts it.
Config(static) ==
    /\ Call(EnableSTA(drv))
    /\ dhcp' = ~static
    /\ UNCHANGED <<auto, smart>>

SetAutoReconnect(b) == Call(drv) /\ auto' = b /\ UNCHANGED <<dhcp, smart>>

\* softAP() and softAPConfig(); softAPdisconnect(wifioff).
SoftAP == Call(EnableAP(drv, TRUE)) /\ UNCHANGED <<dhcp, auto, smart>>
SoftAPDisconnect(off) ==
    /\ drv.mode # {}
    /\ Call(IF off THEN EnableAP(drv, FALSE) ELSE drv)
    /\ UNCHANGED <<dhcp, auto, smart>>

\* beginSmartConfig() and stopSmartConfig().
BeginSmartConfig ==
    /\ "started" \notin smart
    /\ Call(Disconnect(Mode(drv, {"sta"})))
    /\ smart' = {"started"}
    /\ UNCHANGED <<dhcp, auto>>

StopSmartConfig ==
    /\ "started" \in smart
    /\ Call(drv)
    /\ smart' = smart \ {"started"}
    /\ UNCHANGED <<dhcp, auto>>

\* _smartConfigCallback(): SC_STATUS_LINK brings a network to join;
\* SC_STATUS_LINK_OVER stops the configuration.
SmartConfigLink(n) ==
    /\ "started" \in smart /\ "sta" \in drv.mode
    /\ drv' = Connect([drv EXCEPT !.config = n])
    /\ smart' = smart \cup {"done"}
    /\ lost' = "none"
    /\ UNCHANGED <<dhcp, status, bits, auto, task, calls, losses, expired, quiet>>

SmartConfigOver ==
    /\ smart = {"started", "done"}
    /\ smart' = {"done"}
    /\ UNCHANGED <<drv, dhcp, status, bits, auto, task, calls, losses, expired,
                   quiet, lost>>

-----------------------------------------------------------------------------
\* The radio: a network is joined and gives an address, or it is lost.
Radio(link, events) ==
    /\ Len(drv.queue) < MaxQueue
    /\ drv' = Post([drv EXCEPT !.link = link], events)
    /\ UNCHANGED <<dhcp, status, bits, auto, task, smart, calls, expired, quiet>>

Joins ==
    /\ drv.link = "joining" /\ Radio("joined", <<Event("sta connected")>>)
    /\ UNCHANGED <<losses, lost>>

GetsAddress ==
    /\ drv.link = "joined" /\ Radio("up", <<Event("got ip")>>)
    /\ lost' = "none"
    /\ UNCHANGED losses

LosesAddress ==
    /\ drv.link = "up" /\ losses < MaxLosses
    /\ Radio("joined", <<Event("lost ip")>>)
    /\ losses' = losses + 1
    /\ UNCHANGED lost

Loses(r) ==
    /\ losses < MaxLosses /\ losses' = losses + 1
    /\ IF r \in {"noFound", "authFail", "assocFail", "connFail"}
       THEN drv.link = "joining" ELSE drv.link # "down"
    /\ Radio("down", <<Loss(r)>>)
    /\ lost' = r

-----------------------------------------------------------------------------
\* _network_event_task() takes an event.  _setStatus() clears the group, which
\* reads as WL_IDLE_STATUS, and then sets the value.
StatusOf(e) ==
    IF e.reason \in DOMAIN StatusAfter THEN StatusAfter[e.reason]
    ELSE [id \in {"sta start", "sta stop", "sta connected", "got ip", "lost ip"}
            |-> CASE id = "sta start" -> "disconnected"
                  [] id = "sta stop" -> "no shield"
                  [] id = "got ip" -> "connected"
                  [] OTHER -> "idle"][e.id]

SetsStatus(e) == e.id \notin {"ap start", "ap stop"} /\ e.reason # "expire"

BitsAfter(e) ==
    LET sta == {"sta connected", "sta ip"}
    IN  CASE e.id = "sta start" -> bits \cup {"sta started"}
          [] e.id = "sta stop" -> bits \ (sta \cup {"sta started"})
          [] e.id = "sta connected" -> bits \cup {"sta connected"}
          [] e.id = "disconnected" -> bits \ sta
          [] e.id = "got ip" -> bits \cup sta
          [] e.id = "lost ip" -> bits \ {"sta ip"}
          [] e.id = "ap start" -> bits \cup {"ap started"}
          [] e.id = "ap stop" -> bits \ {"ap started"}

Take ==
    /\ task.at = "rest" /\ drv.queue # <<>>
    /\ LET e == Head(drv.queue)
       IN  /\ task' = [at |-> IF SetsStatus(e) THEN "status" ELSE "bits", event |-> e]
           /\ status' = IF SetsStatus(e) THEN "idle" ELSE status
    /\ drv' = [drv EXCEPT !.queue = Tail(@)]
    /\ UNCHANGED <<dhcp, bits, auto, smart, calls, losses, expired, quiet, lost>>

SetStatus ==
    /\ task.at = "status"
    /\ status' = StatusOf(task.event)
    /\ expired' = FALSE
    /\ task' = [task EXCEPT !.at = "bits"]
    /\ UNCHANGED <<drv, dhcp, bits, auto, smart, calls, losses, quiet, lost>>

\* The bits, and whether this loss is one to reconnect after.
SetBits ==
    /\ task.at = "bits"
    /\ bits' = BitsAfter(task.event)
    /\ expired' = (expired \/ task.event.reason = "expire")
    /\ task' = IF task.event.reason \in Retried /\ auto
               THEN [task EXCEPT !.at = "leave"]
               ELSE [at |-> "rest", event |-> NoEvent]
    /\ UNCHANGED <<drv, dhcp, status, auto, smart, calls, losses, quiet, lost>>

\* WiFi.disconnect(), then WiFi.begin(), by the event task.
TaskLeaves ==
    /\ task.at = "leave"
    /\ drv' = Leave(drv, FALSE, FALSE)
    /\ task' = [task EXCEPT !.at = "begin"]
    /\ UNCHANGED <<dhcp, status, bits, auto, smart, calls, losses, expired, quiet,
                   lost>>

TaskBegins ==
    /\ task.at = "begin"
    /\ drv' = BeginStored(drv)
    /\ task' = [at |-> "rest", event |-> NoEvent]
    /\ lost' = IF status = "connected" THEN "none" ELSE lost
    /\ UNCHANGED <<dhcp, status, bits, auto, smart, calls, losses, expired, quiet>>

-----------------------------------------------------------------------------
Init ==
    /\ drv = [mode |-> {}, config |-> NoNet, link |-> "down", queue |-> <<>>]
    /\ dhcp = TRUE /\ status = "no shield" /\ bits = {} /\ auto = TRUE
    /\ task = [at |-> "rest", event |-> NoEvent] /\ smart = {}
    /\ calls = 0 /\ losses = 0
    /\ expired = FALSE /\ quiet = TRUE /\ lost = "none"

Program ==
    \/ \E m \in SUBSET {"sta", "ap"} : SetMode(m)
    \/ \E n \in Networks : BeginNetwork(n)
    \/ BeginAgain \/ Reconnect
    \/ \E off, erase \in BOOLEAN : DisconnectSta(off, erase)
    \/ \E b \in BOOLEAN : Config(b) \/ SetAutoReconnect(b) \/ SoftAPDisconnect(b)
    \/ SoftAP
    \/ BeginSmartConfig \/ StopSmartConfig
    \/ \E n \in Networks : SmartConfigLink(n)
    \/ SmartConfigOver
Task == Take \/ SetStatus \/ SetBits \/ TaskLeaves \/ TaskBegins
Next ==
    \/ Program \/ Task
    \/ Joins \/ GetsAddress \/ LosesAddress
    \/ \E r \in Reasons : Loses(r)

StationFairness ==
    WF_stationVars(Task) /\ WF_stationVars(Joins) /\ WF_stationVars(GetsAddress)
Spec == Init /\ [][Next]_stationVars /\ StationFairness

-----------------------------------------------------------------------------
\* Every variable keeps its kind of value.
TypeOK ==
    /\ drv.mode \subseteq {"sta", "ap"} /\ drv.config \in Networks \cup {NoNet}
    /\ drv.link \in {"down", "joining", "joined", "up"}
    /\ drv.queue \in Seq([id : STRING, reason : Reasons \cup {""}])
    /\ dhcp \in BOOLEAN /\ auto \in BOOLEAN
    /\ smart \subseteq {"started", "done"}
    /\ bits \subseteq {"sta started", "sta connected", "sta ip", "ap started"}
    /\ task.at \in {"rest", "status", "bits", "leave", "begin"}
    /\ calls \in 0..MaxCalls /\ losses \in 0..MaxLosses
    /\ lost \in Reasons \cup {"none"}

\* Once the event task has caught up, the status bits are those of the driver,
\* and status() says connected exactly when the station has an address; except
\* that after AUTH_EXPIRE it still says what it said before.
StatusIsTrue ==
    drv.queue = <<>> /\ task.at = "rest" =>
        /\ "sta started" \in bits <=> "sta" \in drv.mode
        /\ "ap started" \in bits <=> "ap" \in drv.mode
        /\ "sta connected" \in bits <=> drv.link \in {"joined", "up"}
        /\ "sta ip" \in bits <=> drv.link = "up"
        /\ drv.link = "up" => status = "connected"
        /\ status = "connected" => drv.link = "up" \/ expired

\* A station that the program switched off stays off: the event task switches
\* it on again only for a loss that was still queued at that time.
OffStaysOff == quiet => "sta" \notin drv.mode

\* After a loss that _eventCallback() reconnects for, the station gets back to
\* the network, unless the program intervened, the next attempt failed for a
\* reason that is not retried, or begin() found status() still connected (which
\* AUTH_EXPIRE leaves as it was).
LostFromNet == lost \in Retried /\ auto /\ drv.config # NoNet
RetryOver == lost \notin Retried
LossIsRetried == LostFromNet ~> RetryOver
=============================================================================
