------------------------------ MODULE WifiScan ------------------------------
(***************************************************************************)
(* WiFiScan.cpp and WiFiMulti.cpp: the program's task starts a scan and    *)
(* waits for it or polls it; the network event task takes the driver's     *)
(* SCAN_DONE and publishes the results.  The two share two bits of the     *)
(* event group, _scanStarted, _scanCount and _scanResult, with no lock.    *)
(* A result array is the survey the driver delivered; times are two        *)
(* values: before and after the timeout.                                   *)
(***************************************************************************)
EXTENDS Integers, Sequences

CONSTANTS
    Surveys,     \* what a scan may find: sequences of [ssid, rssi, open]
    Lists        \* APlist: sequences of [ssid, pass], pass a Boolean

Running == -1
Failed == -2

VARIABLES
    bits,        \* WIFI_SCANNING_BIT and WIFI_SCAN_DONE_BIT
    started,     \* _scanStarted: "no", "fresh", or "overdue" past the timeout
    count,       \* _scanCount
    result,      \* _scanResult: the array of records, <<>> for a null pointer
    radio,       \* "idle", "busy", or "posted": SCAN_DONE waits in the queue
    survey,      \* what the driver holds of the last scan
    task,        \* where the event task is in _scanDone()
    call,        \* where the program is in scanNetworks() or run()
    list,        \* APlist
    chosen,      \* bestNetwork of the last run(), {} if it found none
    overtaken,   \* a SCAN_DONE was handled before its scan was marked
    givenUp,     \* scanComplete() gave up a scan that still went on
    leaked       \* a result array was overwritten without delete[]

scanVars == <<bits, started, count, result, radio, survey, task, call, list,
              chosen, overtaken, givenUp, leaked>>
shared == <<bits, started, count, result>>
ghosts == <<overtaken, givenUp, leaked>>

CallPoints == {"idle", "start", "stamp", "clear", "mark", "wait", "pick"}
Idle == [at |-> "idle", async |-> FALSE, multi |-> FALSE, answer |-> Failed]

\* The program's call returns n.
Return(n) == call' = [call EXCEPT !.at = "idle", !.answer = n]

-----------------------------------------------------------------------------
\* scanDelete().
ScanDelete ==
    /\ bits' = bits \ {"done"}
    /\ result' = <<>>
    /\ count' = IF result = <<>> THEN count ELSE 0

\* scanNetworks() as far as esp_wifi_scan_start(); run() calls it too.
ScanNetworks(async, multi) ==
    /\ call.at = "idle"
    /\ IF "scanning" \in bits
       THEN /\ call' = [Idle EXCEPT !.answer = Running]
            /\ UNCHANGED <<bits, result, count>>
       ELSE /\ ScanDelete
            /\ call' = [at |-> "start", async |-> async, multi |-> multi,
                        answer |-> Failed]
    /\ UNCHANGED <<started, radio, survey, task, list, chosen>>
    /\ UNCHANGED ghosts

\* esp_wifi_scan_start(): refused while a scan goes on, or for another error.
DriverStart ==
    /\ call.at = "start"
    /\ \/ /\ radio = "idle"
          /\ radio' = "busy"
          /\ call' = [call EXCEPT !.at = "stamp"]
       \/ Return(Failed) /\ UNCHANGED radio
    /\ UNCHANGED <<survey, task, list, chosen>> /\ UNCHANGED shared
    /\ UNCHANGED ghosts

\* _scanStarted = millis().
Stamp ==
    /\ call.at = "stamp"
    /\ started' = "fresh"
    /\ call' = [call EXCEPT !.at = "clear"]
    /\ UNCHANGED <<bits, count, result, radio, survey, task, list, chosen>>
    /\ UNCHANGED ghosts

\* clearStatusBits(WIFI_SCAN_DONE_BIT), then setStatusBits(WIFI_SCANNING_BIT).
Mark ==
    /\ \/ /\ call.at = "clear"
          /\ bits' = bits \ {"done"}
          /\ call' = [call EXCEPT !.at = "mark"]
       \/ /\ call.at = "mark"
          /\ bits' = bits \cup {"scanning"}
          /\ IF call.async THEN Return(Running)
             ELSE call' = [call EXCEPT !.at = "wait"]
    /\ UNCHANGED <<started, count, result, radio, survey, task, list, chosen>>
    /\ UNCHANGED ghosts

\* waitStatusBits(WIFI_SCAN_DONE_BIT, 10000): the number found, or a failure
\* that leaves WIFI_SCANNING_BIT to the event.
Wait ==
    /\ call.at = "wait"
    /\ IF "done" \in bits
       THEN call' = [call EXCEPT !.at = IF call.multi THEN "pick" ELSE "idle",
                                 !.answer = count]
       ELSE Return(Failed)
    /\ UNCHANGED <<radio, survey, task, list, chosen>> /\ UNCHANGED shared
    /\ UNCHANGED ghosts

\* The first entry of the list with the network's name counts, and the network must
\* be open or the entry have a passphrase.
Entries(net) == {k \in DOMAIN list : list[k].ssid = net.ssid}
Opens(net) ==
    \E k \in Entries(net) :
        /\ \A j \in Entries(net) : k <= j
        /\ net.open \/ list[k].pass

\* mutant: every usable network beats the one before it
BetterAlways(best, net) == Opens(net)

\* One turn of run()'s loop.
Better(best, net) == Opens(net) /\ \A b \in best : net.rssi > b.rssi

BestOf(nets) ==
    LET best[n \in 0 .. Len(nets)] ==
            IF n = 0 THEN {}
            ELSE IF Better(best[n - 1], nets[n]) THEN {nets[n]} ELSE best[n - 1]
    IN  best[Len(nets)]

\* run() once scanNetworks() returned n >= 0: it looks at n records through
\* _getScanInfoByIndex(), which refuses what is not below _scanCount; then it
\* frees them.  (ResultsFit says when the count is within the array.)
Pick ==
    /\ call.at = "pick"
    /\ \E n \in {call.answer, count, Len(result)} :
          /\ \A m \in {call.answer, count, Len(result)} : n <= m
          /\ chosen' = BestOf(SubSeq(result, 1, n))
    /\ ScanDelete
    /\ call' = Idle
    /\ UNCHANGED <<started, radio, survey, task, list>> /\ UNCHANGED ghosts

\* scanComplete(), polled by a program that scans asynchronously.
ScanComplete ==
    /\ call.at = "idle"
    /\ IF started = "overdue"
       THEN bits' = bits \ {"scanning"} /\ Return(Failed)
       ELSE /\ UNCHANGED bits
            /\ Return(IF "done" \in bits THEN count
                      ELSE IF "scanning" \in bits THEN Running ELSE Failed)
    /\ givenUp' = (givenUp \/ /\ started = "overdue"
                              /\ radio # "idle" \/ task # "rest")
    /\ UNCHANGED <<started, count, result, radio, survey, task, list, chosen,
                   overtaken, leaked>>

\* The program deletes the results it has read.
Delete ==
    /\ call.at = "idle" /\ ScanDelete
    /\ UNCHANGED <<started, radio, survey, task, call, list, chosen>>
    /\ UNCHANGED ghosts

\* The milliseconds pass: more than _scanTimeout since the scan began.
Pass ==
    /\ started = "fresh" /\ started' = "overdue"
    /\ UNCHANGED <<bits, count, result, radio, survey, task, call, list, chosen>>
    /\ UNCHANGED ghosts

-----------------------------------------------------------------------------
\* The driver ends the scan and posts SCAN_DONE.
Found ==
    /\ radio = "busy" /\ radio' = "posted"
    /\ survey' \in Surveys
    /\ UNCHANGED <<task, call, list, chosen>> /\ UNCHANGED shared
    /\ UNCHANGED ghosts

\* _scanDone(), begun: esp_wifi_scan_get_ap_num(&_scanCount).
DoneCount ==
    /\ radio = "posted" /\ task = "rest"
    /\ radio' = "idle"
    /\ count' = Len(survey)
    /\ task' = IF survey = <<>> THEN "announce" ELSE "records"
    /\ UNCHANGED <<bits, started, result, survey, call, list, chosen>>
    /\ UNCHANGED ghosts

\* The records, into a new array; the old pointer is overwritten.  The driver
\* has given up its copy.  If it fails, the array stays and counts for nothing.
DoneRecords ==
    /\ task = "records"
    /\ result' = survey
    /\ count' \in {count, 0}
    /\ leaked' = (leaked \/ result # <<>>)
    /\ survey' = <<>>
    /\ task' = "announce"
    /\ UNCHANGED <<bits, started, radio, call, list, chosen, overtaken, givenUp>>

\* _scanStarted = 0, WIFI_SCAN_DONE_BIT; then WIFI_SCANNING_BIT is cleared.
DoneBits ==
    /\ \/ /\ task = "announce"
          /\ started' = "no"
          /\ bits' = bits \cup {"done"}
          /\ task' = "unmark"
          /\ UNCHANGED overtaken
       \/ /\ task = "unmark"
          /\ bits' = bits \ {"scanning"}
          /\ task' = "rest"
          /\ overtaken' = (overtaken \/ call.at \in {"stamp", "clear", "mark"})
          /\ UNCHANGED started
    /\ UNCHANGED <<count, result, radio, survey, call, list, chosen, givenUp,
                   leaked>>

-----------------------------------------------------------------------------
Init ==
    /\ bits = {} /\ started = "no" /\ count = 0 /\ result = <<>>
    /\ radio = "idle" /\ survey = <<>> /\ task = "rest" /\ call = Idle
    /\ list \in Lists /\ chosen = {}
    /\ overtaken = FALSE /\ givenUp = FALSE /\ leaked = FALSE

Program == DriverStart \/ Stamp \/ Mark \/ Wait \/ Pick
Handler == DoneCount \/ DoneRecords \/ DoneBits
Next ==
    \/ \E async \in BOOLEAN : ScanNetworks(async, FALSE)
    \/ ScanNetworks(FALSE, TRUE)
    \/ Program \/ ScanComplete \/ Delete \/ Pass \/ Found \/ Handler

ScanFairness == WF_scanVars(Program) /\ WF_scanVars(Found) /\ WF_scanVars(Handler)
Spec == Init /\ [][Next]_scanVars /\ ScanFairness

-----------------------------------------------------------------------------
\* Every variable keeps its kind of value.
TypeOK ==
    /\ bits \subseteq {"scanning", "done"}
    /\ started \in {"no", "fresh", "overdue"}
    /\ count \in Nat /\ result \in Surveys \cup {<<>>}
    /\ radio \in {"idle", "busy", "posted"} /\ survey \in Surveys \cup {<<>>}
    /\ task \in {"rest", "records", "announce", "unmark"}
    /\ call.at \in CallPoints /\ call.answer \in Nat \cup {Running, Failed}
    /\ chosen = {} \/ \E s \in Surveys : \E i \in 1..Len(s) : chosen = {s[i]}

\* Unless scanComplete() gave up a scan that still went on, no result array is
\* lost, and whenever the program may read results _scanCount is the length of
\* the array that _getScanInfoByIndex() indexes, or none of it counts.
ResultsFit ==
    ~givenUp =>
        /\ ~leaked
        /\ (call.at = "pick" \/ (call.at = "idle" /\ "done" \in bits))
               => count \in {0, Len(result)}

\* run() joins the strongest network that counts whose first entry of that name
\* in the list can open it, and joins none only when there is no such network.
JoinsTheStrongest ==
    [][Pick /\ ~givenUp =>
        LET Usable == {i \in 1..count :
                \E k \in 1..Len(list) :
                    /\ list[k].ssid = result[i].ssid
                    /\ \A j \in 1..(k - 1) : list[j].ssid # list[k].ssid
                    /\ result[i].open \/ list[k].pass}
        IN  IF Usable = {} THEN chosen' = {}
            ELSE \E b \in Usable : /\ chosen' = {result[b]}
                                   /\ \A i \in Usable :
                                          result[i].rssi <= result[b].rssi]_scanVars

\* WIFI_SCANNING_BIT never blocks scanNetworks() for ever: it is cleared, unless
\* the event task handled SCAN_DONE before scanNetworks() set the bit.
Scanning == "scanning" \in bits
ScanOver == "scanning" \notin bits \/ overtaken
ScanningEnds == Scanning ~> ScanOver
=============================================================================
