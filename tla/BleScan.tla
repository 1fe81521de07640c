------------------------------- MODULE BleScan -------------------------------
(***************************************************************************)
(* Scanning for BLE devices.  The program's task starts a scan and may     *)
(* wait for its end, stop it, or drop results; the Bluetooth task records  *)
(* a device it has not got yet, in two steps: the look-up, and the parsing *)
(* and recording.                                                          *)
(***************************************************************************)
EXTENDS Integers, FiniteSets, TLC

CONSTANTS
  Addresses,   \* addresses of the devices around
  Devices      \* bound: device objects alive at a time

VARIABLES
  free,      \* m_semaphoreScanEnd
  stopped,   \* m_stopped
  callback,  \* a device callback is set
  repeats,   \* m_wantDuplicates
  results,   \* m_vectorAdvertisedDevices: address -> device
  alive,     \* devices allocated and not deleted
  handling,  \* the result being handled by the Bluetooth task: its address, or none
  radio,     \* the stack is scanning
  ended,     \* the stack's end of a scan is still to be handled
  scanner,   \* where the program's task is in start() or clearResults(), and whether it will wait
  late       \* devices recorded after the loop that deletes them all, before the map is cleared

scanVars == <<free, stopped, callback, repeats, results, alive, handling, radio, ended, scanner, late>>

None == "none"
Recorded == {results[a] : a \in DOMAIN results}
NoResults == [a \in {} |-> None]
AtRest == [pc |-> "idle", wait |-> FALSE, keep |-> FALSE]
Init ==
  /\ free = TRUE /\ stopped = TRUE /\ callback = FALSE /\ repeats = FALSE
  /\ results = NoResults /\ alive = {} /\ handling = None /\ radio = FALSE /\ ended = FALSE
  /\ scanner = AtRest /\ late = {}
-----------------------------------------------------------------------------
(* The program's task.                                                     *)

\* Programs set them before they scan.
SetCallbacks(cb, dup) ==
  /\ scanner.pc = "idle" /\ ~radio /\ handling = None /\ callback' = cb /\ repeats' = dup
  /\ UNCHANGED <<free, stopped, results, alive, handling, radio, ended, scanner, late>>
Start(wait, continue) ==
  /\ scanner.pc = "idle" /\ scanner' = [pc |-> "take", wait |-> wait, keep |-> continue]
  /\ UNCHANGED <<free, stopped, callback, repeats, results, alive, handling, radio, ended, late>>

\* A scan in progress makes the next one wait for its end.  The results' devices are
\* deleted one by one, and then the map is cleared.
TakeAndDelete ==
  /\ scanner.pc = "take" /\ free /\ free' = FALSE
  /\ IF scanner.keep THEN scanner' = [scanner EXCEPT !.pc = "ask"] /\ UNCHANGED alive
     ELSE scanner' = [scanner EXCEPT !.pc = "clear"] /\ alive' = alive \ Recorded
  /\ UNCHANGED <<stopped, callback, repeats, results, handling, radio, ended, late>>
ClearResults ==
  /\ scanner.pc = "idle" /\ scanner' = [scanner EXCEPT !.pc = "drop"] /\ alive' = alive \ Recorded
  /\ UNCHANGED <<free, stopped, callback, repeats, results, handling, radio, ended, late>>
Clear ==
  /\ scanner.pc \in {"clear", "drop"} /\ results' = NoResults
  /\ scanner' = IF scanner.pc = "clear" THEN [scanner EXCEPT !.pc = "ask"] ELSE AtRest
  /\ UNCHANGED <<free, stopped, callback, repeats, alive, handling, radio, ended, late>>
Ask ==
  /\ scanner.pc = "ask"
  /\ \/ radio' = TRUE /\ scanner' = [scanner EXCEPT !.pc = "go"] /\ UNCHANGED free
     \/ radio' = radio /\ free' = TRUE /\ scanner' = AtRest
  /\ UNCHANGED <<stopped, callback, repeats, results, alive, handling, ended, late>>
\* Results that come between the two steps are ignored.
Go ==
  /\ scanner.pc = "go" /\ stopped' = FALSE
  /\ scanner' = (IF scanner.wait THEN [scanner EXCEPT !.pc = "wait"] ELSE AtRest)
  /\ UNCHANGED <<free, callback, repeats, results, alive, handling, radio, ended, late>>
Wait ==
  /\ scanner.pc = "wait" /\ free /\ scanner' = AtRest
  /\ UNCHANGED <<free, stopped, callback, repeats, results, alive, handling, radio, ended, late>>
Stop ==
  /\ scanner.pc = "idle" /\ stopped' = TRUE /\ free' = TRUE
  /\ radio' \in {FALSE, radio} /\ UNCHANGED ended
  /\ UNCHANGED <<callback, repeats, results, alive, handling, scanner, late>>
Erase(a) ==
  /\ scanner.pc = "idle" /\ a \in DOMAIN results /\ alive' = alive \ {results[a]}
  /\ results' = [b \in DOMAIN results \ {a} |-> results[b]]
  /\ UNCHANGED <<free, stopped, callback, repeats, handling, radio, ended, scanner, late>>
-----------------------------------------------------------------------------
(* The Bluetooth task.                                                     *)

Lookup(a) ==
  /\ radio /\ handling = None /\ ~ended
  /\ ~stopped /\ (~repeats => a \notin DOMAIN results) /\ handling' = a
  /\ UNCHANGED <<free, stopped, callback, repeats, results, alive, radio, ended, scanner, late>>
\* Without a callback a device is kept, with one it is shown and deleted.
Record ==
  /\ handling # None /\ handling' = None
  /\ IF callback \/ repeats \/ alive = Devices THEN UNCHANGED <<results, alive, late>>
     ELSE \E d \in Devices \ alive :
            /\ alive' = alive \cup {d}
            /\ late' = late \cup (IF scanner.pc \in {"clear", "drop"} THEN {d} ELSE {})
            \* insert leaves an entry that is there, and the new device is lost.
            /\ results' = IF handling \in DOMAIN results THEN results ELSE results @@ (handling :> d)
  /\ UNCHANGED <<free, stopped, callback, repeats, radio, ended, scanner>>
StackEnds == radio /\ radio' = FALSE /\ ended' = TRUE /\ UNCHANGED <<free, stopped, callback, repeats, results, alive, handling, scanner, late>>
Complete ==
  /\ ended /\ handling = None /\ ended' = FALSE /\ stopped' = TRUE /\ free' = TRUE
  /\ UNCHANGED <<callback, repeats, results, alive, handling, radio, scanner, late>>

StartSteps == TakeAndDelete \/ Clear \/ Ask \/ Go \/ Wait
Task == Record \/ Complete
Next ==
  \/ \E x, y \in BOOLEAN : SetCallbacks(x, y) \/ Start(x, y)
  \/ StartSteps \/ Stop \/ ClearResults
  \/ (\E a \in Addresses : Erase(a) \/ Lookup(a)) \/ Task \/ StackEnds
Spec == Init /\ [][Next]_scanVars /\ WF_scanVars(StartSteps) /\ WF_scanVars(Task) /\ WF_scanVars(StackEnds)
-----------------------------------------------------------------------------
\* Every variable keeps its kind of value.
TypeOK ==
  /\ {free, stopped, callback, repeats, radio, ended} \subseteq BOOLEAN
  /\ DOMAIN results \subseteq Addresses /\ late \subseteq alive /\ alive \subseteq Devices

\* Every device object is in the results, once, and every result is a live
\* object: none is lost and none is deleted twice, also when the program stops the
\* scan, erases a result or starts again between the two steps of recording one.
\* Those recorded between the deletion of all and the clearing of the map are lost,
\* and no others; only there the map holds objects that are deleted.
DevicesOwned ==
  /\ alive \ late \subseteq Recorded
  /\ scanner.pc \notin {"clear", "drop"} =>
         Recorded = alive \ late /\ Cardinality(DOMAIN results) = Cardinality(Recorded)

\* start() and clearResults() always return, also when a scan is in progress or another ends late.
StartReturns == scanner.pc # "idle" ~> scanner.pc = "idle"
=============================================================================
