------------------------------ MODULE HttpsOta -------------------------------
(***************************************************************************)
(* HttpsOTAUpdate: begin() starts a task that fetches and installs an      *)
(* image; the task tells its state by bits of an event group, set and      *)
(* cleared one after the other, which status() reads at any time.          *)
(***************************************************************************)
EXTENDS Integers, Sequences, FiniteSets

CONSTANTS MaxTasks   \* bound: calls of begin()

VARIABLES
  bits,     \* the event group: "idle", "updating", "success", "fail"; "none" when it is not there
  tasks,    \* where each task is, in order of creation
  told      \* what status() said last

otaVars == <<bits, tasks, told>>

NoGroup == {"none"}
Init == bits = NoGroup /\ tasks = <<>> /\ told = "none"

\* The first call makes the event group (without memory for it xEventGroupSetBits(NULL)
\* restarts the board, and nothing has begun); the task may not be created.
Begin ==
  /\ Len(tasks) < MaxTasks
  /\ bits' = IF bits = NoGroup THEN {"idle"} ELSE bits
  /\ tasks' \in {tasks, Append(tasks, "start")} /\ UNCHANGED told

\* The steps of task i that change the bits, and the installation between them.
Set(bit)   == bits' = (IF bits = NoGroup THEN bits ELSE bits \cup {bit})
Clear(bit) == bits' = (IF bits = NoGroup THEN bits ELSE bits \ {bit})
Step(i) ==
  /\ UNCHANGED told
  /\ LET Goto(from, to) == tasks[i] = from /\ tasks' = [tasks EXCEPT ![i] = to]
     IN \/ Goto("start", "announce") /\ Set("updating")
        \/ Goto("announce", "fetch") /\ Clear("idle")
        \/ (Goto("fetch", "success") \/ Goto("fetch", "fail")) /\ Clear("updating")
        \/ Goto("success", "installed") /\ Set("success")
        \/ Goto("fail", "failed") /\ Set("fail")
Status ==
  /\ told' = IF Cardinality(bits) = 1 /\ bits # NoGroup THEN CHOOSE b \in bits : TRUE ELSE "error"
  /\ UNCHANGED <<bits, tasks>>

TaskStep == \E i \in DOMAIN tasks : Step(i)
Next == Begin \/ TaskStep \/ Status
Spec == Init /\ [][Next]_otaVars /\ WF_otaVars(TaskStep) /\ WF_otaVars(Status)
-----------------------------------------------------------------------------
\* The event group holds its bits, or is not there.
TypeOK == bits \in SUBSET {"idle", "updating", "success", "fail"} \cup {NoGroup} /\ Len(tasks) <= MaxTasks

\* A status of success or failure is the truth about a task that has ended so.
StatusIsTrue ==
  /\ told = "success" => \E i \in DOMAIN tasks : tasks[i] = "installed"
  /\ told = "fail" => \E i \in DOMAIN tasks : tasks[i] = "failed"

\* The end of the only update is told in the end: with a second one the bits of the
\* first stay, and status() may say ERR for ever.
Started == tasks = <<"start">> /\ bits # NoGroup
TheEndIsTold == \/ Len(tasks) > 1
                \/ told = "success" /\ tasks[1] = "installed"
                \/ told = "fail" /\ tasks[1] = "failed"
EndIsTold == Started ~> TheEndIsTold
=============================================================================
