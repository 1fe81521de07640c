--------------------------- MODULE Updater_proofs ---------------------------
(***************************************************************************)
(* Proofs about Updater.cpp, for partitions, sectors and images of any     *)
(* size, any sequence of calls and any fault.                              *)
(***************************************************************************)
EXTENDS Updater, FiniteSetTheorems, SequenceTheorems, TLAPS

(***************************************************************************)
(* The inductive invariant of the slots: the image that runs is complete,  *)
(* and no update writes to its partition.                                  *)
(***************************************************************************)
Fields == DOMAIN NewUpdater
SlotsInv ==
  /\ running \in Apps /\ boot \in Apps
  /\ DOMAIN flash = Partitions
  /\ DOMAIN u = Fields
  /\ u.partition # running
  /\ Complete(running)

\* A step leaves every partition alone but the one of the update.
OthersKept ==
  /\ DOMAIN flash' = DOMAIN flash
  /\ \A q \in Partitions \ {u.partition} : flash'[q] = flash[q]

LEMMA NextIsOther ==
  ASSUME running \in Apps
  PROVE  NextPartition \in Apps /\ NextPartition # running
<1>1. Apps # {running}
  BY PartitionsAssumption, FS_Singleton
<1>2. \E p \in Apps : p # running
  BY <1>1
<1> QED
  BY <1>2 DEF NextPartition

LEMMA UpdaterReset ==
  ASSUME NEW v, DOMAIN v = Fields
  PROVE  DOMAIN Reset(v) = Fields /\ Reset(v).partition = v.partition
BY DEF Reset, Fields, NewUpdater

LEMMA UpdaterAborted ==
  ASSUME DOMAIN u = Fields, NEW err
  PROVE  DOMAIN Aborted(err) = Fields /\ Aborted(err).partition = u.partition
<1>1. DOMAIN Reset(u) = Fields /\ Reset(u).partition = u.partition
  BY UpdaterReset
<1> QED
  BY <1>1 DEF Aborted, Fields, NewUpdater

LEMMA ErasesOne ==
  ASSUME DOMAIN flash = Partitions, NEW from, Erase(u.partition, from)
  PROVE  OthersKept
BY DEF Erase, OthersKept

LEMMA ProgramsOne ==
  ASSUME DOMAIN flash = Partitions, NEW from, NEW cells, Program(u.partition, from, cells)
  PROVE  OthersKept
BY DEF Program, OthersKept

\* What the steps of a call that leave the boot selection alone do.
Kept == UNCHANGED <<running, boot>> /\ OthersKept
UpdaterKept == DOMAIN u' = Fields /\ u'.partition = u.partition

LEMMA FailsKeeps ==
  ASSUME SlotsInv, NEW err, Fails(err)
  PROVE  Kept /\ UpdaterKept
<1>1. DOMAIN Aborted(err) = Fields /\ Aborted(err).partition = u.partition
  BY UpdaterAborted DEF SlotsInv
<1> QED
  BY <1>1 DEF Fails, Kept, OthersKept, UpdaterKept

LEMMA WriteBufferKeeps ==
  ASSUME SlotsInv, Stash \/ EraseSector \/ ProgramSector \/ LosePower
  PROVE  Kept /\ UpdaterKept
<1> USE DEF SlotsInv
<1>1. CASE \E err : Fails(err)
  BY <1>1, FailsKeeps
<1>2. CASE Stash
  <2>1. CASE UNCHANGED <<flash, running, boot>> /\ DOMAIN u' = Fields /\ u'.partition = u.partition
    BY <2>1 DEF Kept, OthersKept, UpdaterKept
  <2> QED
    BY <1>1, <1>2, <2>1 DEF Stash, Fields, NewUpdater
<1>3. CASE EraseSector
  BY <1>1, <1>3, ErasesOne DEF EraseSector, Kept, UpdaterKept
<1>4. CASE ProgramSector
  <2>1. CASE Program(u.partition, u.progress + Skip, SubSeq(u.buffer, Skip + 1, Len(u.buffer)))
               /\ DOMAIN u' = Fields /\ u'.partition = u.partition /\ UNCHANGED <<running, boot>>
    BY <2>1, ProgramsOne DEF Kept, UpdaterKept
  <2> QED
    BY <1>1, <1>4, <2>1 DEF ProgramSector, Fields, NewUpdater
<1>5. CASE LosePower
  BY <1>5, ProgramsOne DEF LosePower, Kept, UpdaterKept
<1> QED
  BY <1>2, <1>3, <1>4, <1>5

LEMMA CallKeeps ==
  ASSUME SlotsInv, Copy \/ Read \/ ReadTimesOut \/ StreamEnds \/ Verify \/ Enable
  PROVE  Kept /\ UpdaterKept
<1> USE DEF SlotsInv
<1>1. \A err : DOMAIN Aborted(err) = Fields /\ Aborted(err).partition = u.partition
  BY UpdaterAborted
<1>2. DOMAIN Reset(u) = Fields /\ Reset(u).partition = u.partition
  BY UpdaterReset
<1>3. CASE UNCHANGED <<flash, running, boot>> /\ DOMAIN u' = Fields /\ u'.partition = u.partition
  BY <1>3 DEF Kept, OthersKept, UpdaterKept
<1>4. CASE Copy
  BY <1>3, <1>4 DEF Copy, Fields, NewUpdater
<1>5. CASE Read
  BY <1>3, <1>5 DEF Read, Fields, NewUpdater
<1>6. CASE ReadTimesOut \/ StreamEnds
  BY <1>1, <1>3, <1>6 DEF ReadTimesOut, StreamEnds
<1>7. CASE Verify
  BY <1>1, <1>2, <1>3, <1>7 DEF Verify, Fields, NewUpdater
<1>8. CASE Enable
  <2>1. CASE Program(u.partition, 0, u.skip) /\ UNCHANGED <<running, boot, u>>
    BY <2>1, ProgramsOne DEF Kept, UpdaterKept
  <2> QED
    BY <1>1, <1>3, <1>8, <2>1 DEF Enable
<1> QED
  BY <1>4, <1>5, <1>6, <1>7, <1>8

LEMMA CallerKeeps ==
  ASSUME SlotsInv, NEW n,
         Write(n) \/ WriteStream \/ End(n) \/ ClearError \/ Abort
  PROVE  Kept /\ UpdaterKept
<1> USE DEF SlotsInv
<1>1. \A err : DOMAIN Aborted(err) = Fields /\ Aborted(err).partition = u.partition
  BY UpdaterAborted
<1>2. UNCHANGED <<flash, running, boot>>
  BY DEF Write, WriteStream, End, ClearError, Abort
<1>3. DOMAIN u' = Fields /\ u'.partition = u.partition
  BY <1>1 DEF Write, WriteStream, End, ClearError, Abort, Fields, NewUpdater
<1> QED
  BY <1>2, <1>3 DEF Kept, OthersKept, UpdaterKept

\* begin() takes a partition that does not run.
LEMMA BeginTakesOther ==
  ASSUME SlotsInv, NEW size, NEW command, NEW md5, Begin(size, command, md5)
  PROVE  UNCHANGED <<flash, running, boot>> /\ DOMAIN u' = Fields /\ u'.partition # running
<1>1. PartitionFor(command) # running
  BY NextIsOther, PartitionsAssumption DEF PartitionFor, SlotsInv
<1>2. DOMAIN Reset(u) = Fields
  BY UpdaterReset DEF SlotsInv
<1> QED
  BY <1>1, <1>2 DEF Begin, Fields, NewUpdater
-----------------------------------------------------------------------------
(***************************************************************************)
(* The boot selection, the restart, and every other step.                  *)
(***************************************************************************)
Activates ==
  /\ u.partition \in Apps /\ Complete(u.partition) /\ boot' = u.partition
  /\ UNCHANGED <<flash, running>> /\ UpdaterKept
Begins == UNCHANGED <<flash, running, boot>> /\ DOMAIN u' = Fields /\ u'.partition # running

LEMMA StepsAre ==
  ASSUME SlotsInv, [Next]_vars
  PROVE  (Kept /\ UpdaterKept) \/ Activates \/ RollBack \/ Restart \/ Begins
<1>1. CASE Activate
  <2>1. \A err : DOMAIN Aborted(err) = Fields /\ Aborted(err).partition = u.partition
    BY UpdaterAborted DEF SlotsInv
  <2>2. DOMAIN Reset(u) = Fields /\ Reset(u).partition = u.partition
    BY UpdaterReset DEF SlotsInv
  <2> QED
    BY <1>1, <2>1, <2>2 DEF Activate, Activates, Kept, OthersKept, UpdaterKept
<1>2. CASE CallStep
  BY <1>1, <1>2, WriteBufferKeeps, CallKeeps DEF CallStep
<1>3. ASSUME NEW size \in Sizes, NEW command \in Commands, NEW md5 \in Md5, Begin(size, command, md5)
      PROVE  Begins
  BY <1>3, BeginTakesOther DEF Begins
<1>4. CASE UNCHANGED vars
  BY <1>4 DEF vars, Kept, OthersKept, UpdaterKept, SlotsInv
<1> QED
  BY <1>2, <1>3, <1>4, CallerKeeps, WriteBufferKeeps DEF Next

LEMMA SlotsInvInit == Init => SlotsInv
<1> SUFFICES ASSUME Init PROVE SlotsInv
  OBVIOUS
<1>1. 0 \in Offsets /\ \A i \in 0..(ImageLen - 1) : i \in Offsets /\ i < ImageLen
  BY SizesAssumption DEF Offsets
<1>2. \A i \in 0..(ImageLen - 1) : flash[running][i] = Cell(0, i)
  BY <1>1 DEF Init, Partitions, Factory
<1>3. flash[running][0] = Cell(0, 0)
  BY <1>1, SizesAssumption DEF Init, Partitions, Factory
<1>4. flash[running][0].by = 0
  BY <1>3 DEF Cell
<1>5. Complete(running)
  BY <1>2, <1>4 DEF Complete
<1> QED
  BY <1>5, PartitionsAssumption DEF Init, SlotsInv, NewUpdater, Fields

LEMMA SlotsInvNext == SlotsInv /\ [Next]_vars => SlotsInv'
<1> SUFFICES ASSUME SlotsInv, [Next]_vars PROVE SlotsInv'
  OBVIOUS
<1> USE DEF SlotsInv
<1>1. CASE Kept /\ UpdaterKept
  <2>1. flash'[running] = flash[running]
    BY <1>1 DEF Kept, OthersKept, Partitions
  <2> QED
    BY <1>1, <2>1 DEF Kept, OthersKept, UpdaterKept, Complete
<1>2. CASE Activates
  BY <1>2 DEF Activates, UpdaterKept, Complete
<1>3. CASE RollBack
  BY <1>3, NextIsOther DEF RollBack, Complete
<1>4. CASE Restart
  BY <1>4, PartitionsAssumption DEF Restart, Complete, NewUpdater, Fields
<1>5. CASE Begins
  BY <1>5 DEF Begins, Complete
<1> QED
  BY <1>1, <1>2, <1>3, <1>4, <1>5, StepsAre

\* The running partition holds a complete image and is not the one an update writes,
\* whatever the calls and the faults (esp_ota_get_next_update_partition, begin 126-145).
THEOREM SpecSlotsInv == Spec => []SlotsInv
BY SlotsInvInit, SlotsInvNext, PTL DEF Spec
-----------------------------------------------------------------------------
(***************************************************************************)
(* Refinement.                                                             *)
(***************************************************************************)
Image == [p \in Apps |-> Held(p)]

LEMMA HeldIsKept ==
  ASSUME NEW q, flash'[q] = flash[q]
  PROVE  Held(q)' = Held(q)
BY DEF Held, Complete

LEMMA RefinesInit == Init => Promised!Init
<1> SUFFICES ASSUME Init PROVE Promised!Init
  OBVIOUS
<1>1. SlotsInv
  BY SlotsInvInit
<1>2. Held(running) # <<>>
  BY <1>1 DEF Held, SlotsInv
<1> QED
  BY <1>2 DEF Promised!Init, Init

LEMMA RefinesNext == SlotsInv /\ [Next]_vars => [Promised!Next]_(Promised!vars)
<1> SUFFICES ASSUME SlotsInv, [Next]_vars PROVE [Promised!Next]_(Promised!vars)
  OBVIOUS
<1> USE DEF SlotsInv
<1>1. CASE Kept /\ u.partition \in Apps
  <2>1. \A t \in Apps \ {u.partition} : Image'[t] = Image[t]
    BY <1>1, HeldIsKept DEF Kept, OthersKept, Partitions, Image
  <2>2. Promised!Replace(u.partition)
    BY <1>1, <2>1 DEF Promised!Replace, Kept, Image
  <2> QED
    BY <1>1, <2>2 DEF Promised!Next
<1>2. CASE Kept /\ u.partition \notin Apps
  <2>1. \A t \in Apps : Held(t)' = Held(t)
    BY <1>2, HeldIsKept DEF Kept, OthersKept, Partitions
  <2> QED
    BY <1>2, <2>1 DEF Kept, Promised!vars
<1>3. ASSUME UNCHANGED flash
      PROVE  UNCHANGED Image
  BY <1>3, HeldIsKept DEF Image
<1>4. CASE Activates \/ RollBack
  <2>1. PICK p \in Apps : boot' = p /\ Complete(p) /\ UNCHANGED <<running, flash>>
    BY <1>4, NextIsOther DEF Activates, RollBack
  <2>2. Promised!Select(p)
    BY <1>3, <2>1 DEF Promised!Select, Held, Image
  <2> QED
    BY <2>2 DEF Promised!Next
<1>5. CASE Restart
  <2>1. Promised!Restart
    BY <1>3, <1>5 DEF Promised!Restart, Restart, Held, Image
  <2> QED
    BY <2>1 DEF Promised!Next
<1>6. CASE Begins
  BY <1>3, <1>6 DEF Begins, Promised!vars, Image
<1> QED
  BY <1>1, <1>2, <1>4, <1>5, <1>6, StepsAre

\* KeepsSlots: whatever the caller does, whatever fails and whenever power is lost,
\* the running image is left alone, only a complete image is selected, and a restart
\* finds one to run.
THEOREM SpecKeepsSlots == Spec => KeepsSlots
<1>1. Init => Promised!Init
  BY RefinesInit
<1>2. SlotsInv /\ [Next]_vars => [Promised!Next]_(Promised!vars)
  BY RefinesNext
<1> QED
  BY <1>1, <1>2, SpecSlotsInv, PTL DEF Spec, KeepsSlots, Promised!Spec
-----------------------------------------------------------------------------
(***************************************************************************)
(* An error ends the update.                                               *)
(***************************************************************************)
Filling == {"copy", "stash", "erase", "program", "read"}

\* ErrorEndsUpdate is not inductive: end() makes the size what was written, and a
\* buffer is only filled and written while there is no error.
ErrorInv ==
  /\ DOMAIN u = Fields /\ DOMAIN call = DOMAIN Idle
  /\ u.error # "OK" => u.size = 0 /\ u.buffer = <<>> /\ u.progress = 0
  /\ call.at \in Filling => u.error = "OK"

LEMMA AbortedIsEmpty ==
  ASSUME DOMAIN u = Fields, NEW err
  PROVE  /\ DOMAIN Aborted(err) = Fields
         /\ Aborted(err).size = 0 /\ Aborted(err).buffer = <<>> /\ Aborted(err).progress = 0
         /\ Aborted(err).error = err
BY DEF Aborted, Reset, Fields, NewUpdater

LEMMA ResetIsEmpty ==
  ASSUME DOMAIN u = Fields
  PROVE  /\ DOMAIN Reset(u) = Fields /\ Reset(u).error = u.error
         /\ Reset(u).size = 0 /\ Reset(u).buffer = <<>> /\ Reset(u).progress = 0
BY DEF Reset, Fields, NewUpdater

LEMMA FailsEnds ==
  ASSUME ErrorInv, NEW err, Fails(err)
  PROVE  ErrorInv'
<1>1. u' = Aborted(err) /\ NotWritten
  BY DEF Fails
<1>2. DOMAIN call' = DOMAIN Idle /\ call'.at \notin Filling
  BY <1>1 DEF NotWritten, Returned, Goto, Idle, Filling, ErrorInv
<1> QED
  BY <1>1, <1>2, AbortedIsEmpty DEF ErrorInv

LEMMA ErrorInvInit == Init => ErrorInv
BY DEF Init, ErrorInv, NewUpdater, Fields, Idle, Filling

LEMMA ErrorInvNext == ErrorInv /\ [Next]_vars => ErrorInv'
<1> SUFFICES ASSUME ErrorInv, [Next]_vars PROVE ErrorInv'
  OBVIOUS
<1>1. CASE u'.error = "OK" /\ DOMAIN u' = Fields /\ DOMAIN call' = DOMAIN Idle
  BY <1>1 DEF ErrorInv
<1>2. \A err : /\ DOMAIN Aborted(err) = Fields
               /\ Aborted(err).size = 0 /\ Aborted(err).buffer = <<>>
               /\ Aborted(err).progress = 0
  BY AbortedIsEmpty DEF ErrorInv
<1>3. /\ DOMAIN Reset(u) = Fields /\ Reset(u).error = u.error
      /\ Reset(u).size = 0 /\ Reset(u).buffer = <<>> /\ Reset(u).progress = 0
  BY ResetIsEmpty DEF ErrorInv
<1>4. Idle.at \notin Filling
  BY DEF Idle, Filling
<1>5. ASSUME NEW size \in Sizes, NEW command \in Commands, NEW md5 \in Md5, Begin(size, command, md5)
      PROVE  ErrorInv'
  BY <1>3, <1>5 DEF Begin, Ready, ErrorInv, Fields, NewUpdater, Filling
<1>6. ASSUME NEW n \in 0..MaxChunk, Write(n)
      PROVE  ErrorInv'
  BY <1>2, <1>6 DEF Write, Ready, Running, ErrorInv, Fields, NewUpdater, Filling, Idle
<1>7. ASSUME NEW even \in Evens, End(even)
      PROVE  ErrorInv'
  BY <1>2, <1>7 DEF End, Ready, Running, ErrorInv, Fields, NewUpdater, Filling, Idle
<1>8. CASE WriteStream
  BY <1>2, <1>8 DEF WriteStream, Ready, Running, ErrorInv, Fields, NewUpdater, Filling, Idle
<1>9. CASE ClearError \/ Restart
  BY <1>1, <1>9 DEF ClearError, Restart, ErrorInv, Fields, NewUpdater, Idle
<1>10. CASE Abort
  BY <1>2, <1>10 DEF Abort, Ready, ErrorInv, Filling
<1>11. CASE RollBack \/ UNCHANGED vars
  BY <1>11 DEF RollBack, vars, ErrorInv
<1>12. CASE LosePower
  BY <1>1, <1>12 DEF LosePower, Goto, ErrorInv, Filling, Idle
<1>13. CASE Copy
  BY <1>1, <1>13 DEF Copy, CallIs, Returned, Goto, ErrorInv, Fields, NewUpdater, Filling, Idle
<1>14. CASE Stash
  BY <1>1, <1>14, FailsEnds
    DEF Stash, NotWritten, Returned, Goto, ErrorInv, Fields, NewUpdater, Filling, Idle
<1>15. CASE EraseSector
  BY <1>1, <1>15, FailsEnds DEF EraseSector, Goto, ErrorInv, Filling, Idle
<1>16. CASE ProgramSector
  BY <1>1, <1>16, FailsEnds
    DEF ProgramSector, Written, Returned, Goto, ErrorInv, Fields, NewUpdater, Filling, Idle
<1>17. CASE Read
  BY <1>1, <1>17 DEF Read, CallIs, Goto, ErrorInv, Fields, NewUpdater, Filling, Idle
<1>18. CASE ReadTimesOut \/ StreamEnds
  BY <1>2, <1>4, <1>18 DEF ReadTimesOut, StreamEnds, ErrorInv
<1>19. CASE Verify
  BY <1>2, <1>3, <1>4, <1>19 DEF Verify, Goto, ErrorInv, Fields, NewUpdater, Filling, Idle
<1>20. CASE Enable
  BY <1>2, <1>4, <1>20 DEF Enable, Goto, ErrorInv, Filling, Idle
<1>21. CASE Activate
  BY <1>2, <1>3, <1>4, <1>21 DEF Activate, ErrorInv
<1>22. CASE CallStep
  BY <1>13, <1>14, <1>15, <1>16, <1>17, <1>18, <1>19, <1>20, <1>21, <1>22 DEF CallStep
<1> QED
  BY <1>5, <1>6, <1>7, <1>8, <1>9, <1>10, <1>11, <1>12, <1>22 DEF Next

\* ErrorEndsUpdate: after any error the next begin() is not refused, whatever the
\* caller does.
THEOREM SpecErrorEndsUpdate == Spec => []ErrorEndsUpdate
<1>1. ErrorInv => ErrorEndsUpdate
  BY DEF ErrorInv, ErrorEndsUpdate
<1> QED
  BY <1>1, ErrorInvInit, ErrorInvNext, PTL DEF Spec
-----------------------------------------------------------------------------
(***************************************************************************)
(* The image in order, in the buffer and on the flash.                     *)
(***************************************************************************)
CellRecords == [by : Nat, place : Nat]
UpdaterRecords == [error : Errors, buffer : Seq(CellRecords), skip : Seq(CellRecords), size : Nat,
                   progress : Nat, command : {"FLASH", "SPIFFS"}, partition : Partitions,
                   md5 : BOOLEAN, sum : Seq(CellRecords)]
Places == Filling \cup {"idle", "verify", "enable", "activate", "off"}
CallRecords == [at : Places, op : {"none", "write", "stream", "end"}, left : Nat, len : Nat, n : Nat]
Typed ==
  /\ flash \in [Partitions -> [Offsets -> CellRecords]]
  /\ u \in UpdaterRecords /\ call \in CallRecords
  /\ sent \in 0..ImageLen /\ updates \in Nat

\* What a call has found out at each of its places.
InCall ==
  /\ call.at = "copy" => call.op = "write"
  /\ call.at = "idle" => call.op = "none"
  /\ call.at \in {"verify", "enable", "activate"} => call.op = "end"
  /\ call.op = "write" => /\ call.left <= call.len /\ sent + call.len <= ImageLen
                          /\ call.at # "copy" => call.n <= call.left
  /\ call.at \in Filling => u.size > 0
  /\ u.size = 0 => u.progress = 0
  /\ u.size > 0 => Len(u.sum) = u.progress
  /\ Len(u.buffer) <= SectorSize

\* Of the bytes of a write(), those that are in the buffer or behind it.
Buffered ==
  IF call.op # "write" THEN 0
  ELSE call.len - call.left + (IF call.at = "copy" THEN 0 ELSE call.n)
InOrder ==
  u.size > 0 /\ "noMemory" \notin notes =>
    /\ \A k \in 1..Len(u.sum) : u.sum[k] = Cell(updates, k - 1)
    /\ \A k \in 1..Len(u.buffer) : u.buffer[k] = Cell(updates, Len(u.sum) + k - 1)
    /\ Len(u.sum) + Len(u.buffer) = sent + Buffered

\* What has been summed is on the flash, but for the first block, which is kept aside
\* and its place erased until end() writes it.
HeaderKept ==
  /\ u.command = "SPIFFS" => u.partition = Data
  /\ call.at \in {"erase", "program"} /\ FirstOfFirmware => u.skip = Header
SumIsOnFlash ==
  u.partition \in Apps /\ u.sum # <<>> =>
    /\ Len(u.sum) \in BlockSize..PartitionSize
    /\ Len(u.skip) = BlockSize /\ \A k \in 1..BlockSize : u.skip[k] = u.sum[k]
    /\ \A k \in (BlockSize + 1)..Len(u.sum) : flash[u.partition][k - 1] = u.sum[k]
SectorIsErased ==
  call.at = "program" =>
    /\ u.progress + SectorSize <= PartitionSize
    /\ \A i \in u.progress..(u.progress + SectorSize - 1) : flash[u.partition][i] = Erased
FirstIsErased ==
  /\ u.partition \in Apps /\ u.sum # <<>>
  /\ call.at # "activate" /\ (u.size > 0 \/ call.at \in {"verify", "enable"})
  => \A i \in 0..(BlockSize - 1) : flash[u.partition][i] = Erased

\* No caller of begin() announces less than its image.
AnnouncesAll == \A size \in Sizes : size = 0 \/ size >= ImageLen

\* An end() that is checked then writes that block over a whole image only.
EndIsChecked ==
  AnnouncesAll /\ "uncheckedEnd" \notin notes =>
    /\ call.at \in Filling /\ call.op = "end" => u.md5
    /\ call.at = "verify" => u.md5 \/ u.sum = Bytes(0, ImageLen)
    /\ call.at = "enable" => u.sum = Bytes(0, ImageLen)
SizeIsEnough ==
  AnnouncesAll /\ u.size > 0 /\ call.at \notin {"enable", "activate"} => u.size >= ImageLen
MagicIsWhole == AnnouncesAll => PartialNotBootable

OnFlash == /\ HeaderKept /\ SumIsOnFlash /\ SectorIsErased /\ FirstIsErased
           /\ EndIsChecked /\ SizeIsEnough /\ MagicIsWhole
ImageInv == Typed /\ InCall /\ InOrder /\ OnFlash

LEMMA Lengths ==
  /\ SectorSize \in Nat /\ SectorSize >= BlockSize /\ PartitionSize \in Nat /\ ImageLen \in Nat
  /\ BlockSize = 2 /\ ImageLen >= BlockSize /\ ImageLen <= PartitionSize /\ PartitionSize >= SectorSize
<1>1. \A a, b \in Nat \ {0} : b % a = 0 => b >= a
  OBVIOUS
<1> QED
  BY SizesAssumption, <1>1 DEF BlockSize

\* The fields of a well-typed state.
LEMMA UpdaterFields ==
  ASSUME Typed
  PROVE  /\ u.error \in Errors /\ u.buffer \in Seq(CellRecords) /\ u.skip \in Seq(CellRecords)
         /\ u.size \in Nat /\ u.progress \in Nat /\ u.command \in {"FLASH", "SPIFFS"}
         /\ u.partition \in Partitions /\ u.md5 \in BOOLEAN /\ u.sum \in Seq(CellRecords)
         /\ call.at \in Places /\ call.op \in {"none", "write", "stream", "end"}
         /\ call.left \in Nat /\ call.len \in Nat /\ call.n \in Nat
         /\ Idle \in CallRecords /\ Idle.at = "idle" /\ Idle.op = "none"
         /\ Len(u.buffer) \in Nat /\ Len(u.sum) \in Nat
         /\ sent \in Nat /\ sent <= ImageLen /\ updates \in Nat
<1>1. u \in UpdaterRecords /\ call \in CallRecords
  BY DEF Typed
<1>2. sent \in Nat /\ sent <= ImageLen /\ updates \in Nat
  BY Lengths DEF Typed
<1>3. u.buffer \in Seq(CellRecords) /\ u.sum \in Seq(CellRecords)
  BY <1>1 DEF UpdaterRecords
<1>4. Len(u.buffer) \in Nat /\ Len(u.sum) \in Nat
  BY <1>3, LenProperties
<1> QED
  BY <1>1, <1>2, <1>3, <1>4 DEF UpdaterRecords, CallRecords, Idle, Places

\* The types of what is read from the image and of the offsets.
LEMMA BytesAre ==
  ASSUME updates \in Nat, NEW from \in Nat, NEW n \in Nat
  PROVE  /\ Bytes(from, n) \in Seq(CellRecords) /\ Len(Bytes(from, n)) = n
         /\ \A k \in 1..n : Bytes(from, n)[k] = Cell(updates, from + k - 1)
BY DEF Bytes, Cell, CellRecords

\* The update has ended, with an error or without.
Over == /\ u' \in UpdaterRecords /\ u'.size = 0 /\ u'.progress = 0 /\ u'.buffer = <<>>
        /\ u'.command = "FLASH" /\ u'.sum = u.sum /\ u'.skip = u.skip
        /\ u'.partition = u.partition /\ u'.md5 = u.md5
LEMMA ResetIs ==
  ASSUME Typed, u' = Reset(u) PROVE Over
<1>1. u \in UpdaterRecords /\ <<>> \in Seq(CellRecords)
  BY DEF Typed
<1>2. Reset(u) \in UpdaterRecords
  BY <1>1 DEF Reset, UpdaterRecords
<1>3. /\ Reset(u).size = 0 /\ Reset(u).progress = 0
      /\ Reset(u).buffer = <<>> /\ Reset(u).command = "FLASH" /\ Reset(u).sum = u.sum
      /\ Reset(u).skip = u.skip /\ Reset(u).partition = u.partition /\ Reset(u).md5 = u.md5
  BY <1>1 DEF Reset, UpdaterRecords
<1> QED
  BY <1>2, <1>3 DEF Over
LEMMA AbortedIs ==
  ASSUME Typed, NEW err \in Errors, u' = Aborted(err) PROVE Over
<1>1. u \in UpdaterRecords /\ <<>> \in Seq(CellRecords)
  BY DEF Typed
<1>2. Reset(u) \in UpdaterRecords
  BY <1>1 DEF Reset, UpdaterRecords
<1>3. /\ Reset(u).size = 0 /\ Reset(u).progress = 0
      /\ Reset(u).buffer = <<>> /\ Reset(u).command = "FLASH" /\ Reset(u).sum = u.sum
      /\ Reset(u).skip = u.skip /\ Reset(u).partition = u.partition /\ Reset(u).md5 = u.md5
  BY <1>1 DEF Reset, UpdaterRecords
<1> QED
  BY <1>2, <1>3 DEF Aborted, Over, UpdaterRecords

LEMMA OverKeeps ==
  ASSUME ImageInv, Over, UNCHANGED <<flash, updates>>, notes \subseteq notes',
         call' \in CallRecords, sent' \in 0..ImageLen,
         \/ call'.at = "idle" /\ call'.op = "none"
         \/ call.at \in Filling /\ call.op = "end" /\ call'.at = "verify" /\ call'.op = "end"
  PROVE  ImageInv'
<1> USE DEF ImageInv, OnFlash
<1>1. \/ call'.at = "idle" /\ call'.op = "none"
      \/ call.at \in Filling /\ call.op = "end" /\ call'.at = "verify" /\ call'.op = "end"
  OBVIOUS
<1>2. Typed'
  BY DEF Typed, Over
<1>3. InCall' /\ InOrder'
  <2>1. u'.size = 0 /\ u'.progress = 0 /\ Len(u'.buffer) = 0 /\ Len(u'.buffer) <= SectorSize
    BY Lengths DEF Over
  <2>2. call'.op # "write" /\ call'.at \notin Filling
    BY <1>1 DEF Filling
  <2>3. InCall'
    BY <1>1, <2>1, <2>2 DEF InCall
  <2>4. ~(u'.size > 0)
    BY <2>1
  <2>5. InOrder'
    BY <2>4 DEF InOrder
  <2> QED
    BY <2>3, <2>5
<1>4. HeaderKept' /\ SectorIsErased' /\ SizeIsEnough'
  BY <1>1 DEF HeaderKept, SectorIsErased, SizeIsEnough, Over
<1>5. SumIsOnFlash'
  BY DEF SumIsOnFlash, Over
<1>6. FirstIsErased'
  BY <1>1 DEF FirstIsErased, InCall, Over, Filling
<1>7. EndIsChecked'
  BY <1>1 DEF EndIsChecked, Over, Filling
<1>8. MagicIsWhole'
  BY DEF MagicIsWhole, PartialNotBootable, HasMagic, Complete
<1> QED
  BY <1>2, <1>3, <1>4, <1>5, <1>6, <1>7, <1>8

\* A failed _writeBuffer.
LEMMA NotWrittenIs ==
  ASSUME ImageInv, call.at \in Filling, call.op \in {"write", "stream", "end"}, NotWritten
  PROVE  /\ call' \in CallRecords /\ sent' \in 0..ImageLen
         /\ \/ call' = Idle
            \/ call.at \in Filling /\ call.op = "end" /\ call'.at = "verify" /\ call'.op = "end"
<1> USE DEF ImageInv
<1>1. call \in CallRecords /\ sent \in 0..ImageLen /\ Idle \in CallRecords
  BY UpdaterFields DEF Typed
<1>2. CASE call.op = "write"
  <2>1. call' = Idle /\ sent' \in {sent + (call.len - call.left), sent + call.len}
    BY <1>2 DEF NotWritten, Returned
  <2>2. call.left <= call.len /\ sent + call.len <= ImageLen
    BY <1>2 DEF InCall
  <2>3. sent' \in 0..ImageLen
    BY <2>1, <2>2, UpdaterFields, Lengths
  <2> QED
    BY <1>1, <2>1, <2>3
<1>3. CASE call.op = "stream"
  BY <1>1, <1>3 DEF NotWritten
<1>4. CASE call.op = "end"
  BY <1>1, <1>4 DEF NotWritten, Goto, CallRecords, Places
<1> QED
  BY <1>2, <1>3, <1>4
LEMMA FailsKeepsImage ==
  ASSUME ImageInv, NEW err \in Errors, call.at \in Filling, call.op \in {"write", "stream", "end"},
         Fails(err)
  PROVE  ImageInv'
<1>1. Over
  BY AbortedIs DEF Fails, ImageInv
<1> QED
  BY <1>1, OverKeeps, NotWrittenIs, UpdaterFields DEF Fails, ImageInv

\* A step that only moves the call.
LEMMA MovesKeep ==
  ASSUME ImageInv, UNCHANGED <<flash, u, updates>>, notes \subseteq notes',
         call.at \notin {"enable", "activate"},
         call'.at \in {"verify", "enable"} => u.size > 0,
         Typed', InCall', sent' + Buffered' = sent + Buffered,
         HeaderKept', SectorIsErased', EndIsChecked'
  PROVE  ImageInv'
<1> USE DEF ImageInv, OnFlash
<1>1. InOrder'
  BY DEF InOrder
<1>2. SumIsOnFlash'
  BY DEF SumIsOnFlash
<1>3. FirstIsErased' /\ SizeIsEnough'
  BY DEF FirstIsErased, SizeIsEnough
<1>4. MagicIsWhole'
  BY DEF MagicIsWhole, PartialNotBootable, HasMagic, Complete
<1> QED
  BY <1>1, <1>2, <1>3, <1>4

LEMMA WriteKeepsImage ==
  ASSUME ImageInv, NEW n \in 0..MaxChunk, Write(n) PROVE ImageInv'
<1> USE DEF ImageInv, OnFlash
<1>0. /\ call.at = "idle" /\ call.op = "none" /\ sent \in 0..ImageLen /\ call \in CallRecords
      /\ sent + n <= ImageLen /\ n \in Nat
      /\ UNCHANGED <<flash, sent, updates, notes>>
  BY BoundsAssumption DEF Write, Ready, InCall, Typed
<1>1. CASE u' = Aborted("SPACE") /\ UNCHANGED call
  <2>1. Over
    BY <1>1, AbortedIs DEF Errors
  <2> QED
    BY <1>0, <1>1, <2>1, OverKeeps
<1>2. CASE /\ call' = [at |-> "copy", op |-> "write", left |-> n, len |-> n, n |-> 0]
           /\ UNCHANGED u
  <2>1. Typed'
    BY <1>0, <1>2 DEF Typed, CallRecords, Places, Filling
  <2>2. InCall'
    BY <1>0, <1>2 DEF InCall, Filling, Write, Running
  <2>3. sent' + Buffered' = sent + Buffered
    BY <1>0, <1>2 DEF Buffered
  <2>4. HeaderKept' /\ SectorIsErased' /\ EndIsChecked'
    BY <1>0, <1>2 DEF HeaderKept, SectorIsErased, EndIsChecked
  <2> QED
    BY <1>0, <1>2, <2>1, <2>2, <2>3, <2>4, MovesKeep
<1> QED
  BY <1>1, <1>2 DEF Write

LEMMA WriteStreamKeepsImage ==
  ASSUME ImageInv, WriteStream PROVE ImageInv'
<1> USE DEF ImageInv, OnFlash
<1>0. /\ call.at = "idle" /\ call.op = "none" /\ sent \in 0..ImageLen /\ call \in CallRecords
      /\ u.size > 0 /\ UNCHANGED <<flash, sent, updates, notes>>
  BY DEF WriteStream, Ready, Running, InCall, Typed
<1>1. CASE u' = Aborted("MAGIC_BYTE") /\ UNCHANGED call
  <2>1. Over
    BY <1>1, AbortedIs DEF Errors
  <2> QED
    BY <1>0, <1>1, <2>1, OverKeeps
<1>2. CASE call' = [Idle EXCEPT !.at = "read", !.op = "stream"] /\ UNCHANGED u
  <2>1. /\ call' \in CallRecords /\ call'.at = "read" /\ call'.op = "stream"
    BY <1>2 DEF CallRecords, Places, Filling, Idle
  <2>2. Typed' /\ InCall'
    BY <1>0, <1>2, <2>1 DEF Typed, InCall, Filling
  <2>3. sent' + Buffered' = sent + Buffered
    BY <1>0, <1>2, <2>1 DEF Buffered
  <2>4. HeaderKept' /\ SectorIsErased' /\ EndIsChecked'
    BY <1>0, <1>2, <2>1 DEF HeaderKept, SectorIsErased, EndIsChecked
  <2> QED
    BY <1>0, <1>2, <2>1, <2>2, <2>3, <2>4, MovesKeep
<1> QED
  BY <1>1, <1>2 DEF WriteStream

\* end() without an MD5 goes unchecked, unless all that was announced is written.
LEMMA AllIsWritten ==
  ASSUME ImageInv, call.at = "idle", u.size > 0, u.progress = u.size, "noMemory" \notin notes,
         AnnouncesAll
  PROVE  u.sum = Bytes(0, ImageLen)
<1>1. Typed /\ InCall /\ InOrder /\ SizeIsEnough
  BY DEF ImageInv, OnFlash
<1>2. Buffered = 0
  BY <1>1 DEF InCall, Buffered
<1>3. /\ Len(u.sum) + Len(u.buffer) = sent + Buffered
      /\ \A k \in 1..Len(u.sum) : u.sum[k] = Cell(updates, k - 1)
  BY <1>1 DEF InOrder
<1>4. Len(u.sum) = ImageLen
  <2>1. Len(u.sum) = u.size /\ u.size >= ImageLen
    BY <1>1 DEF InCall, SizeIsEnough
  <2> QED
    BY <1>1, <1>2, <1>3, <2>1, UpdaterFields, Lengths
<1> DEFINE whole == Bytes(0, ImageLen)
<1>5. /\ whole \in Seq(CellRecords) /\ Len(whole) = ImageLen
      /\ \A k \in 1..ImageLen : whole[k] = Cell(updates, k - 1)
  <2>1. \A k \in 1..ImageLen : whole[k] = Cell(updates, 0 + k - 1)
    BY <1>1, UpdaterFields, BytesAre, Lengths
  <2>2. \A k \in 1..ImageLen : 0 + k - 1 = k - 1
    BY Lengths
  <2> QED
    BY <1>1, <2>1, <2>2, UpdaterFields, BytesAre, Lengths
<1> HIDE DEF whole
<1>6. \A k \in 1..Len(u.sum) : u.sum[k] = whole[k]
  BY <1>3, <1>4, <1>5
<1>7. u.sum \in Seq(CellRecords)
  BY <1>1, UpdaterFields
<1> QED
  BY <1>4, <1>5, <1>6, <1>7, SeqEqual DEF whole

LEMMA EndKeepsImage ==
  ASSUME ImageInv, NEW even \in Evens, End(even) PROVE ImageInv'
<1> USE DEF ImageInv, OnFlash
<1>0. /\ call.at = "idle" /\ call.op = "none" /\ sent \in 0..ImageLen /\ call \in CallRecords
      /\ u.size > 0 /\ UNCHANGED <<flash, sent, updates>> /\ notes \subseteq notes'
  BY DEF End, Ready, Running, InCall, Typed
<1>1. CASE u' = Aborted("ABORT") /\ UNCHANGED call
  <2>1. Over
    BY <1>1, AbortedIs DEF Errors
  <2> QED
    BY <1>0, <1>1, <2>1, OverKeeps
<1>2. ASSUME NEW at \in {"stash", "verify"}, call' = [Idle EXCEPT !.at = at, !.op = "end"],
             UNCHANGED u,
             "uncheckedEnd" \in notes' \/ u.md5
               \/ (at = "verify" /\ u.progress = u.size /\ "noMemory" \notin notes)
      PROVE  ImageInv'
  <2>1. /\ call' \in CallRecords /\ call'.op = "end" /\ call'.at = at
    BY <1>2 DEF CallRecords, Places, Filling, Idle
  <2>2. Typed' /\ InCall'
    BY <1>0, <1>2, <2>1 DEF Typed, InCall, Filling
  <2>3. sent' + Buffered' = sent + Buffered
    BY <1>0, <1>2, <2>1 DEF Buffered
  <2>4. HeaderKept' /\ SectorIsErased'
    BY <1>0, <1>2, <2>1 DEF HeaderKept, SectorIsErased
  <2>5. EndIsChecked'
    <3>1. AnnouncesAll => \/ "uncheckedEnd" \in notes' \/ u.md5
                          \/ at = "verify" /\ u.sum = Bytes(0, ImageLen)
      BY <1>0, <1>2, AllIsWritten
    <3>2. Bytes(0, ImageLen)' = Bytes(0, ImageLen)
      BY <1>0 DEF Bytes
    <3> QED
      BY <1>0, <1>2, <2>1, <3>1, <3>2 DEF EndIsChecked, Filling
  <2> QED
    BY <1>0, <1>2, <2>1, <2>2, <2>3, <2>4, <2>5, MovesKeep
<1>3. CASE even
  <2>1. "uncheckedEnd" \in notes' \/ u.md5
    BY <1>3 DEF End
  <2> QED
    BY <1>1, <1>2, <1>3, <2>1 DEF End
<1>4. CASE ~even
  <2>1. "uncheckedEnd" \in notes' \/ u.md5 \/ "noMemory" \notin notes
    BY <1>4 DEF End
  <2>2. (u' = Aborted("ABORT") /\ UNCHANGED call)
        \/ (/\ u.progress = u.size /\ UNCHANGED u
            /\ call' = [Idle EXCEPT !.at = "verify", !.op = "end"])
    BY <1>4 DEF End
  <2> QED
    BY <1>1, <1>2, <2>1, <2>2
<1> QED
  BY <1>3, <1>4

LEMMA NextIsApp == NextPartition \in Apps
<1>1. Cardinality({running}) = 1
  BY FS_Singleton, Zenon
<1>2. Cardinality({}) = 0
  BY FS_EmptySet, Zenon
<1>3. Apps # {running} /\ Apps # {}
  BY <1>1, <1>2, PartitionsAssumption
<1>4. \E p \in Apps : p # running
  BY <1>3
<1> QED
  BY <1>4 DEF NextPartition

\* begin() starts an empty image, on a caller's announcement that is large enough.
LEMMA BeginKeepsImage ==
  ASSUME ImageInv, NEW size \in Sizes, NEW command \in Commands, NEW md5 \in Md5,
         Begin(size, command, md5)
  PROVE  ImageInv'
<1> USE DEF ImageInv, OnFlash
<1>0. /\ call.at = "idle" /\ call.op = "none" /\ UNCHANGED <<flash, call, notes>> /\ sent' = 0
      /\ updates' \in Nat /\ call \in CallRecords
  BY UpdaterFields DEF Begin, Ready, InCall, Typed
<1> DEFINE fresh == [Reset(u) EXCEPT !.error = "OK", !.md5 = md5, !.sum = <<>>,
                       !.partition = PartitionFor(command)]
<1>1. /\ fresh \in UpdaterRecords /\ fresh.size = 0 /\ fresh.progress = 0
      /\ fresh.buffer = <<>> /\ fresh.sum = <<>> /\ fresh.command = "FLASH"
      /\ command = "SPIFFS" => fresh.partition = Data
  <2>1. u \in UpdaterRecords /\ <<>> \in Seq(CellRecords)
    BY DEF Typed
  <2>2. Reset(u) \in UpdaterRecords /\ Reset(u).size = 0 /\ Reset(u).progress = 0
        /\ Reset(u).buffer = <<>> /\ Reset(u).command = "FLASH"
    BY <2>1 DEF Reset, UpdaterRecords
  <2>3. PartitionFor(command) \in Partitions /\ (command = "SPIFFS" => PartitionFor(command) = Data)
    BY NextIsApp DEF PartitionFor, Partitions
  <2>4. md5 \in BOOLEAN /\ "OK" \in Errors
    BY ChoicesAssumption DEF Errors
  <2> QED
    BY <2>1, <2>2, <2>3, <2>4 DEF UpdaterRecords
<1> HIDE DEF fresh
<1>2. /\ u' \in UpdaterRecords /\ u'.progress = 0 /\ u'.buffer = <<>> /\ u'.sum = <<>>
      /\ u'.command = "SPIFFS" => u'.partition = Data
      /\ AnnouncesAll => u'.size = 0 \/ u'.size >= ImageLen
  <2>1. CASE size \in 1..PartitionSize /\ u' = [fresh EXCEPT !.size = size, !.command = command]
    <3>1. /\ size \in Nat /\ command \in {"FLASH", "SPIFFS"}
          /\ AnnouncesAll => size = 0 \/ size >= ImageLen
      BY <2>1, Lengths, ChoicesAssumption DEF AnnouncesAll
    <3> QED
      BY <1>1, <2>1, <3>1 DEF UpdaterRecords
  <2>2. CASE u' = [fresh EXCEPT !.error = "SIZE"] \/ u' = fresh
    BY <1>1, <2>2 DEF UpdaterRecords, Errors
  <2> QED
    BY <2>1, <2>2 DEF Begin, fresh
<1>3. /\ u'.size \in Nat /\ Len(u'.sum) = 0 /\ Len(u'.buffer) = 0 /\ sent' \in 0..ImageLen
      /\ Len(u'.buffer) <= SectorSize
  BY <1>0, <1>2, Lengths DEF UpdaterRecords
<1>4. Typed' /\ InCall'
  BY <1>0, <1>2, <1>3 DEF Typed, InCall, Filling
<1>5. InOrder'
  <2>1. Buffered' = 0
    BY <1>0 DEF Buffered
  <2> QED
    BY <1>0, <1>3, <2>1 DEF InOrder
<1>6. HeaderKept' /\ SumIsOnFlash' /\ SectorIsErased' /\ FirstIsErased'
  BY <1>0, <1>2 DEF HeaderKept, SumIsOnFlash, SectorIsErased, FirstIsErased
<1>7. EndIsChecked'
  BY <1>0 DEF EndIsChecked, Filling
<1>8. SizeIsEnough'
  BY <1>2 DEF SizeIsEnough
<1>9. MagicIsWhole'
  BY <1>0 DEF MagicIsWhole, PartialNotBootable, HasMagic, Complete
<1> QED
  BY <1>4, <1>5, <1>6, <1>7, <1>8, <1>9

LEMMA RestartKeepsImage ==
  ASSUME ImageInv, Restart PROVE ImageInv'
<1> USE DEF ImageInv, OnFlash
<1>1. /\ u' \in UpdaterRecords /\ u'.size = 0 /\ u'.progress = 0 /\ u'.buffer = <<>>
      /\ u'.sum = <<>> /\ u'.command = "FLASH" /\ call' \in CallRecords
      /\ call'.at = "idle" /\ call'.op = "none" /\ Len(u'.buffer) <= SectorSize
  <2>1. /\ NewUpdater \in UpdaterRecords /\ NewUpdater.size = 0 /\ NewUpdater.progress = 0
        /\ NewUpdater.buffer = <<>> /\ NewUpdater.sum = <<>> /\ NewUpdater.command = "FLASH"
    BY DEF NewUpdater, UpdaterRecords, Partitions, Errors
  <2>2. Len(<<>>) <= SectorSize
    BY Lengths
  <2> QED
    BY <2>1, <2>2, UpdaterFields DEF Restart
<1>2. UNCHANGED <<flash, sent, updates, notes>>
  BY DEF Restart
<1>3. Typed' /\ InCall' /\ InOrder'
  BY <1>1, <1>2 DEF Typed, InCall, InOrder, Filling
<1>4. HeaderKept' /\ SumIsOnFlash' /\ SectorIsErased' /\ FirstIsErased' /\ SizeIsEnough'
  BY <1>1 DEF HeaderKept, SumIsOnFlash, SectorIsErased, FirstIsErased, SizeIsEnough
<1>5. EndIsChecked' /\ MagicIsWhole'
  BY <1>1, <1>2 DEF EndIsChecked, Filling, MagicIsWhole, PartialNotBootable, HasMagic, Complete
<1> QED
  BY <1>3, <1>4, <1>5

LEMMA ClearErrorKeepsImage ==
  ASSUME ImageInv, ClearError PROVE ImageInv'
<1> USE DEF ImageInv, OnFlash
<1>1. /\ u' \in UpdaterRecords /\ u'.buffer = u.buffer /\ u'.skip = u.skip /\ u'.size = u.size
      /\ u'.progress = u.progress /\ u'.command = u.command /\ u'.partition = u.partition
      /\ u'.md5 = u.md5 /\ u'.sum = u.sum
      /\ UNCHANGED <<flash, call, sent, updates, notes>> /\ call.at = "idle"
  <2>1. u \in UpdaterRecords /\ u' = [u EXCEPT !.error = "OK"]
    BY DEF Typed, ClearError
  <2>2. u' \in UpdaterRecords
    BY <2>1 DEF UpdaterRecords, Errors
  <2> QED
    BY <2>1, <2>2 DEF ClearError, Ready, UpdaterRecords
<1>2. Typed' /\ InCall' /\ InOrder'
  BY <1>1 DEF Typed, InCall, InOrder, Buffered
<1>3. HeaderKept' /\ SumIsOnFlash' /\ SectorIsErased' /\ FirstIsErased' /\ SizeIsEnough'
  BY <1>1 DEF HeaderKept, SumIsOnFlash, SectorIsErased, FirstIsErased, SizeIsEnough
<1>4. EndIsChecked' /\ MagicIsWhole'
  BY <1>1 DEF EndIsChecked, Filling, MagicIsWhole, PartialNotBootable, HasMagic, Complete
<1> QED
  BY <1>2, <1>3, <1>4

LEMMA OthersKeepImage ==
  ASSUME ImageInv, Abort \/ RollBack \/ ReadTimesOut \/ StreamEnds \/ Activate PROVE ImageInv'
<1> USE DEF ImageInv, OnFlash
<1>0. /\ Idle \in CallRecords /\ Idle.at = "idle" /\ Idle.op = "none" /\ call \in CallRecords
      /\ sent \in 0..ImageLen /\ (call.at = "idle" => call.op = "none")
      /\ {"ABORT", "STREAM", "READ", "ACTIVATE"} \subseteq Errors
  BY UpdaterFields DEF Typed, InCall, Errors
<1>1. CASE Abort
  <2>1. Over
    BY <1>0, <1>1, AbortedIs DEF Abort
  <2> QED
    BY <1>0, <1>1, <2>1, OverKeeps DEF Abort, Ready
<1>2. CASE RollBack
  <2>1. UNCHANGED <<flash, u, call, sent, updates, notes>>
    BY <1>2 DEF RollBack
  <2>2. call.at = "idle"
    BY <1>2 DEF RollBack, Ready
  <2>3. Typed' /\ InCall' /\ Buffered' = Buffered
    BY <2>1 DEF Typed, InCall, Buffered
  <2>4. HeaderKept' /\ SectorIsErased' /\ EndIsChecked'
    BY <2>1, <2>2 DEF HeaderKept, SectorIsErased, EndIsChecked, Filling
  <2> QED
    BY <2>1, <2>2, <2>3, <2>4, MovesKeep
<1>3. CASE ReadTimesOut
  <2>1. Over
    BY <1>0, <1>3, AbortedIs DEF ReadTimesOut
  <2> QED
    BY <1>0, <1>3, <2>1, OverKeeps DEF ReadTimesOut
<1>4. CASE StreamEnds
  <2>1. /\ call.op = "stream" /\ call' = Idle /\ call.at = "read"
        /\ UNCHANGED <<flash, u, sent, updates, notes>>
    BY <1>4 DEF StreamEnds, CallIs
  <2>2. Typed' /\ InCall'
    BY <1>0, <2>1 DEF Typed, InCall, Filling
  <2>3. sent' + Buffered' = sent + Buffered
    BY <1>0, <2>1 DEF Buffered
  <2>4. HeaderKept' /\ SectorIsErased' /\ EndIsChecked'
    BY <1>0, <2>1 DEF HeaderKept, SectorIsErased, EndIsChecked, Filling
  <2> QED
    BY <1>0, <2>1, <2>2, <2>3, <2>4, MovesKeep
<1>5. CASE Activate
  <2>1. Over
    BY <1>0, <1>5, AbortedIs, ResetIs DEF Activate
  <2> QED
    BY <1>0, <1>5, <2>1, OverKeeps DEF Activate
<1> QED
  BY <1>1, <1>2, <1>3, <1>4, <1>5

\* After the verification the sum is the image, or the update is over.
LEMMA VerifyKeepsImage ==
  ASSUME ImageInv, Verify PROVE ImageInv'
<1> USE DEF ImageInv, OnFlash
<1>0. /\ Idle \in CallRecords /\ Idle.at = "idle" /\ Idle.op = "none" /\ call \in CallRecords
      /\ sent \in 0..ImageLen /\ call.at = "verify" /\ call.op = "end" /\ "MD5" \in Errors
      /\ UNCHANGED <<flash, running, boot, sent, updates, notes>>
  BY UpdaterFields DEF Typed, InCall, Errors, Verify
<1>1. CASE (u' = Aborted("MD5") \/ u' = Reset(u)) /\ call' = Idle
  <2>1. Over
    BY <1>0, <1>1, AbortedIs, ResetIs
  <2> QED
    BY <1>0, <1>1, <2>1, OverKeeps
<1>2. CASE ~(u.md5 /\ u.sum # Bytes(0, ImageLen))
           /\ u' = [u EXCEPT !.size = u.progress] /\ Goto("enable")
  <2>1. /\ u' \in UpdaterRecords /\ u'.buffer = u.buffer /\ u'.skip = u.skip
        /\ u'.size = u.progress
        /\ u'.progress = u.progress /\ u'.command = u.command /\ u'.partition = u.partition
        /\ u'.md5 = u.md5 /\ u'.sum = u.sum
    BY <1>2 DEF Typed, UpdaterRecords
  <2>2. call' \in CallRecords /\ call'.at = "enable" /\ call'.op = "end"
    BY <1>0, <1>2 DEF Goto, CallRecords, Places
  <2>3. u.size > 0 \/ u.progress = 0
    BY UpdaterFields DEF InCall
  <2>4. Typed' /\ InCall'
    BY <1>0, <2>1, <2>2, <2>3, UpdaterFields DEF Typed, InCall, Filling
  <2>5. InOrder'
    <3>1. u'.size > 0 => u.size > 0
      BY <2>1, <2>3, UpdaterFields
    <3>2. Buffered' = Buffered
      BY <1>0, <2>2 DEF Buffered
    <3> QED
      BY <1>0, <2>1, <3>1, <3>2 DEF InOrder
  <2>6. HeaderKept' /\ SumIsOnFlash' /\ SectorIsErased' /\ FirstIsErased' /\ SizeIsEnough'
    BY <1>0, <2>1, <2>2 DEF HeaderKept, SumIsOnFlash, SectorIsErased, FirstIsErased, SizeIsEnough
  <2>7. EndIsChecked'
    <3>1. Bytes(0, ImageLen)' = Bytes(0, ImageLen)
      BY <1>0 DEF Bytes
    <3> QED
      BY <1>0, <1>2, <2>1, <2>2, <3>1 DEF EndIsChecked, Filling
  <2>8. MagicIsWhole'
    BY <1>0 DEF MagicIsWhole, PartialNotBootable, HasMagic, Complete
  <2> QED
    BY <2>4, <2>5, <2>6, <2>7, <2>8
<1> QED
  BY <1>0, <1>1, <1>2 DEF Verify
-----------------------------------------------------------------------------
\* The next bytes of the image are put in the buffer.
Grows(from, n) == u' = [u EXCEPT !.buffer = u.buffer \o Bytes(from, n)]
LEMMA BufferGrows ==
  ASSUME Typed, NEW from \in Nat, NEW n \in Nat, Grows(from, n)
  PROVE  /\ u' \in UpdaterRecords /\ u'.skip = u.skip /\ u'.size = u.size
         /\ u'.progress = u.progress /\ u'.command = u.command /\ u'.partition = u.partition
         /\ u'.md5 = u.md5 /\ u'.sum = u.sum /\ Len(u'.buffer) = Len(u.buffer) + n
         /\ \A k \in 1..Len(u.buffer) : u'.buffer[k] = u.buffer[k]
         /\ \A k \in (Len(u.buffer) + 1)..Len(u'.buffer) :
              u'.buffer[k] = Cell(updates, from + (k - Len(u.buffer)) - 1)
<1> DEFINE new == Bytes(from, n)
           longer == u.buffer \o new
<1>1. /\ new \in Seq(CellRecords) /\ Len(new) = n
      /\ \A k \in 1..n : new[k] = Cell(updates, from + k - 1)
  BY UpdaterFields, BytesAre
<1> HIDE DEF new
<1>2. /\ longer \in Seq(CellRecords) /\ Len(longer) = Len(u.buffer) + n
      /\ \A k \in 1..(Len(u.buffer) + n) :
           longer[k] = IF k <= Len(u.buffer) THEN u.buffer[k] ELSE new[k - Len(u.buffer)]
  BY <1>1, UpdaterFields, ConcatProperties
<1>3. u' = [u EXCEPT !.buffer = longer] /\ u \in UpdaterRecords
  BY DEF Grows, new, Typed
<1> HIDE DEF longer
<1>4. /\ u' \in UpdaterRecords /\ u'.skip = u.skip /\ u'.size = u.size
      /\ u'.progress = u.progress /\ u'.command = u.command /\ u'.partition = u.partition
      /\ u'.md5 = u.md5 /\ u'.sum = u.sum /\ u'.buffer = longer
  BY <1>2, <1>3 DEF UpdaterRecords
<1>0. Len(u.buffer) \in Nat
  BY UpdaterFields
<1>5. ASSUME NEW k \in 1..Len(u.buffer) PROVE longer[k] = u.buffer[k]
  <2>1. k <= Len(u.buffer) /\ k \in 1..(Len(u.buffer) + n)
    BY <1>0
  <2> QED
    BY <1>2, <2>1
<1>6. ASSUME NEW k \in (Len(u.buffer) + 1)..Len(longer)
      PROVE  longer[k] = Cell(updates, from + (k - Len(u.buffer)) - 1)
  <2>1. k - Len(u.buffer) \in 1..n /\ ~(k <= Len(u.buffer)) /\ k \in 1..(Len(u.buffer) + n)
    BY <1>0, <1>2
  <2> QED
    BY <1>1, <1>2, <2>1
<1> QED
  BY <1>2, <1>4, <1>5, <1>6

\* They go on where the buffer ended.
Follows(from, n) ==
  /\ Typed /\ from \in Nat /\ n \in Nat /\ Grows(from, n)
  /\ from = Len(u.sum) + Len(u.buffer)
  /\ \A k \in 1..Len(u.buffer) : u.buffer[k] = Cell(updates, Len(u.sum) + k - 1)
LEMMA GrowsInOrder ==
  ASSUME NEW from, NEW n, Follows(from, n)
  PROVE  /\ \A k \in 1..Len(u'.buffer) : u'.buffer[k] = Cell(updates, Len(u.sum) + k - 1)
         /\ Len(u.sum) + Len(u'.buffer) = from + n
<1> DEFINE old == u.buffer
           new == u'.buffer
           s == Len(u.sum)
           l == Len(old)
           m == Len(new)
<1>1. /\ m = l + n
      /\ \A k \in 1..l : new[k] = old[k]
      /\ \A k \in (l + 1)..m : new[k] = Cell(updates, from + (k - l) - 1)
  BY BufferGrows DEF Follows
<1>2. s \in Nat /\ l \in Nat /\ n \in Nat
  BY UpdaterFields DEF Follows
<1>3. from = s + l /\ \A k \in 1..l : old[k] = Cell(updates, s + k - 1)
  BY DEF Follows
<1>4. SUFFICES /\ \A k \in 1..m : new[k] = Cell(updates, s + k - 1)
               /\ s + m = from + n
  OBVIOUS
<1> HIDE DEF old, new, s, l, m
<1>5. ASSUME NEW k \in 1..m PROVE new[k] = Cell(updates, s + k - 1)
  <2>1. CASE k \in 1..l
    BY <1>1, <1>3, <2>1
  <2>2. CASE k \notin 1..l
    <3>1. k \in (l + 1)..m
      BY <1>1, <1>2, <2>2
    <3>2. from + (k - l) - 1 = s + k - 1
      BY <1>1, <1>2, <1>3
    <3> QED
      BY <1>1, <3>1, <3>2
  <2> QED
    BY <2>1, <2>2
<1>6. s + m = from + n
  BY <1>1, <1>2, <1>3
<1> QED
  BY <1>5, <1>6

LEMMA GrowingKeepsImage ==
  ASSUME ImageInv, NEW from \in Nat, NEW n \in Nat, Grows(from, n),
         call.at \in {"copy", "read"}, call'.at \in {"copy", "read", "stash", "idle"},
         call'.op # "end",
         UNCHANGED <<flash, updates, notes>>, call' \in CallRecords, sent' \in 0..ImageLen, InCall',
         Len(u.sum) + Len(u.buffer) = sent + Buffered =>
           /\ from = Len(u.sum) + Len(u.buffer)
           /\ from + n = sent' + Buffered'
  PROVE  ImageInv'
<1> USE DEF ImageInv, OnFlash
<1>1. /\ u' \in UpdaterRecords /\ u'.skip = u.skip /\ u'.size = u.size
      /\ u'.progress = u.progress /\ u'.command = u.command /\ u'.partition = u.partition
      /\ u'.md5 = u.md5 /\ u'.sum = u.sum
  BY BufferGrows
<1>2. Typed'
  BY <1>1 DEF Typed
<1>3. InOrder'
  <2> SUFFICES ASSUME u.size > 0, "noMemory" \notin notes
               PROVE  /\ \A k \in 1..Len(u.sum) : u.sum[k] = Cell(updates, k - 1)
                      /\ \A k \in 1..Len(u'.buffer) : u'.buffer[k] = Cell(updates, Len(u.sum) + k - 1)
                      /\ Len(u.sum) + Len(u'.buffer) = sent' + Buffered'
    BY <1>1 DEF InOrder
  <2>1. /\ \A k \in 1..Len(u.sum) : u.sum[k] = Cell(updates, k - 1)
        /\ \A k \in 1..Len(u.buffer) : u.buffer[k] = Cell(updates, Len(u.sum) + k - 1)
        /\ from = Len(u.sum) + Len(u.buffer) /\ from + n = sent' + Buffered'
    BY DEF InOrder
  <2>2. Follows(from, n)
    BY <2>1 DEF Follows
  <2> QED
    BY <2>1, <2>2, GrowsInOrder
<1>4. HeaderKept' /\ SumIsOnFlash' /\ SectorIsErased' /\ FirstIsErased' /\ SizeIsEnough'
  BY <1>1 DEF HeaderKept, SumIsOnFlash, SectorIsErased, FirstIsErased, SizeIsEnough
<1>5. EndIsChecked'
  BY DEF EndIsChecked
<1>6. MagicIsWhole'
  BY DEF MagicIsWhole, PartialNotBootable, HasMagic, Complete
<1> QED
  BY <1>2, <1>3, <1>4, <1>5, <1>6

\* A sector's buffer has room for what is left of the sector.
LEMMA RoomIs ==
  ASSUME ImageInv PROVE Room \in Nat /\ Len(u.buffer) + Room = SectorSize
<1>1. Len(u.buffer) \in Nat /\ Len(u.buffer) <= SectorSize
  BY UpdaterFields DEF ImageInv, InCall
<1> QED
  BY <1>1, Lengths DEF Room

LEMMA CopyKeepsImage ==
  ASSUME ImageInv, Copy PROVE ImageInv'
<1> DEFINE n == IF call.left > Room THEN Room ELSE call.left
           from == sent + call.len - call.left
<1>1. /\ call.at = "copy" /\ call.op = "write" /\ UNCHANGED <<flash, updates, notes>>
      /\ Grows(from, n)
      /\ \/ call' = [call EXCEPT !.at = "stash", !.n = n] /\ UNCHANGED sent
         \/ ~(call.left > Room) /\ Returned(call.len)
  BY DEF Copy, CallIs, Grows
<1>2. /\ call.left \in Nat /\ call.len \in Nat /\ sent \in Nat /\ call.left <= call.len
      /\ sent + call.len <= ImageLen /\ call \in CallRecords /\ u.size > 0
      /\ Idle \in CallRecords /\ Idle.at = "idle" /\ Idle.op = "none"
  BY <1>1, UpdaterFields DEF ImageInv, InCall, Filling, Typed
<1>3. n \in Nat /\ n <= call.left /\ n <= Room /\ (~(call.left > Room) => n = call.left)
  BY <1>2, RoomIs
<1>4. from \in Nat
  BY <1>2
<1> HIDE DEF n, from
<1>5. /\ u'.size = u.size /\ u'.progress = u.progress /\ u'.sum = u.sum
      /\ Len(u'.buffer) = Len(u.buffer) + n
  BY <1>1, <1>3, <1>4, BufferGrows DEF ImageInv
<1>6. Len(u'.buffer) <= SectorSize
  BY <1>3, <1>5, RoomIs, UpdaterFields, Lengths DEF ImageInv
<1>7. ASSUME Len(u.sum) + Len(u.buffer) = sent + Buffered
      PROVE  from = Len(u.sum) + Len(u.buffer)
  <2>1. Buffered = call.len - call.left
    BY <1>1, <1>2 DEF Buffered
  <2> QED
    BY <1>2, <1>7, <2>1 DEF from
<1>8. CASE call' = [call EXCEPT !.at = "stash", !.n = n] /\ UNCHANGED sent
  <2>1. /\ call' \in CallRecords /\ call'.at = "stash" /\ call'.op = "write"
        /\ call'.left = call.left /\ call'.len = call.len /\ call'.n = n
    BY <1>1, <1>2, <1>3, <1>8 DEF CallRecords, Places, Filling
  <2>2. InCall'
    BY <1>2, <1>3, <1>5, <1>6, <1>8, <2>1 DEF ImageInv, InCall, Filling
  <2>3. from + n = sent' + Buffered'
    BY <1>2, <1>3, <1>8, <2>1 DEF Buffered, from
  <2>4. sent' \in 0..ImageLen
    BY <1>8 DEF ImageInv, Typed
  <2> QED
    BY <1>1, <1>3, <1>4, <1>7, <2>1, <2>2, <2>3, <2>4, GrowingKeepsImage
<1>9. CASE ~(call.left > Room) /\ Returned(call.len)
  <2>1. call' = Idle /\ sent' = sent + call.len
    BY <1>9 DEF Returned
  <2>2. InCall'
    BY <1>2, <1>5, <1>6, <2>1 DEF ImageInv, InCall, Filling
  <2>3. from + n = sent' + Buffered'
    BY <1>2, <1>3, <1>9, <2>1 DEF Buffered, from
  <2>4. sent' \in 0..ImageLen
    BY <1>2, <2>1, Lengths
  <2> QED
    BY <1>1, <1>2, <1>3, <1>4, <1>7, <2>1, <2>2, <2>3, <2>4, GrowingKeepsImage
<1> QED
  BY <1>1, <1>8, <1>9

LEMMA ReadKeepsImage ==
  ASSUME ImageInv, Read PROVE ImageInv'
<1>1. /\ call.at = "read" /\ call.op = "stream" /\ UNCHANGED <<flash, updates, notes>>
  BY DEF Read, CallIs
<1>2. PICK n \in 1..Smaller(Smaller(Room, Remaining), ImageLen - sent) :
        /\ Grows(sent, n) /\ sent' = sent + n
        /\ Goto("stash") \/ Goto("read")
  BY DEF Read, Grows
<1>3. /\ sent \in Nat /\ sent <= ImageLen /\ call \in CallRecords /\ u.size > 0
      /\ u.size \in Nat /\ u.progress \in Nat
  BY <1>1, UpdaterFields DEF ImageInv, InCall, Filling, Typed
<1>4. n \in Nat /\ n <= Room /\ sent + n <= ImageLen
  <2>1. Remaining \in Nat
    BY <1>3, Lengths DEF Remaining, Wrapped
  <2>2. Room \in Nat
    BY RoomIs
  <2> QED
    BY <1>3, <2>1, <2>2, Lengths DEF Smaller
<1>5. /\ u'.size = u.size /\ u'.progress = u.progress /\ u'.sum = u.sum
      /\ Len(u'.buffer) = Len(u.buffer) + n
  BY <1>2, <1>3, <1>4, BufferGrows DEF ImageInv
<1>6. Len(u'.buffer) <= SectorSize
  BY <1>4, <1>5, RoomIs, UpdaterFields, Lengths DEF ImageInv
<1>7. /\ call' \in CallRecords /\ call'.at \in {"stash", "read"} /\ call'.op = "stream"
  BY <1>1, <1>2, <1>3 DEF Goto, CallRecords, Places, Filling
<1>8. InCall'
  BY <1>3, <1>5, <1>6, <1>7 DEF ImageInv, InCall, Filling
<1>9. Buffered = 0 /\ Buffered' = 0
  BY <1>1, <1>7 DEF Buffered
<1>10. sent' \in 0..ImageLen
  BY <1>2, <1>3, <1>4, Lengths
<1>11. sent + Buffered = sent /\ sent + n = sent' + Buffered'
  BY <1>2, <1>3, <1>4, <1>9
<1> QED
  BY <1>1, <1>2, <1>3, <1>4, <1>7, <1>8, <1>10, <1>11, GrowingKeepsImage
-----------------------------------------------------------------------------
\* Cells that were erased hold what is programmed, the others of the partition and
\* the other partitions what they held.
LEMMA CellsAre ==
  /\ Erased \in CellRecords /\ Garbage \in CellRecords /\ Erased.place # 0
  /\ \A old, new \in CellRecords : Programmed(old, new) \in CellRecords
  /\ \A new \in CellRecords : Programmed(Erased, new) = new
<1>1. /\ Erased \in CellRecords /\ Garbage \in CellRecords /\ Erased.place # 0
      /\ Cell(Garbage.by, 0) \in CellRecords
  BY SizesAssumption, BoundsAssumption DEF Erased, Garbage, Cell, CellRecords, Nowhere
<1> QED
  BY <1>1 DEF Programmed

LEMMA ProgramIs ==
  ASSUME Typed, NEW from \in Nat, NEW cells \in Seq(CellRecords), Program(u.partition, from, cells)
  PROVE  /\ flash' \in [Partitions -> [Offsets -> CellRecords]]
         /\ \A q \in Partitions \ {u.partition} : flash'[q] = flash[q]
         /\ \A i \in Offsets : i \notin from..(from + Len(cells) - 1) =>
              flash'[u.partition][i] = flash[u.partition][i]
         /\ \A i \in Offsets : i \in from..(from + Len(cells) - 1) /\ flash[u.partition][i] = Erased =>
              flash'[u.partition][i] = cells[i - from + 1]
<1> DEFINE p == u.partition
           new == [i \in Offsets |-> IF i \in from..(from + Len(cells) - 1)
                                     THEN Programmed(flash[p][i], cells[i - from + 1])
                                     ELSE flash[p][i]]
<1>1. p \in Partitions /\ flash \in [Partitions -> [Offsets -> CellRecords]]
  BY UpdaterFields DEF Typed
<1>2. flash' = [flash EXCEPT ![p] = new]
  BY DEF Program
<1>3. Len(cells) \in Nat
  BY LenProperties
<1>4. ASSUME NEW i \in Offsets, i \in from..(from + Len(cells) - 1)
      PROVE  cells[i - from + 1] \in CellRecords
  <2>1. i - from + 1 \in 1..Len(cells)
    BY <1>3, <1>4
  <2> QED
    BY <2>1, ElementOfSeq
<1>5. new \in [Offsets -> CellRecords]
  <2>1. ASSUME NEW i \in Offsets
        PROVE  (IF i \in from..(from + Len(cells) - 1)
                THEN Programmed(flash[p][i], cells[i - from + 1])
                ELSE flash[p][i]) \in CellRecords
    <3>1. flash[p][i] \in CellRecords
      BY <1>1
    <3> QED
      BY <1>4, <3>1, CellsAre
  <2> QED
    BY <2>1
<1>6. /\ \A i \in Offsets : i \notin from..(from + Len(cells) - 1) => new[i] = flash[p][i]
      /\ \A i \in Offsets : i \in from..(from + Len(cells) - 1) /\ flash[p][i] = Erased =>
           new[i] = cells[i - from + 1]
  <2>1. ASSUME NEW i \in Offsets, i \in from..(from + Len(cells) - 1), flash[p][i] = Erased
        PROVE  new[i] = cells[i - from + 1]
    BY <1>4, <2>1, CellsAre
  <2> QED
    BY <2>1
<1> HIDE DEF new
<1> QED
  BY <1>1, <1>2, <1>5, <1>6

LEMMA SectorPlaces ==
  ASSUME NEW g \in Nat, NEW d \in Nat, NEW n \in Nat, NEW s \in Nat, d <= n, n <= s,
         g + s <= PartitionSize, NEW j \in (d + 1)..n
  PROVE  /\ g + j - 1 \in Offsets /\ g + j - 1 \in g..(g + s - 1)
         /\ g + j - 1 \in (g + d)..(g + d + (n - d) - 1) /\ g + j - 1 - (g + d) + 1 = j - d
         /\ j - d \in 1..(n - d) /\ d + (j - d) = j
BY Lengths DEF Offsets

\* A sector that is erased holds the part of the buffer that has been programmed.
Programs(n) ==
  /\ n \in Nat /\ Skip <= n /\ n <= Len(u.buffer)
  /\ Program(u.partition, u.progress + Skip, SubSeq(u.buffer, Skip + 1, n))
LEMMA SectorHolds ==
  ASSUME ImageInv, call.at = "program", NEW n, Programs(n)
  PROVE  /\ flash' \in [Partitions -> [Offsets -> CellRecords]]
         /\ \A q \in Partitions \ {u.partition} : flash'[q] = flash[q]
         /\ \A i \in Offsets : i < u.progress + Skip =>
              flash'[u.partition][i] = flash[u.partition][i]
         /\ \A j \in (Skip + 1)..n : flash'[u.partition][u.progress + j - 1] = u.buffer[j]
<1> DEFINE cells == SubSeq(u.buffer, Skip + 1, n)
           from == u.progress + Skip
           b == Len(u.buffer)
<1>1. /\ u.progress \in Nat /\ u.buffer \in Seq(CellRecords) /\ b \in Nat /\ b <= SectorSize
      /\ u.progress + SectorSize <= PartitionSize
      /\ \A i \in u.progress..(u.progress + SectorSize - 1) : flash[u.partition][i] = Erased
  BY UpdaterFields DEF ImageInv, OnFlash, InCall, SectorIsErased
<1>2. Skip \in Nat /\ from \in Nat /\ n \in Nat /\ Skip <= n /\ n <= b /\ n <= SectorSize
  BY <1>1, Lengths DEF Skip, BlockSize, Programs
<1>3. /\ cells \in Seq(CellRecords) /\ Len(cells) = n - Skip
      /\ \A k \in 1..(n - Skip) : cells[k] = u.buffer[Skip + k]
  <2>1. /\ cells \in Seq(CellRecords)
        /\ Len(cells) = IF Skip + 1 <= n THEN n - (Skip + 1) + 1 ELSE 0
        /\ \A i \in 1..(n - (Skip + 1) + 1) : cells[i] = u.buffer[Skip + 1 + i - 1]
    <3>1. ASSUME Skip + 1 <= n PROVE \A i \in (Skip + 1)..n : i \in 1..Len(u.buffer)
      BY <1>1, <1>2
    <3> QED
      BY <1>1, <1>2, <3>1, SubSeqProperties
  <2>2. Len(cells) = n - Skip /\ n - (Skip + 1) + 1 = n - Skip
    BY <1>1, <1>2, <2>1
  <2>3. ASSUME NEW k \in 1..(n - Skip) PROVE Skip + 1 + k - 1 = Skip + k
    BY <1>2
  <2> QED
    BY <2>1, <2>2, <2>3
<1>4. Typed /\ Program(u.partition, from, cells)
  BY DEF ImageInv, Programs
<1> HIDE DEF cells, from, b
<1>5. /\ flash' \in [Partitions -> [Offsets -> CellRecords]]
      /\ \A q \in Partitions \ {u.partition} : flash'[q] = flash[q]
      /\ \A i \in Offsets : i \notin from..(from + Len(cells) - 1) =>
           flash'[u.partition][i] = flash[u.partition][i]
      /\ \A i \in Offsets : i \in from..(from + Len(cells) - 1) /\ flash[u.partition][i] = Erased =>
           flash'[u.partition][i] = cells[i - from + 1]
  BY <1>2, <1>3, <1>4, ProgramIs
<1>6. ASSUME NEW i \in Offsets, i < u.progress + Skip
      PROVE  flash'[u.partition][i] = flash[u.partition][i]
  <2>1. i \notin from..(from + Len(cells) - 1)
    BY <1>1, <1>2, <1>3, <1>6, Lengths DEF from, Offsets
  <2> QED
    BY <1>5, <2>1
<1>7. ASSUME NEW j \in (Skip + 1)..n
      PROVE  flash'[u.partition][u.progress + j - 1] = u.buffer[j]
  <2> DEFINE i == u.progress + j - 1
  <2>1. /\ i \in Offsets /\ i \in u.progress..(u.progress + SectorSize - 1)
        /\ i \in from..(from + (n - Skip) - 1) /\ i - from + 1 = j - Skip
        /\ j - Skip \in 1..(n - Skip) /\ Skip + (j - Skip) = j
    <3> DEFINE g == u.progress
               d == Skip
    <3>1. /\ g \in Nat /\ d \in Nat /\ n \in Nat /\ SectorSize \in Nat /\ d <= n /\ n <= SectorSize
          /\ g + SectorSize <= PartitionSize /\ j \in (d + 1)..n
      BY <1>1, <1>2, Lengths
    <3> HIDE DEF g, d
    <3>2. /\ g + j - 1 \in Offsets /\ g + j - 1 \in g..(g + SectorSize - 1)
          /\ g + j - 1 \in (g + d)..(g + d + (n - d) - 1) /\ g + j - 1 - (g + d) + 1 = j - d
          /\ j - d \in 1..(n - d) /\ d + (j - d) = j
      BY <3>1, Lengths DEF Offsets
    <3>3. from = g + d /\ i = g + j - 1 /\ g = u.progress /\ d = Skip
      BY DEF from, g, d
    <3> HIDE DEF i
    <3> QED
      BY <3>1, <3>2, <3>3
  <2>2. flash[u.partition][i] = Erased
    BY <1>1, <2>1
  <2>3. flash'[u.partition][i] = cells[j - Skip]
    <3>1. i \in from..(from + Len(cells) - 1)
      BY <1>3, <2>1
    <3> QED
      BY <1>5, <2>1, <2>2, <3>1
  <2>4. cells[j - Skip] = u.buffer[j]
    BY <1>3, <2>1
  <2> QED
    BY <2>3, <2>4
<1> QED
  BY <1>5, <1>6, <1>7

\* No partition gets the magic byte from a step that leaves the others alone and this
\* one's first cell erased.
LEMMA NoMagic ==
  ASSUME MagicIsWhole, notes \subseteq notes',
         \A q \in Partitions \ {u.partition} : flash'[q] = flash[q],
         u.partition \in Apps => flash'[u.partition][0] = Erased
  PROVE  MagicIsWhole'
<1> SUFFICES ASSUME AnnouncesAll, "uncheckedEnd" \notin notes',
                    NEW p \in Apps, HasMagic(p)'
             PROVE  Complete(p)'
  BY DEF MagicIsWhole, PartialNotBootable
<1>1. PartialNotBootable /\ "uncheckedEnd" \notin notes
  BY DEF MagicIsWhole
<1>2. p # u.partition
  BY CellsAre DEF HasMagic
<1>3. flash'[p] = flash[p]
  BY <1>2 DEF Partitions
<1> QED
  BY <1>1, <1>3 DEF PartialNotBootable, HasMagic, Complete

LEMMA HeaderIs ==
  ASSUME Typed PROVE Header \in Seq(CellRecords) /\ Len(Header) = BlockSize
<1>1. u.buffer \in Seq(CellRecords) /\ BlockSize \in Nat
  BY UpdaterFields DEF BlockSize
<1>2. ASSUME NEW k \in 1..BlockSize
      PROVE  (IF k <= Len(u.buffer) THEN u.buffer[k] ELSE Garbage) \in CellRecords
  <2>1. CASE k <= Len(u.buffer)
    <3>1. k \in 1..Len(u.buffer)
      BY <1>1, <2>1, LenProperties
    <3> QED
      BY <1>1, <2>1, <3>1, ElementOfSeq
  <2> QED
    BY <2>1, CellsAre
<1> QED
  BY <1>1, <1>2 DEF Header

LEMMA NothingSummed ==
  ASSUME ImageInv, u.size > 0, u.progress = 0 PROVE u.sum = <<>>
<1>1. Len(u.sum) = 0 /\ u.sum \in Seq(CellRecords)
  BY UpdaterFields DEF ImageInv, InCall
<1> QED
  BY <1>1, EmptySeq

\* The first block is set aside before anything is summed.
LEMMA StashKeepsImage ==
  ASSUME ImageInv, Stash PROVE ImageInv'
<1> USE DEF ImageInv, OnFlash
<1>0. /\ call.at = "stash" /\ call.at \in Filling /\ u.size > 0 /\ call \in CallRecords
      /\ u \in UpdaterRecords /\ <<>> \in Seq(CellRecords) /\ "MAGIC_BYTE" \in Errors
  BY DEF Stash, InCall, Filling, Typed, Errors
<1>1. CASE Fails("MAGIC_BYTE")
  <2>1. call.op \in {"write", "stream", "end"}
    BY <1>1 DEF Fails, NotWritten
  <2> QED
    BY <1>0, <1>1, <2>1, FailsKeepsImage
<1>2. ASSUME FirstOfFirmware, NEW skip \in Seq(CellRecords), u' = [u EXCEPT !.skip = skip],
             UNCHANGED <<flash, updates>>, notes \subseteq notes',
             call' \in CallRecords, sent' \in 0..ImageLen,
             \/ call'.at = "idle" /\ call'.op = "none"
             \/ call.op = "end" /\ call'.at = "verify" /\ call'.op = "end"
             \/ /\ call' = [call EXCEPT !.at = "erase"] /\ skip = Header
                /\ UNCHANGED <<sent, notes>>,
             "noMemory" \in notes' \/ call'.at = "erase"
      PROVE  ImageInv'
  <2>1. /\ u' \in UpdaterRecords /\ u'.skip = skip /\ u'.size = u.size /\ u'.progress = u.progress
        /\ u'.command = u.command /\ u'.partition = u.partition /\ u'.md5 = u.md5
        /\ u'.sum = u.sum /\ u'.buffer = u.buffer
    BY <1>0, <1>2 DEF UpdaterRecords
  <2>2. u.sum = <<>> /\ u'.sum = <<>>
    BY <1>0, <1>2, <2>1, NothingSummed DEF FirstOfFirmware
  <2>3. /\ call'.at \in {"idle", "verify", "erase"}
        /\ call'.at = "idle" => call'.op = "none"
        /\ call'.at = "verify" => call'.op = "end" /\ call.op = "end"
        /\ call'.at = "erase" => /\ call'.op = call.op /\ call'.left = call.left /\ skip = Header
                                 /\ call'.len = call.len /\ call'.n = call.n
                                 /\ sent' = sent /\ notes' = notes
    BY <1>0, <1>2 DEF CallRecords
  <2>4. Typed'
    BY <1>2, <2>1 DEF Typed
  <2>5. InCall'
    BY <1>0, <2>1, <2>3 DEF InCall, Filling
  <2>6. InOrder'
    <3>1. CASE "noMemory" \in notes'
      BY <3>1 DEF InOrder
    <3>2. CASE call'.at = "erase"
      <4>1. Buffered' = Buffered
        BY <1>0, <2>3, <3>2 DEF Buffered
      <4> QED
        BY <1>2, <2>1, <2>3, <3>2, <4>1 DEF InOrder
    <3> QED
      BY <1>2, <3>1, <3>2
  <2>7. HeaderKept'
    BY <2>1, <2>3 DEF HeaderKept, Header
  <2>8. SumIsOnFlash' /\ FirstIsErased' /\ SectorIsErased'
    BY <2>2, <2>3 DEF SumIsOnFlash, FirstIsErased, SectorIsErased
  <2>9. EndIsChecked'
    BY <1>0, <1>2, <2>1, <2>3 DEF EndIsChecked, Filling
  <2>10. SizeIsEnough'
    BY <1>0, <2>1 DEF SizeIsEnough
  <2>11. MagicIsWhole'
    BY <1>2 DEF MagicIsWhole, PartialNotBootable, HasMagic, Complete
  <2> QED
    BY <2>4, <2>5, <2>6, <2>7, <2>8, <2>9, <2>10, <2>11
<1>3. CASE /\ FirstOfFirmware /\ u' = [u EXCEPT !.skip = Header] /\ Goto("erase")
           /\ UNCHANGED <<flash, running, boot, sent, updates, notes>>
  <2>1. call' = [call EXCEPT !.at = "erase"] /\ call' \in CallRecords /\ call'.at = "erase"
    BY <1>0, <1>3 DEF Goto, CallRecords, Places, Filling
  <2>2. Header \in Seq(CellRecords) /\ sent' \in 0..ImageLen
    BY <1>3, HeaderIs DEF Typed
  <2> QED
    BY <1>2, <1>3, <2>1, <2>2
<1>4. CASE /\ FirstOfFirmware /\ u' = [u EXCEPT !.skip = <<>>] /\ NotWritten
           /\ notes' = notes \cup {"noMemory"} /\ UNCHANGED <<flash, running, boot, updates>>
  <2>1. call.op \in {"write", "stream", "end"}
    BY <1>4 DEF NotWritten
  <2>2. /\ call' \in CallRecords /\ sent' \in 0..ImageLen
        /\ \/ call'.at = "idle" /\ call'.op = "none"
           \/ call.op = "end" /\ call'.at = "verify" /\ call'.op = "end"
    BY <1>0, <1>4, <2>1, NotWrittenIs, UpdaterFields
  <2> QED
    BY <1>0, <1>2, <1>4, <2>2
<1>5. CASE /\ ~FirstOfFirmware /\ Goto("erase")
           /\ UNCHANGED <<flash, running, boot, u, sent, updates, notes>>
  <2>1. /\ call' \in CallRecords /\ call'.at = "erase" /\ call'.op = call.op
        /\ call'.left = call.left /\ call'.len = call.len /\ call'.n = call.n
    BY <1>0, <1>5 DEF Goto, CallRecords, Places, Filling
  <2>2. Typed' /\ InCall'
    BY <1>0, <1>5, <2>1 DEF Typed, InCall, Filling
  <2>3. sent' + Buffered' = sent + Buffered
    BY <1>0, <1>5, <2>1 DEF Buffered
  <2>4. HeaderKept' /\ SectorIsErased' /\ EndIsChecked'
    BY <1>0, <1>5, <2>1 DEF HeaderKept, SectorIsErased, EndIsChecked, Filling, FirstOfFirmware
  <2> QED
    BY <1>0, <1>5, <2>1, <2>2, <2>3, <2>4, MovesKeep
<1> QED
  BY <1>1, <1>3, <1>4, <1>5 DEF Stash

\* A sector is erased behind what has been summed.
LEMMA EraseKeepsImage ==
  ASSUME ImageInv, EraseSector PROVE ImageInv'
<1> USE DEF ImageInv, OnFlash
<1>0. /\ call.at = "erase" /\ call.at \in Filling /\ u.size > 0 /\ call \in CallRecords
      /\ u.progress \in Nat /\ u.partition \in Partitions /\ "ERASE" \in Errors
  BY UpdaterFields DEF EraseSector, InCall, Filling, Typed, Errors
<1>1. CASE Fails("ERASE")
  <2>1. call.op \in {"write", "stream", "end"}
    BY <1>1 DEF Fails, NotWritten
  <2> QED
    BY <1>0, <1>1, <2>1, FailsKeepsImage
<1>2. CASE /\ u.progress + SectorSize <= PartitionSize
           /\ Erase(u.partition, u.progress) /\ Goto("program")
           /\ UNCHANGED <<running, boot, u, sent, updates, notes>>
  <2>1. /\ call' \in CallRecords /\ call'.at = "program" /\ call'.op = call.op
        /\ call'.left = call.left /\ call'.len = call.len /\ call'.n = call.n
    BY <1>0, <1>2 DEF Goto, CallRecords, Places, Filling
  <2>2. /\ flash' \in [Partitions -> [Offsets -> CellRecords]]
        /\ \A q \in Partitions \ {u.partition} : flash'[q] = flash[q]
        /\ \A i \in Offsets : flash'[u.partition][i] = flash[u.partition][i]
                              \/ flash'[u.partition][i] = Erased
        /\ \A i \in Offsets : i < u.progress => flash'[u.partition][i] = flash[u.partition][i]
        /\ \A i \in Offsets : i \in u.progress..(u.progress + SectorSize - 1) =>
             flash'[u.partition][i] = Erased
    <3> DEFINE p == u.partition
               new == [i \in Offsets |-> IF i \in u.progress..(u.progress + SectorSize - 1)
                                         THEN Erased ELSE flash[p][i]]
    <3>1. p \in Partitions /\ flash \in [Partitions -> [Offsets -> CellRecords]]
      BY <1>0 DEF Typed
    <3>2. flash' = [flash EXCEPT ![p] = new]
      BY <1>2 DEF Erase
    <3>3. new \in [Offsets -> CellRecords]
      BY <3>1, CellsAre
    <3>4. /\ \A i \in Offsets : new[i] = flash[p][i] \/ new[i] = Erased
          /\ \A i \in Offsets : i < u.progress => new[i] = flash[p][i]
          /\ \A i \in Offsets : i \in u.progress..(u.progress + SectorSize - 1) => new[i] = Erased
      <4>1. \A i \in Offsets : i \in Nat
        BY Lengths DEF Offsets
      <4> QED
        BY <1>0, <4>1, Lengths
    <3> HIDE DEF new
    <3> QED
      BY <3>1, <3>2, <3>3, <3>4
  <2>3. Typed' /\ InCall'
    BY <1>0, <1>2, <2>1, <2>2 DEF Typed, InCall, Filling
  <2>4. InOrder'
    <3>1. Buffered' = Buffered
      BY <1>0, <2>1 DEF Buffered
    <3> QED
      BY <1>2, <3>1 DEF InOrder
  <2>5. HeaderKept'
    BY <1>0, <1>2 DEF HeaderKept, FirstOfFirmware, Header
  <2>6. SumIsOnFlash'
    <3> SUFFICES ASSUME u.partition \in Apps, u.sum # <<>>,
                        NEW k \in (BlockSize + 1)..Len(u.sum)
                 PROVE  flash'[u.partition][k - 1] = flash[u.partition][k - 1]
      BY <1>2 DEF SumIsOnFlash
    <3>1. Len(u.sum) = u.progress /\ Len(u.sum) <= PartitionSize
      BY <1>0, Lengths DEF SumIsOnFlash, InCall
    <3>2. k - 1 \in Offsets /\ k - 1 < u.progress
      BY <1>0, <3>1, Lengths DEF Offsets
    <3> QED
      BY <2>2, <3>2
  <2>7. SectorIsErased'
    <3>1. \A i \in u.progress..(u.progress + SectorSize - 1) : i \in Offsets
      BY <1>0, <1>2, Lengths DEF Offsets
    <3> QED
      BY <1>2, <2>2, <3>1 DEF SectorIsErased
  <2>8. FirstIsErased'
    <3>1. \A i \in 0..(BlockSize - 1) : i \in Offsets
      BY Lengths DEF Offsets
    <3> QED
      BY <1>0, <1>2, <2>1, <2>2, <3>1 DEF FirstIsErased
  <2>9. EndIsChecked' /\ SizeIsEnough'
    BY <1>0, <1>2, <2>1 DEF EndIsChecked, SizeIsEnough, Filling
  <2>10. MagicIsWhole'
    <3>1. ASSUME u.partition \in Apps PROVE flash'[u.partition][0] = Erased
      <4>1. 0 \in Offsets /\ (u.progress = 0 => 0 \in u.progress..(u.progress + SectorSize - 1))
        BY Lengths DEF Offsets
      <4>2. CASE u.progress = 0
        BY <2>2, <4>1, <4>2
      <4>3. CASE u.progress # 0
        <5>1. u.sum # <<>>
          BY <1>0, <4>3 DEF InCall
        <5>2. flash[u.partition][0] = Erased
          BY <1>0, <3>1, <5>1, Lengths DEF FirstIsErased
        <5> QED
          BY <2>2, <4>1, <5>2
      <4> QED
        BY <4>2, <4>3
    <3> QED
      BY <1>2, <2>2, <3>1, NoMagic
  <2> QED
    BY <2>3, <2>4, <2>5, <2>6, <2>7, <2>8, <2>9, <2>10
<1> QED
  BY <1>1, <1>2 DEF EraseSector

\* What programming a sector leaves of the flash, whether all of the buffer got there
\* or power was lost.
LEMMA SectorKeeps ==
  ASSUME ImageInv, call.at = "program", NEW n, Programs(n)
  PROVE  /\ u.partition \in Apps =>
              /\ u.command = "FLASH"
              /\ \A i \in 0..(BlockSize - 1) : flash'[u.partition][i] = Erased
         /\ u.partition \in Apps /\ u.sum # <<>> =>
              \A k \in (BlockSize + 1)..Len(u.sum) : flash'[u.partition][k - 1] = u.sum[k]
<1> USE DEF ImageInv, OnFlash
<1>0. u.size > 0 /\ u.progress \in Nat /\ Skip \in Nat /\ Len(u.sum) = u.progress
  BY UpdaterFields DEF InCall, Filling, Skip, BlockSize
<1>1. \A i \in Offsets : i < u.progress + Skip => flash'[u.partition][i] = flash[u.partition][i]
  BY SectorHolds
<1> SUFFICES ASSUME u.partition \in Apps
             PROVE  /\ u.command = "FLASH"
                    /\ \A i \in 0..(BlockSize - 1) : flash'[u.partition][i] = Erased
                    /\ u.sum # <<>> =>
                         \A k \in (BlockSize + 1)..Len(u.sum) : flash'[u.partition][k - 1] = u.sum[k]
  OBVIOUS
<1>2. u.command = "FLASH"
  BY PartitionsAssumption, UpdaterFields DEF HeaderKept
<1>3. ASSUME NEW i \in 0..(BlockSize - 1)
      PROVE  i \in Offsets /\ i < u.progress + Skip /\ flash[u.partition][i] = Erased
  <2>1. i \in Offsets /\ i \in 0..(SectorSize - 1) /\ i < BlockSize /\ i \in Nat
    BY Lengths DEF Offsets
  <2>2. CASE u.progress = 0
    <3>1. Skip = BlockSize
      BY <1>2, <2>2 DEF Skip, FirstOfFirmware
    <3>2. flash[u.partition][i] = Erased
      BY <1>0, <2>1, <2>2, Lengths DEF SectorIsErased
    <3> QED
      BY <1>0, <2>1, <2>2, <3>1, <3>2
  <2>3. CASE u.progress # 0
    <3>1. u.sum # <<>>
      BY <1>0, <2>3
    <3>2. u.progress >= BlockSize
      BY <1>0, <3>1, Lengths DEF SumIsOnFlash
    <3>3. flash[u.partition][i] = Erased
      BY <1>0, <3>1 DEF FirstIsErased
    <3> QED
      BY <1>0, <2>1, <3>2, <3>3, Lengths
  <2> QED
    BY <2>2, <2>3
<1>4. ASSUME u.sum # <<>>, NEW k \in (BlockSize + 1)..Len(u.sum)
      PROVE  flash'[u.partition][k - 1] = u.sum[k]
  <2>1. Len(u.sum) <= PartitionSize /\ flash[u.partition][k - 1] = u.sum[k]
    BY <1>4, Lengths DEF SumIsOnFlash
  <2>2. k - 1 \in Offsets /\ k - 1 < u.progress + Skip
    BY <1>0, <2>1, Lengths DEF Offsets
  <2> QED
    BY <1>1, <2>1, <2>2
<1> QED
  BY <1>1, <1>2, <1>3, <1>4

LEMMA LosePowerKeepsImage ==
  ASSUME ImageInv, LosePower PROVE ImageInv'
<1> USE DEF ImageInv, OnFlash
<1>0. /\ call.at = "program" /\ call.at \in Filling /\ u.size > 0 /\ call \in CallRecords
      /\ UNCHANGED <<running, boot, u, sent, updates, notes>>
  BY DEF LosePower, InCall, Filling, Typed
<1>1. PICK n : Programs(n)
  <2>1. PICK n \in 1..Len(u.buffer) :
          n > Skip /\ Program(u.partition, u.progress + Skip, SubSeq(u.buffer, Skip + 1, n))
    BY DEF LosePower
  <2>2. n \in Nat /\ Skip <= n /\ n <= Len(u.buffer)
    BY <2>1, UpdaterFields DEF Skip, BlockSize
  <2> QED
    BY <2>1, <2>2 DEF Programs
<1>2. /\ call' \in CallRecords /\ call'.at = "off" /\ call'.op = call.op
      /\ call'.left = call.left /\ call'.len = call.len /\ call'.n = call.n
  BY <1>0 DEF LosePower, Goto, CallRecords, Places, Filling
<1>3. Typed' /\ InCall'
  <2>1. flash' \in [Partitions -> [Offsets -> CellRecords]]
    BY <1>0, <1>1, SectorHolds
  <2> QED
    BY <1>0, <1>2, <2>1 DEF Typed, InCall, Filling
<1>4. InOrder'
  <2>1. Buffered' = Buffered
    BY <1>0, <1>2 DEF Buffered
  <2> QED
    BY <1>0, <2>1 DEF InOrder
<1>5. HeaderKept' /\ SectorIsErased' /\ EndIsChecked' /\ SizeIsEnough'
  BY <1>0, <1>2 DEF HeaderKept, SectorIsErased, EndIsChecked, SizeIsEnough, Filling
<1>6. SumIsOnFlash' /\ FirstIsErased'
  BY <1>0, <1>1, SectorKeeps DEF SumIsOnFlash, FirstIsErased
<1>7. MagicIsWhole'
  <2>1. 0 \in 0..(BlockSize - 1)
    BY DEF BlockSize
  <2>2. \A q \in Partitions \ {u.partition} : flash'[q] = flash[q]
    BY <1>0, <1>1, SectorHolds
  <2> QED
    BY <1>0, <1>1, <2>1, <2>2, SectorKeeps, NoMagic
<1> QED
  BY <1>3, <1>4, <1>5, <1>6, <1>7

\* What has been summed and the buffer, one after the other.
LEMMA SumGrows ==
  ASSUME ImageInv, u.size > 0
  PROVE  /\ u.sum \o u.buffer \in Seq(CellRecords)
         /\ Len(u.sum \o u.buffer) = u.progress + Len(u.buffer)
         /\ \A k \in 1..u.progress : (u.sum \o u.buffer)[k] = u.sum[k]
         /\ \A k \in (u.progress + 1)..(u.progress + Len(u.buffer)) :
              (u.sum \o u.buffer)[k] = u.buffer[k - u.progress] /\ k - u.progress \in 1..Len(u.buffer)
<1> DEFINE all == u.sum \o u.buffer
           b == Len(u.buffer)
           g == u.progress
<1>1. /\ u.sum \in Seq(CellRecords) /\ u.buffer \in Seq(CellRecords) /\ b \in Nat /\ g \in Nat
      /\ Len(u.sum) = g
  BY UpdaterFields DEF ImageInv, InCall
<1>2. /\ all \in Seq(CellRecords) /\ Len(all) = Len(u.sum) + b
      /\ \A k \in 1..(Len(u.sum) + b) :
           all[k] = IF k <= Len(u.sum) THEN u.sum[k] ELSE u.buffer[k - Len(u.sum)]
  BY <1>1, ConcatProperties
<1>3. \A k \in 1..(g + b) : all[k] = IF k <= g THEN u.sum[k] ELSE u.buffer[k - g]
  BY <1>1, <1>2
<1>4. Len(all) = g + b
  BY <1>1, <1>2
<1>5. SUFFICES /\ \A k \in 1..g : all[k] = u.sum[k]
               /\ \A k \in (g + 1)..(g + b) : all[k] = u.buffer[k - g] /\ k - g \in 1..b
  BY <1>2, <1>4
<1> HIDE DEF all, b, g
<1>6. ASSUME NEW k \in 1..g PROVE all[k] = u.sum[k]
  <2>1. k \in 1..(g + b) /\ k <= g
    BY <1>1
  <2> QED
    BY <1>3, <2>1
<1>7. ASSUME NEW k \in (g + 1)..(g + b) PROVE all[k] = u.buffer[k - g] /\ k - g \in 1..b
  <2>1. k \in 1..(g + b) /\ ~(k <= g) /\ k - g \in 1..b
    BY <1>1
  <2> QED
    BY <1>3, <2>1
<1> QED
  BY <1>6, <1>7

\* Where a write that has reached the flash goes on.
LEMMA WrittenIs ==
  ASSUME ImageInv, call.at = "program", Written
  PROVE  /\ call' \in CallRecords /\ sent' \in 0..ImageLen /\ sent' + Buffered' = sent + Buffered
         /\ call'.at \in {"copy", "idle", "read", "verify"}
         /\ call'.at = "copy" => call'.op = "write"
         /\ call'.at = "idle" => call'.op = "none"
         /\ call'.at = "verify" => call'.op = "end" /\ call.op = "end"
         /\ call'.at = "read" => call'.op = "stream"
         /\ call'.op = "write" => call'.left <= call'.len /\ sent' + call'.len <= ImageLen
<1>1. /\ call \in CallRecords /\ sent \in 0..ImageLen /\ sent \in Nat
      /\ Idle \in CallRecords /\ Idle.at = "idle" /\ Idle.op = "none"
      /\ call.left \in Nat /\ call.len \in Nat /\ call.n \in Nat
      /\ call.op = "write" => /\ call.left <= call.len /\ sent + call.len <= ImageLen
                              /\ call.n <= call.left
  BY UpdaterFields DEF ImageInv, Typed, InCall
<1>2. CASE /\ call.op = "write" /\ call.n < call.left /\ UNCHANGED sent
           /\ call' = [call EXCEPT !.at = "copy", !.left = @ - call.n]
  <2>1. /\ call' \in CallRecords /\ call'.at = "copy" /\ call'.op = "write"
        /\ call'.len = call.len /\ call'.left = call.left - call.n
    <3> DEFINE rest == call.left - call.n
    <3>1. rest \in Nat /\ call' = [call EXCEPT !.at = "copy", !.left = rest]
      BY <1>1, <1>2
    <3> HIDE DEF rest
    <3> QED
      BY <1>1, <1>2, <3>1 DEF CallRecords, Places, Filling, rest
  <2>2. Buffered = call.len - call.left + call.n /\ Buffered' = call.len - (call.left - call.n) + 0
    BY <1>2, <2>1 DEF Buffered
  <2>3. sent' + Buffered' = sent + Buffered
    BY <1>1, <1>2, <2>2
  <2> QED
    BY <1>1, <1>2, <2>1, <2>3
<1>3. CASE call.op = "write" /\ call.n = call.left /\ Returned(call.len)
  <2>1. call' = Idle /\ sent' = sent + call.len
    BY <1>3 DEF Returned
  <2>2. Buffered = call.len - call.left + call.left /\ Buffered' = 0
    BY <1>1, <1>3, <2>1 DEF Buffered
  <2>3. sent' + Buffered' = sent + Buffered /\ sent' \in 0..ImageLen
    BY <1>1, <1>3, <2>1, <2>2, Lengths
  <2> QED
    BY <1>1, <2>1, <2>3
<1>4. CASE /\ UNCHANGED sent
           /\ \/ call.op = "stream" /\ Goto("read")
              \/ call.op = "end" /\ Goto("verify")
  <2>1. /\ call' \in CallRecords /\ call'.op = call.op /\ call'.op # "write"
        /\ call'.at = (IF call.op = "stream" THEN "read" ELSE "verify")
    BY <1>1, <1>4 DEF Goto, CallRecords, Places, Filling
  <2>2. Buffered = 0 /\ Buffered' = 0
    BY <1>4, <2>1 DEF Buffered
  <2> QED
    BY <1>1, <1>4, <2>1, <2>2
<1> QED
  BY <1>2, <1>3, <1>4 DEF Written

\* A sector is programmed, and what was in the buffer is summed.
LEMMA ProgramKeepsImage ==
  ASSUME ImageInv, ProgramSector PROVE ImageInv'
<1> USE DEF ImageInv, OnFlash
<1>0. /\ call.at = "program" /\ call.at \in Filling /\ u.size > 0 /\ call \in CallRecords
      /\ u.progress \in Nat /\ Len(u.buffer) \in Nat /\ u \in UpdaterRecords /\ "WRITE" \in Errors
      /\ <<>> \in Seq(CellRecords) /\ Len(u.sum) = u.progress
  BY UpdaterFields DEF ProgramSector, InCall, Filling, Typed, Errors
<1>1. CASE Fails("WRITE")
  <2>1. call.op \in {"write", "stream", "end"}
    BY <1>1 DEF Fails, NotWritten
  <2> QED
    BY <1>0, <1>1, <2>1, FailsKeepsImage
<1>2. CASE ~Fails("WRITE")
  <2> DEFINE all == u.sum \o u.buffer
             b == Len(u.buffer)
  <2>1. /\ Programs(b) /\ Written /\ UNCHANGED <<running, boot, updates, notes>>
        /\ u' = [u EXCEPT !.sum = all, !.progress = u.progress + b, !.buffer = <<>>]
    BY <1>0, <1>2, UpdaterFields DEF ProgramSector, Programs
  <2>2. /\ all \in Seq(CellRecords) /\ Len(all) = u.progress + b
        /\ \A k \in 1..u.progress : all[k] = u.sum[k]
        /\ \A k \in (u.progress + 1)..(u.progress + b) :
             all[k] = u.buffer[k - u.progress] /\ k - u.progress \in 1..b
    BY <1>0, SumGrows
  <2> HIDE DEF all
  <2>3. /\ u' \in UpdaterRecords /\ u'.skip = u.skip /\ u'.size = u.size
        /\ u'.progress = u.progress + b /\ u'.command = u.command /\ u'.partition = u.partition
        /\ u'.md5 = u.md5 /\ u'.sum = all /\ u'.buffer = <<>>
    <3> DEFINE g == u.progress + b
    <3>1. g \in Nat /\ u' = [u EXCEPT !.sum = all, !.progress = g, !.buffer = <<>>]
      BY <1>0, <2>1
    <3> HIDE DEF g
    <3>2. /\ u' \in UpdaterRecords /\ u'.skip = u.skip /\ u'.size = u.size
          /\ u'.progress = g /\ u'.command = u.command /\ u'.partition = u.partition
          /\ u'.md5 = u.md5 /\ u'.sum = all /\ u'.buffer = <<>>
      BY <1>0, <2>2, <3>1 DEF UpdaterRecords
    <3> QED
      BY <3>2 DEF g
  <2>4. /\ call' \in CallRecords /\ sent' \in 0..ImageLen /\ sent' + Buffered' = sent + Buffered
        /\ call'.at \in {"copy", "idle", "read", "verify"}
        /\ call'.at = "copy" => call'.op = "write"
        /\ call'.at = "idle" => call'.op = "none"
        /\ call'.at = "verify" => call'.op = "end" /\ call.op = "end"
        /\ call'.at = "read" => call'.op = "stream"
        /\ call'.op = "write" => call'.left <= call'.len /\ sent' + call'.len <= ImageLen
    BY <1>0, <2>1, WrittenIs
  <2>5. /\ flash' \in [Partitions -> [Offsets -> CellRecords]]
        /\ \A q \in Partitions \ {u.partition} : flash'[q] = flash[q]
        /\ \A j \in (Skip + 1)..b : flash'[u.partition][u.progress + j - 1] = u.buffer[j]
    BY <1>0, <2>1, SectorHolds
  <2>6. Typed' /\ InCall'
    <3>1. Typed'
      BY <2>1, <2>3, <2>4, <2>5, UpdaterFields DEF Typed
    <3>2. Len(u'.buffer) <= SectorSize
      BY <2>3, Lengths
    <3>3. Len(u'.sum) = u'.progress
      BY <2>2, <2>3
    <3> QED
      BY <1>0, <2>3, <2>4, <3>1, <3>2, <3>3 DEF InCall, Filling
  <2>7. InOrder'
    <3> SUFFICES ASSUME "noMemory" \notin notes
                 PROVE  /\ \A k \in 1..Len(all) : all[k] = Cell(updates, k - 1)
                        /\ Len(all) + 0 = sent' + Buffered'
      BY <2>1, <2>3 DEF InOrder
    <3>1. /\ \A k \in 1..u.progress : u.sum[k] = Cell(updates, k - 1)
          /\ \A k \in 1..b : u.buffer[k] = Cell(updates, u.progress + k - 1)
          /\ u.progress + b = sent + Buffered
      BY <1>0 DEF InOrder
    <3>2. ASSUME NEW k \in 1..(u.progress + b) PROVE all[k] = Cell(updates, k - 1)
      <4>1. CASE k \in 1..u.progress
        BY <2>2, <3>1, <4>1
      <4>2. CASE k \notin 1..u.progress
        <5>1. k \in (u.progress + 1)..(u.progress + b) /\ u.progress + (k - u.progress) - 1 = k - 1
          BY <1>0, <4>2
        <5> QED
          BY <2>2, <3>1, <5>1
      <4> QED
        BY <4>1, <4>2
    <3>3. Len(all) + 0 = sent' + Buffered'
      BY <1>0, <2>2, <2>4, <3>1
    <3> QED
      BY <2>2, <3>2, <3>3
  <2>8. HeaderKept' /\ SectorIsErased'
    BY <2>3, <2>4 DEF HeaderKept, SectorIsErased
  <2>9. /\ u.partition \in Apps =>
             /\ u.command = "FLASH"
             /\ \A i \in 0..(BlockSize - 1) : flash'[u.partition][i] = Erased
        /\ u.partition \in Apps /\ u.sum # <<>> =>
             \A k \in (BlockSize + 1)..Len(u.sum) : flash'[u.partition][k - 1] = u.sum[k]
    BY <1>0, <2>1, SectorKeeps
  <2>10. FirstIsErased'
    BY <2>3, <2>9 DEF FirstIsErased
  <2>11. EndIsChecked' /\ SizeIsEnough'
    BY <1>0, <2>1, <2>3, <2>4 DEF EndIsChecked, SizeIsEnough, Filling
  <2>12. MagicIsWhole'
    <3>1. 0 \in 0..(BlockSize - 1)
      BY DEF BlockSize
    <3> QED
      BY <2>1, <2>5, <2>9, <3>1, NoMagic
  <2>13. SumIsOnFlash'
    <3> SUFFICES ASSUME u.partition \in Apps, all # <<>>
                 PROVE  /\ Len(all) \in BlockSize..PartitionSize
                        /\ Len(u.skip) = BlockSize /\ \A k \in 1..BlockSize : u.skip[k] = all[k]
                        /\ \A k \in (BlockSize + 1)..Len(all) : flash'[u.partition][k - 1] = all[k]
      BY <2>3 DEF SumIsOnFlash
    <3>1. /\ u.progress + SectorSize <= PartitionSize /\ b <= SectorSize /\ Skip \in Nat
          /\ Skip <= b /\ u.skip \in Seq(CellRecords)
      BY <1>0, <2>1, UpdaterFields DEF SectorIsErased, InCall, Programs, Skip, BlockSize
    <3>2. CASE u.progress = 0
      <4>1. Skip = BlockSize /\ u.skip = Header
        BY <1>0, <2>9, <3>2 DEF Skip, FirstOfFirmware, HeaderKept
      <4>2. /\ Len(all) = b /\ b >= BlockSize
            /\ \A k \in 1..b : all[k] = u.buffer[k]
        <5>1. \A k \in 1..b : k \in (u.progress + 1)..(u.progress + b) /\ k - u.progress = k
          BY <1>0, <3>2
        <5> QED
          BY <1>0, <2>2, <3>1, <3>2, <4>1, <5>1
      <4>3. Len(u.skip) = BlockSize
        BY <4>1, HeaderIs
      <4>4. ASSUME NEW k \in 1..BlockSize PROVE u.skip[k] = all[k]
        <5>1. k \in 1..b /\ k <= b
          BY <1>0, <4>2, Lengths
        <5> QED
          BY <4>1, <4>2, <5>1 DEF Header
      <4>5. ASSUME NEW k \in (BlockSize + 1)..Len(all) PROVE flash'[u.partition][k - 1] = all[k]
        <5>1. /\ k \in (Skip + 1)..b /\ k \in 1..b /\ u.progress + k - 1 = k - 1
          BY <1>0, <3>2, <4>1, <4>2, Lengths
        <5> QED
          BY <2>5, <4>2, <5>1
      <4>6. Len(all) \in BlockSize..PartitionSize
        BY <1>0, <3>1, <3>2, <4>2, Lengths
      <4> QED
        BY <4>3, <4>4, <4>5, <4>6
    <3>3. CASE u.progress # 0
      <4>1. Skip = 0
        BY <3>3 DEF Skip, FirstOfFirmware
      <4>2. u.sum # <<>>
        BY <1>0, <3>3
      <4>3. /\ u.progress >= BlockSize /\ Len(u.skip) = BlockSize
            /\ \A k \in 1..BlockSize : u.skip[k] = u.sum[k]
        BY <1>0, <4>2, Lengths DEF SumIsOnFlash
      <4>4. ASSUME NEW k \in 1..BlockSize PROVE u.skip[k] = all[k]
        <5>1. k \in 1..u.progress
          BY <1>0, <4>3, Lengths
        <5> QED
          BY <2>2, <4>3, <5>1
      <4>5. ASSUME NEW k \in (BlockSize + 1)..Len(all) PROVE flash'[u.partition][k - 1] = all[k]
        <5>1. CASE k \in 1..u.progress
          <6>1. k \in (BlockSize + 1)..Len(u.sum)
            BY <1>0, <5>1, Lengths
          <6> QED
            BY <2>2, <2>9, <4>2, <5>1, <6>1
        <5>2. CASE k \notin 1..u.progress
          <6>1. /\ k \in (u.progress + 1)..(u.progress + b)
                /\ u.progress + (k - u.progress) - 1 = k - 1
            BY <1>0, <2>2, <5>2, Lengths
          <6>2. k - u.progress \in (Skip + 1)..b
            BY <1>0, <4>1, <6>1, SMTT(20)
          <6> QED
            BY <2>2, <2>5, <6>1, <6>2
        <5> QED
          BY <5>1, <5>2
      <4>6. Len(all) \in BlockSize..PartitionSize
        <5>1. Len(all) = u.progress + b /\ u.progress \in Nat /\ b \in Nat
          BY <1>0, <2>2
        <5> QED
          BY <3>1, <4>3, <5>1, Lengths
      <4> QED
        BY <4>3, <4>4, <4>5, <4>6
    <3> QED
      BY <3>2, <3>3
  <2> QED
    BY <2>6, <2>7, <2>8, <2>10, <2>11, <2>12, <2>13
<1> QED
  BY <1>1, <1>2

\* end() writes the block held back: over a whole image, when it is checked.
LEMMA EnableKeepsImage ==
  ASSUME ImageInv, Enable PROVE ImageInv'
<1> USE DEF ImageInv, OnFlash
<1>0. /\ call.at = "enable" /\ call.op = "end" /\ call \in CallRecords /\ "READ" \in Errors
      /\ UNCHANGED <<running, boot, sent, updates, notes>> /\ sent' \in 0..ImageLen
      /\ Idle \in CallRecords /\ Idle.at = "idle" /\ Idle.op = "none"
  BY UpdaterFields DEF Enable, InCall, Typed, Errors
<1>1. CASE u' = Aborted("READ") /\ call' = Idle /\ UNCHANGED flash
  <2>1. Over
    BY <1>0, <1>1, AbortedIs
  <2> QED
    BY <1>0, <1>1, <2>1, OverKeeps
<1>2. CASE Program(u.partition, 0, u.skip) /\ Goto("activate") /\ UNCHANGED u
  <2>1. /\ call' \in CallRecords /\ call'.at = "activate" /\ call'.op = "end"
    BY <1>0, <1>2 DEF Goto, CallRecords, Places
  <2> DEFINE l == Len(u.skip)
  <2>2. l \in Nat /\ u.skip \in Seq(CellRecords)
    BY UpdaterFields
  <2>3. /\ flash' \in [Partitions -> [Offsets -> CellRecords]]
        /\ \A q \in Partitions \ {u.partition} : flash'[q] = flash[q]
        /\ \A i \in Offsets : i \notin 0..(l - 1) => flash'[u.partition][i] = flash[u.partition][i]
        /\ \A i \in Offsets : i \in 0..(l - 1) /\ flash[u.partition][i] = Erased =>
             flash'[u.partition][i] = u.skip[i + 1]
    <3>1. \A i \in Offsets : i - 0 + 1 = i + 1
      BY Lengths DEF Offsets
    <3>2. 0 + l - 1 = l - 1
      BY <2>2
    <3>3. /\ flash' \in [Partitions -> [Offsets -> CellRecords]]
          /\ \A q \in Partitions \ {u.partition} : flash'[q] = flash[q]
          /\ \A i \in Offsets : i \notin 0..(0 + l - 1) =>
               flash'[u.partition][i] = flash[u.partition][i]
          /\ \A i \in Offsets : i \in 0..(0 + l - 1) /\ flash[u.partition][i] = Erased =>
               flash'[u.partition][i] = u.skip[i - 0 + 1]
      BY <1>2, <2>2, ProgramIs
    <3> QED
      BY <3>1, <3>2, <3>3
  <2>4. Typed' /\ InCall'
    BY <1>0, <1>2, <2>1, <2>3 DEF Typed, InCall, Filling
  <2>5. InOrder'
    <3>1. Buffered' = Buffered
      BY <1>0, <2>1 DEF Buffered
    <3> QED
      BY <1>0, <1>2, <3>1 DEF InOrder
  <2>6. HeaderKept' /\ SectorIsErased' /\ FirstIsErased' /\ EndIsChecked' /\ SizeIsEnough'
    BY <1>2, <2>1 DEF HeaderKept, SectorIsErased, FirstIsErased, EndIsChecked, SizeIsEnough, Filling
  <2>7. ASSUME u.partition \in Apps, u.sum # <<>>
        PROVE  /\ Len(u.sum) \in BlockSize..PartitionSize /\ l = BlockSize
               /\ \A k \in 1..Len(u.sum) : flash'[u.partition][k - 1] = u.sum[k]
    <3>1. /\ Len(u.sum) \in BlockSize..PartitionSize /\ l = BlockSize
          /\ \A k \in 1..BlockSize : u.skip[k] = u.sum[k]
          /\ \A k \in (BlockSize + 1)..Len(u.sum) : flash[u.partition][k - 1] = u.sum[k]
          /\ \A i \in 0..(BlockSize - 1) : flash[u.partition][i] = Erased
      BY <1>0, <2>7 DEF SumIsOnFlash, FirstIsErased
    <3> DEFINE s == Len(u.sum)
    <3> HIDE DEF l, s
    <3>2. ASSUME NEW k \in 1..s PROVE flash'[u.partition][k - 1] = u.sum[k]
      <4>1. s \in Nat /\ s <= PartitionSize
        BY <3>1, Lengths DEF s
      <4>2. k - 1 \in Offsets /\ k - 1 + 1 = k
        BY <4>1, Lengths DEF Offsets
      <4>3. CASE k \in 1..BlockSize
        <5>1. k - 1 \in 0..(l - 1) /\ k - 1 \in 0..(BlockSize - 1)
          BY <3>1, <4>3, Lengths
        <5> QED
          BY <2>3, <3>1, <4>2, <4>3, <5>1
      <4>4. CASE k \notin 1..BlockSize
        <5>1. k \in (BlockSize + 1)..s /\ k - 1 \notin 0..(l - 1)
          BY <3>1, <4>1, <4>4, Lengths
        <5> QED
          BY <2>3, <3>1, <4>2, <5>1 DEF s
      <4> QED
        BY <4>3, <4>4
    <3> QED
      BY <3>1, <3>2 DEF s
  <2>8. SumIsOnFlash'
    <3> SUFFICES ASSUME u.partition \in Apps, u.sum # <<>>
                 PROVE  \A k \in (BlockSize + 1)..Len(u.sum) : flash'[u.partition][k - 1] = u.sum[k]
      BY <1>2 DEF SumIsOnFlash
    <3>1. \A k \in (BlockSize + 1)..Len(u.sum) : k \in 1..Len(u.sum)
      BY Lengths
    <3> QED
      BY <2>7, <3>1
  <2>9. MagicIsWhole'
    <3> SUFFICES ASSUME AnnouncesAll, "uncheckedEnd" \notin notes, NEW p \in Apps, HasMagic(p)'
                 PROVE  Complete(p)'
      BY <1>0 DEF MagicIsWhole, PartialNotBootable
    <3>1. CASE p # u.partition
      <4>1. flash'[p] = flash[p]
        BY <2>3, <3>1 DEF Partitions
      <4> QED
        BY <4>1 DEF MagicIsWhole, PartialNotBootable, HasMagic, Complete
    <3>2. CASE p = u.partition
      <4>1. u.sum = Bytes(0, ImageLen)
        BY <1>0 DEF EndIsChecked
      <4>2. /\ Len(u.sum) = ImageLen
            /\ \A k \in 1..ImageLen : u.sum[k] = Cell(updates, 0 + k - 1)
        BY <4>1, BytesAre, UpdaterFields, Lengths
      <4>3. u.sum # <<>>
        BY <4>2, Lengths
      <4>4. ASSUME NEW i \in 0..(ImageLen - 1) PROVE flash'[p][i] = Cell(updates, i)
        <5>1. i + 1 \in 1..ImageLen /\ i + 1 - 1 = i /\ 0 + (i + 1) - 1 = i
          BY Lengths
        <5> QED
          BY <2>7, <3>2, <4>2, <4>3, <5>1
      <4>5. flash'[p][0].by = updates
        <5>1. 0 \in 0..(ImageLen - 1)
          BY Lengths
        <5>2. flash'[p][0] = Cell(updates, 0)
          BY <4>4, <5>1
        <5> QED
          BY <5>2 DEF Cell
      <4> QED
        BY <4>4, <4>5 DEF Complete
    <3> QED
      BY <3>1, <3>2
  <2> QED
    BY <2>4, <2>5, <2>6, <2>8, <2>9
<1> QED
  BY <1>1, <1>2 DEF Enable
-----------------------------------------------------------------------------
LEMMA ImageInit == Init => ImageInv
<1> SUFFICES ASSUME Init PROVE ImageInv
  OBVIOUS
<1>1. /\ u \in UpdaterRecords /\ u.size = 0 /\ u.progress = 0 /\ u.buffer = <<>>
      /\ u.sum = <<>> /\ u.command = "FLASH" /\ Len(u.buffer) <= SectorSize
  <2>1. /\ NewUpdater \in UpdaterRecords /\ NewUpdater.size = 0 /\ NewUpdater.progress = 0
        /\ NewUpdater.buffer = <<>> /\ NewUpdater.sum = <<>> /\ NewUpdater.command = "FLASH"
    BY DEF NewUpdater, UpdaterRecords, Partitions, Errors
  <2>2. Len(<<>>) <= SectorSize
    BY Lengths
  <2> QED
    BY <2>1, <2>2 DEF Init
<1>2. call = Idle /\ call \in CallRecords /\ call.at = "idle" /\ call.op = "none"
  BY DEF Init, Idle, CallRecords, Places
<1>3. PICK full \in {{running}, Apps} :
        flash = [p \in Partitions |-> [i \in Offsets |-> IF p \in full THEN Factory(i) ELSE Erased]]
  BY DEF Init
<1>4. \A i \in Offsets : Factory(i) \in CellRecords /\ (i < ImageLen => Factory(i) = Cell(0, i))
  BY CellsAre, Lengths DEF Factory, Offsets, Cell, CellRecords
<1>5. Typed
  <2>1. sent \in 0..ImageLen /\ updates \in Nat
    BY Lengths DEF Init
  <2> QED
    BY <1>1, <1>2, <1>3, <1>4, <2>1, CellsAre DEF Typed
<1>6. InCall /\ InOrder /\ HeaderKept /\ SumIsOnFlash /\ SectorIsErased /\ FirstIsErased
      /\ EndIsChecked /\ SizeIsEnough
  BY <1>1, <1>2 DEF InCall, InOrder, HeaderKept, SumIsOnFlash, SectorIsErased, FirstIsErased,
                    EndIsChecked, SizeIsEnough, Filling
<1>7. MagicIsWhole
  <2> SUFFICES ASSUME NEW p \in Apps, HasMagic(p) PROVE Complete(p)
    BY DEF MagicIsWhole, PartialNotBootable
  <2>1. 0 \in Offsets /\ p \in Partitions /\ \A i \in 0..(ImageLen - 1) : i \in Offsets /\ i < ImageLen
    BY Lengths DEF Offsets, Partitions
  <2>2. CASE p \in full
    <3>1. \A i \in 0..(ImageLen - 1) : flash[p][i] = Cell(0, i)
      BY <1>3, <1>4, <2>1, <2>2
    <3>2. flash[p][0].by = 0
      <4>1. 0 \in 0..(ImageLen - 1)
        BY Lengths
      <4>2. flash[p][0] = Cell(0, 0)
        BY <3>1, <4>1
      <4> QED
        BY <4>2 DEF Cell
    <3> QED
      BY <3>1, <3>2 DEF Complete
  <2>3. CASE p \notin full
    BY <1>3, <2>1, <2>3, CellsAre DEF HasMagic
  <2> QED
    BY <2>2, <2>3
<1> QED
  BY <1>5, <1>6, <1>7 DEF ImageInv, OnFlash

LEMMA ImageNext == ImageInv /\ [Next]_vars => ImageInv'
<1> SUFFICES ASSUME ImageInv, [Next]_vars PROVE ImageInv'
  OBVIOUS
<1>1. CASE UNCHANGED vars
  <2>1. UNCHANGED <<flash, running, boot, u, call, sent, updates, notes>>
    BY <1>1 DEF vars
  <2>2. Typed' /\ InCall' /\ InOrder'
    BY <2>1 DEF ImageInv, Typed, InCall, InOrder, Buffered
  <2>3. HeaderKept' /\ SumIsOnFlash' /\ SectorIsErased' /\ FirstIsErased'
    BY <2>1 DEF ImageInv, OnFlash, HeaderKept, SumIsOnFlash, SectorIsErased, FirstIsErased,
                FirstOfFirmware, Header
  <2>4. Bytes(0, ImageLen)' = Bytes(0, ImageLen)
    BY <2>1 DEF Bytes
  <2>5. EndIsChecked' /\ SizeIsEnough' /\ MagicIsWhole'
    BY <2>1, <2>4 DEF ImageInv, OnFlash, EndIsChecked, SizeIsEnough, MagicIsWhole,
                      PartialNotBootable, HasMagic, Complete
  <2> QED
    BY <2>2, <2>3, <2>5 DEF ImageInv, OnFlash
<1>2. ASSUME NEW size \in Sizes, NEW command \in Commands, NEW md5 \in Md5,
             Begin(size, command, md5)
      PROVE  ImageInv'
  BY <1>2, BeginKeepsImage
<1>3. ASSUME NEW n \in 0..MaxChunk, Write(n) PROVE ImageInv'
  BY <1>3, WriteKeepsImage
<1>4. ASSUME NEW even \in Evens, End(even) PROVE ImageInv'
  BY <1>4, EndKeepsImage
<1>5. CASE WriteStream \/ ClearError \/ LosePower \/ Restart
  BY <1>5, WriteStreamKeepsImage, ClearErrorKeepsImage, LosePowerKeepsImage, RestartKeepsImage
<1>6. CASE Abort \/ RollBack \/ ReadTimesOut \/ StreamEnds \/ Activate
  BY <1>6, OthersKeepImage
<1>7. CASE Copy \/ Stash \/ EraseSector \/ ProgramSector \/ Read \/ Verify \/ Enable
  BY <1>7, CopyKeepsImage, StashKeepsImage, EraseKeepsImage, ProgramKeepsImage, ReadKeepsImage,
     VerifyKeepsImage, EnableKeepsImage
<1> QED
  BY <1>1, <1>2, <1>3, <1>4, <1>5, <1>6, <1>7 DEF Next, CallStep

THEOREM SpecImageInv == Spec => []ImageInv
BY ImageInit, ImageNext, PTL DEF Spec

\* Whatever the caller gives write() and writeStream(), and whatever fails, what is
\* summed and what is buffered are the bytes of the image in order, none missing: as
\* long as _writeBuffer() finds the memory for the first block.
THEOREM SpecStreamInOrder == Spec => []StreamInOrder
<1>1. ImageInv => StreamInOrder
  <2> SUFFICES ASSUME ImageInv, u.size > 0, "noMemory" \notin notes,
                      NEW k \in DOMAIN (u.sum \o u.buffer)
               PROVE  (u.sum \o u.buffer)[k].place = k - 1
    BY DEF StreamInOrder
  <2> DEFINE all == u.sum \o u.buffer
             g == u.progress
             b == Len(u.buffer)
  <2>1. /\ all \in Seq(CellRecords) /\ Len(all) = g + b
        /\ \A j \in 1..g : all[j] = u.sum[j]
        /\ \A j \in (g + 1)..(g + b) : all[j] = u.buffer[j - g] /\ j - g \in 1..b
    BY SumGrows
  <2>2. /\ \A j \in 1..g : u.sum[j] = Cell(updates, j - 1)
        /\ \A j \in 1..b : u.buffer[j] = Cell(updates, g + j - 1)
    BY DEF ImageInv, InOrder, InCall
  <2>3. g \in Nat /\ b \in Nat
    BY UpdaterFields DEF ImageInv
  <2>4. k \in 1..(g + b)
    BY <2>1, LenProperties
  <2> HIDE DEF all, g, b
  <2>5. all[k] = Cell(updates, k - 1)
    <3>1. CASE k \in 1..g
      BY <2>1, <2>2, <3>1
    <3>2. CASE k \notin 1..g
      <4>1. k \in (g + 1)..(g + b) /\ g + (k - g) - 1 = k - 1
        BY <2>3, <2>4, <3>2
      <4> QED
        BY <2>1, <2>2, <4>1
    <3> QED
      BY <3>1, <3>2
  <2> QED
    BY <2>5 DEF all, Cell
<1> QED
  BY <1>1, SpecImageInv, PTL

\* The partition an update writes gets the magic byte only over a whole image of one
\* update, whatever fails and wherever power is lost: when begin() is told of the whole
\* image and end() has checked it.
THEOREM SpecPartialNotBootable == ASSUME AnnouncesAll PROVE Spec => []PartialNotBootable
<1>1. ImageInv => PartialNotBootable
  BY DEF ImageInv, OnFlash, MagicIsWhole
<1> QED
  BY <1>1, SpecImageInv, PTL
=============================================================================
