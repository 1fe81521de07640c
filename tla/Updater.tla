------------------------------- MODULE Updater -------------------------------
(***************************************************************************)
(* UpdateClass (Updater.cpp): an image is buffered sector by sector, each  *)
(* sector erased and written, the first block held back until end(), which *)
(* writes it and selects the partition for the next boot.                  *)
(*                                                                         *)
(* Flash operations are steps of their own: power may be lost between any  *)
(* two, and each may fail.  Bytes are counted in units of half a block: a  *)
(* block (ENCRYPTED_BLOCK_SIZE) is two units, written at once.  A cell of  *)
(* the flash holds the update it was written by and the place in its image *)
(* it comes from; place 0 is the magic byte.                               *)
(***************************************************************************)
EXTENDS Naturals, Sequences, FiniteSets

CONSTANTS
  Apps,            \* the two OTA partitions
  Data,            \* the SPIFFS partition
  SectorSize,      \* SPI_FLASH_SEC_SIZE
  PartitionSize,
  ImageLen,        \* length of every image an update sends
  Sizes,           \* sizes passed to begin()
  Md5,             \* whether the caller sets an MD5: the choices
  Evens,           \* the values of evenIfRemaining the caller passes
  Commands,        \* subset of {"FLASH", "SPIFFS"}
  Faults,          \* TRUE when flash operations and malloc may fail
  MaxUpdates,      \* bound: updates begun
  MaxChunk         \* bound: units given to one write()

BlockSize == 2     \* ENCRYPTED_BLOCK_SIZE

ASSUME SizesAssumption ==
  /\ {SectorSize, PartitionSize, ImageLen} \subseteq Nat \ {0}
  /\ SectorSize % BlockSize = 0 /\ PartitionSize % SectorSize = 0
  /\ BlockSize <= ImageLen /\ ImageLen <= PartitionSize
ASSUME PartitionsAssumption == Cardinality(Apps) = 2 /\ Data \notin Apps
ASSUME ChoicesAssumption == Md5 \cup Evens \subseteq BOOLEAN /\ Commands \subseteq {"FLASH", "SPIFFS"}
ASSUME BoundsAssumption == MaxUpdates \in Nat /\ MaxChunk \in Nat

VARIABLES
  flash,     \* the cells of every partition
  running,   \* the partition the program runs from
  boot,      \* the partition otadata selects
  u,         \* the members of UpdateClass
  call,      \* the call in progress and where it is
  sent,      \* how much of the image the caller has sent
  updates,   \* updates begun
  notes      \* history: what the properties make an exception for

vars == <<flash, running, boot, u, call, sent, updates, notes>>

Partitions == Apps \cup {Data}
Offsets == 0..(PartitionSize - 1)
Cell(g, i) == [by |-> g, place |-> i]
Nowhere == PartitionSize           \* the place of what is not a byte of an image
Erased == Cell(0, Nowhere)
Garbage == Cell(MaxUpdates + 1, Nowhere)
Factory(i) == IF i < ImageLen THEN Cell(0, i) ELSE Erased

\* mutant: _size is not reset
ResetKeepsSize(v) == [v EXCEPT !.buffer = <<>>, !.progress = 0, !.command = "FLASH"]
Reset(v) == [v EXCEPT !.buffer = <<>>, !.size = 0, !.progress = 0, !.command = "FLASH"]
Aborted(err) == [Reset(u) EXCEPT !.error = err]
Idle == [at |-> "idle", op |-> "none", left |-> 0, len |-> 0, n |-> 0]
NewUpdater == [error |-> "OK", buffer |-> <<>>, skip |-> <<>>, size |-> 0, progress |-> 0,
               command |-> "FLASH", partition |-> Data, md5 |-> FALSE, sum |-> <<>>]

Init ==
  /\ running \in Apps
  /\ boot = running
  /\ flash \in {[p \in Partitions |-> [i \in Offsets |-> IF p \in full THEN Factory(i) ELSE Erased]] :
                  full \in {{running}, Apps}}
  /\ u = NewUpdater
  /\ call = Idle
  /\ sent = 0 /\ updates = 0
  /\ notes = {}
-----------------------------------------------------------------------------
(***************************************************************************)
(* The flash.                                                              *)
(***************************************************************************)

\* _partitionIsBootable looks at the magic byte; the boot loader and
\* esp_ota_set_boot_partition validate the whole image.
HasMagic(p) == flash[p][0].place = 0
Complete(p) ==
  \A i \in 0..(ImageLen - 1) : flash[p][i] = Cell(flash[p][0].by, i)

\* esp_ota_get_next_update_partition(NULL)
SamePartition == running   \* mutant: the running partition is taken
NextPartition == CHOOSE p \in Apps : p # running

\* Programming can only clear bits: a byte that is not erased first is spoilt,
\* but a magic byte over a magic byte.
Programmed(old, new) ==
  IF old \in {Erased, new} THEN new
  ELSE IF old.place = 0 /\ new.place = 0 THEN Cell(Garbage.by, 0) ELSE Garbage

Erase(p, from) ==
  flash' = [flash EXCEPT ![p] =
              [i \in Offsets |-> IF i \in from..(from + SectorSize - 1) THEN Erased ELSE @[i]]]
Program(p, from, cells) ==
  flash' = [flash EXCEPT ![p] =
              [i \in Offsets |-> IF i \in from..(from + Len(cells) - 1)
                                 THEN Programmed(@[i], cells[i - from + 1]) ELSE @[i]]]
-----------------------------------------------------------------------------
(***************************************************************************)
(* begin, with the setMD5 that follows it.                                 *)
(***************************************************************************)
CallIs(op, at) == call.op = op /\ call.at = at
Ready == call.at = "idle"
Running == u.error = "OK" /\ u.size > 0
PartitionFor(command) == IF command = "FLASH" THEN NextPartition ELSE Data
Room == SectorSize - Len(u.buffer)
\* _size - _progress, unsigned: a size_t no write() comes near when it wraps.
Wrapped == 2 * PartitionSize
Remaining == IF u.progress > u.size THEN Wrapped ELSE u.size - u.progress
Goto(at) == call' = [call EXCEPT !.at = at]

Begin(size, command, md5) ==
  /\ Ready /\ u.size = 0
  /\ updates < MaxUpdates
  /\ LET fresh == [Reset(u) EXCEPT !.error = "OK", !.md5 = md5, !.sum = <<>>,
                     !.partition = PartitionFor(command)] IN
       \/ /\ size \in 1..PartitionSize
          /\ u' = [fresh EXCEPT !.size = size, !.command = command]
          /\ updates' = updates + 1
       \/ /\ size \notin 1..PartitionSize
          /\ u' = [fresh EXCEPT !.error = "SIZE"]
          /\ UNCHANGED updates
       \/ Faults /\ u' = fresh /\ UNCHANGED updates   \* malloc failed
  /\ sent' = 0
  /\ UNCHANGED <<flash, running, boot, call, notes>>
-----------------------------------------------------------------------------
(***************************************************************************)
(* write: the caller's bytes go to the buffer, and the buffer to the flash *)
(* when it is full or holds the last of the image.                         *)
(***************************************************************************)
Bytes(from, n) == [k \in 1..n |-> Cell(updates, from + k - 1)]

Write(n) ==
  /\ Ready /\ Running
  /\ sent + n <= ImageLen
  /\ IF n > Remaining
     THEN u' = Aborted("SPACE") /\ UNCHANGED call
     ELSE call' = [at |-> "copy", op |-> "write", left |-> n, len |-> n, n |-> 0] /\ UNCHANGED u
  /\ UNCHANGED <<flash, running, boot, sent, updates, notes>>

\* The caller goes on after the n bytes write() has counted, or after all it gave.
Returned(n) ==
  /\ call' = Idle
  /\ sent' \in {sent + n, sent + call.len}

Copy ==
  /\ CallIs("write", "copy")
  /\ LET n == IF call.left > Room THEN Room ELSE call.left
         buffer == u.buffer \o Bytes(sent + call.len - call.left, n)
     IN /\ u' = [u EXCEPT !.buffer = buffer]
        /\ IF call.left > Room \/ Len(buffer) = Remaining
           THEN call' = [call EXCEPT !.at = "stash", !.n = n] /\ UNCHANGED sent
           ELSE Returned(call.len)
  /\ UNCHANGED <<flash, running, boot, updates, notes>>

\* Where the caller of _writeBuffer goes on: write with what is left, writeStream
\* with its loop, end with the verification, whether the buffer was written or not.
WrittenLeftKept ==   \* mutant: left -= toBuff is dropped
  \/ call.op = "write" /\ call.n < call.left /\ Goto("copy") /\ UNCHANGED sent
  \/ call.op = "write" /\ call.n = call.left /\ Returned(call.len)
  \/ call.op = "stream" /\ Goto("read") /\ UNCHANGED sent
  \/ call.op = "end" /\ Goto("verify") /\ UNCHANGED sent
Written ==
  \/ /\ call.op = "write" /\ call.n < call.left
     /\ call' = [call EXCEPT !.at = "copy", !.left = @ - call.n]
     /\ UNCHANGED sent
  \/ call.op = "write" /\ call.n = call.left /\ Returned(call.len)
  \/ call.op = "stream" /\ Goto("read") /\ UNCHANGED sent
  \/ call.op = "end" /\ Goto("verify") /\ UNCHANGED sent
NotWritten ==
  \/ call.op = "write" /\ Returned(call.len - call.left)
  \/ call.op = "stream" /\ call' = Idle /\ UNCHANGED sent
  \/ call.op = "end" /\ Goto("verify") /\ UNCHANGED sent
-----------------------------------------------------------------------------
(***************************************************************************)
(* _writeBuffer                                                            *)
(***************************************************************************)
Fails(err) == u' = Aborted(err) /\ NotWritten /\ UNCHANGED <<flash, running, boot, updates, notes>>
FirstOfFirmware == u.progress = 0 /\ u.command = "FLASH"
SkipNothing == 0   \* mutant: the first block is written with the rest
Skip == IF FirstOfFirmware THEN BlockSize ELSE 0
Header == [k \in 1..BlockSize |-> IF k <= Len(u.buffer) THEN u.buffer[k] ELSE Garbage]

\* The magic byte is checked and the first block set aside; when there is no
\* memory for it the update goes on as it was.
Stash ==
  /\ call.at = "stash"
  /\ \/ /\ FirstOfFirmware /\ Header[1].place # 0
        /\ Fails("MAGIC_BYTE")
     \/ /\ FirstOfFirmware /\ Header[1].place = 0
        /\ u' = [u EXCEPT !.skip = Header]
        /\ Goto("erase")
        /\ UNCHANGED <<flash, running, boot, sent, updates, notes>>
     \/ /\ FirstOfFirmware /\ Header[1].place = 0 /\ Faults
        /\ u' = [u EXCEPT !.skip = <<>>]
        /\ NotWritten
        /\ notes' = notes \cup {"noMemory"}
        /\ UNCHANGED <<flash, running, boot, updates>>
     \/ /\ ~FirstOfFirmware
        /\ Goto("erase")
        /\ UNCHANGED <<flash, running, boot, u, sent, updates, notes>>

EraseSector ==
  /\ call.at = "erase"
  /\ \/ /\ u.progress % SectorSize = 0 /\ u.progress + SectorSize <= PartitionSize
        /\ Erase(u.partition, u.progress)
        /\ Goto("program")
        /\ UNCHANGED <<running, boot, u, sent, updates, notes>>
     \/ /\ Faults \/ u.progress % SectorSize # 0 \/ u.progress + SectorSize > PartitionSize
        /\ Fails("ERASE")

\* A buffer shorter than the block held back makes the length negative.
ProgramSector ==
  /\ call.at = "program"
  /\ \/ /\ Len(u.buffer) >= Skip
        /\ Program(u.partition, u.progress + Skip, SubSeq(u.buffer, Skip + 1, Len(u.buffer)))
        /\ u' = [u EXCEPT !.sum = @ \o u.buffer, !.progress = @ + Len(u.buffer), !.buffer = <<>>]
        /\ Written
        /\ UNCHANGED <<running, boot, updates, notes>>
     \/ (Faults \/ Len(u.buffer) < Skip) /\ Fails("WRITE")
-----------------------------------------------------------------------------
(***************************************************************************)
(* writeStream                                                             *)
(***************************************************************************)
WriteStream ==
  /\ Ready /\ Running
  /\ \/ /\ u.command = "FLASH" /\ sent # 0        \* the next byte is not the magic byte
        /\ u' = Aborted("MAGIC_BYTE")
        /\ UNCHANGED call
     \/ /\ u.command = "FLASH" => sent = 0
        /\ call' = [Idle EXCEPT !.at = "read", !.op = "stream"]
        /\ UNCHANGED u
  /\ UNCHANGED <<flash, running, boot, sent, updates, notes>>

Smaller(a, b) == IF a < b THEN a ELSE b
Read ==
  /\ CallIs("stream", "read") /\ Remaining > 0
  /\ \E n \in 1..Smaller(Smaller(Room, Remaining), ImageLen - sent) :
       LET buffer == u.buffer \o Bytes(sent, n) IN
         /\ u' = [u EXCEPT !.buffer = buffer]
         /\ sent' = sent + n
         /\ Goto(IF Len(buffer) \in {Remaining, SectorSize} THEN "stash" ELSE "read")
  /\ UNCHANGED <<flash, running, boot, updates, notes>>

\* 300 reads in a row that return nothing.
ReadTimesOut ==
  /\ CallIs("stream", "read") /\ Remaining > 0
  /\ u' = Aborted("STREAM")
  /\ call' = Idle
  /\ UNCHANGED <<flash, running, boot, sent, updates, notes>>

StreamEnds ==
  /\ CallIs("stream", "read") /\ Remaining = 0
  /\ call' = Idle
  /\ UNCHANGED <<flash, running, boot, u, sent, updates, notes>>
-----------------------------------------------------------------------------
(***************************************************************************)
(* end, abort and rollBack                                                 *)
(***************************************************************************)
End(evenIfRemaining) ==
  /\ Ready /\ Running
  /\ IF u.progress # u.size /\ ~evenIfRemaining
     THEN u' = Aborted("ABORT") /\ UNCHANGED call
     ELSE IF evenIfRemaining /\ u.buffer # <<>>
     THEN call' = [Idle EXCEPT !.at = "stash", !.op = "end"] /\ UNCHANGED u
     ELSE call' = [Idle EXCEPT !.at = "verify", !.op = "end"] /\ UNCHANGED u
  /\ notes' = IF ~u.md5 /\ (evenIfRemaining \/ "noMemory" \in notes)
              THEN notes \cup {"uncheckedEnd"} ELSE notes
  /\ UNCHANGED <<flash, running, boot, sent, updates>>

\* The MD5 of the whole image, or none to compare with; _size becomes what was
\* written.  A failed _writeBuffer is not noticed, but its _reset has made the
\* command U_FLASH.
Verify ==
  /\ call.at = "verify"
  /\ IF u.md5 /\ u.sum # Bytes(0, ImageLen)
     THEN u' = Aborted("MD5") /\ call' = Idle
     ELSE IF u.command = "SPIFFS"
     THEN u' = Reset(u) /\ call' = Idle
     ELSE u' = [u EXCEPT !.size = u.progress] /\ Goto("enable")
  /\ UNCHANGED <<flash, running, boot, sent, updates, notes>>

\* _enablePartition writes the block held back, the one of an earlier update when
\* this one stashed none; with none at all the null pointer is read (Restart).
Enable ==
  /\ call.at = "enable"
  /\ \/ /\ u.skip # <<>>
        /\ Program(u.partition, 0, u.skip)
        /\ Goto("activate")
        /\ UNCHANGED u
     \/ /\ Faults
        /\ u' = Aborted("READ") /\ call' = Idle
        /\ UNCHANGED flash
  /\ UNCHANGED <<running, boot, sent, updates, notes>>

\* The magic byte is read back, the image validated and selected.
Activate ==
  /\ call.at = "activate"
  /\ \/ /\ u.partition \in Apps /\ Complete(u.partition)
        /\ boot' = u.partition
        /\ u' = Reset(u)
     \/ /\ Faults \/ ~HasMagic(u.partition)
        /\ u' = Aborted("READ")
        /\ UNCHANGED boot
     \/ /\ HasMagic(u.partition)
        /\ Faults \/ ~(u.partition \in Apps /\ Complete(u.partition))
        /\ u' = Aborted("ACTIVATE")
        /\ UNCHANGED boot
  /\ call' = Idle
  /\ UNCHANGED <<flash, running, sent, updates, notes>>

ClearError ==
  /\ Ready
  /\ u' = [u EXCEPT !.error = "OK"]
  /\ UNCHANGED <<flash, running, boot, call, sent, updates, notes>>

Abort ==
  /\ Ready
  /\ u' = Aborted("ABORT")
  /\ UNCHANGED <<flash, running, boot, call, sent, updates, notes>>

\* rollBack, when no update runs.
RollBack ==
  /\ Ready /\ u.size = 0
  /\ HasMagic(NextPartition) /\ Complete(NextPartition)
  /\ boot' = NextPartition
  /\ UNCHANGED <<flash, running, u, call, sent, updates, notes>>

\* Power is lost while a buffer is programmed: blocks of it are written, then
\* nothing happens until it is back.
LosePower ==
  /\ call.at = "program"
  /\ \E n \in {k \in 1..Len(u.buffer) : k > Skip /\ k % BlockSize = 0} :
       Program(u.partition, u.progress + Skip, SubSeq(u.buffer, Skip + 1, n))
  /\ Goto("off")
  /\ UNCHANGED <<running, boot, u, sent, updates, notes>>

\* The program restarts, at any time, or power is back.
Restart ==
  /\ running' \in {p \in Apps : Complete(p)}
  /\ Complete(boot) => running' = boot
  /\ u' = NewUpdater
  /\ call' = Idle
  /\ UNCHANGED <<flash, boot, sent, updates, notes>>
-----------------------------------------------------------------------------
CallStep ==
  Copy \/ Stash \/ EraseSector \/ ProgramSector \/ Read \/ ReadTimesOut \/ StreamEnds
    \/ Verify \/ Enable \/ Activate
Next ==
  \/ \E size \in Sizes, command \in Commands, md5 \in Md5 : Begin(size, command, md5)
  \/ \E n \in 0..MaxChunk : Write(n)
  \/ \E even \in Evens : End(even)
  \/ WriteStream \/ ClearError \/ Abort \/ RollBack \/ LosePower \/ Restart
  \/ CallStep

\* A call that has begun goes on; nothing is assumed of the caller.
Spec == Init /\ [][Next]_vars
-----------------------------------------------------------------------------
Cells == [by : 0..(MaxUpdates + 1), place : 0..PartitionSize]
Errors == {"OK", "WRITE", "ERASE", "READ", "SPACE", "SIZE", "STREAM", "MD5", "MAGIC_BYTE",
           "ACTIVATE", "ABORT"}
\* Types; the buffer never outgrows its sector.
TypeOK ==
  /\ flash \in [Partitions -> [Offsets -> Cells]]
  /\ running \in Apps /\ boot \in Apps
  /\ u.error \in Errors /\ u.command \in {"FLASH", "SPIFFS"} /\ u.partition \in Partitions
  /\ u.buffer \in Seq(Cells) /\ Len(u.buffer) <= SectorSize
  /\ u.size \in 0..PartitionSize /\ u.progress \in 0..PartitionSize
  /\ call.at \in {"idle", "copy", "stash", "erase", "program", "read", "verify", "enable", "activate", "off"}
  /\ sent \in 0..ImageLen /\ updates \in 0..MaxUpdates
  /\ notes \subseteq {"noMemory", "uncheckedEnd"}

\* The partition an update writes is not bootable until the image is complete: the
\* magic byte is there only over a whole image of one update.  It is so as long as no
\* end() goes unchecked: with no MD5 set, a truncated image given to end(true) gets
\* its first block before it is validated, and so does one with bytes sent twice
\* because write() did not count what it kept without memory.
PartialNotBootable ==
  "uncheckedEnd" \notin notes => \A p \in Apps : HasMagic(p) => Complete(p)

\* hasError() and isRunning() exclude each other, so that the next begin() is not
\* refused as "already running".
ErrorEndsUpdate == u.error # "OK" => u.size = 0 /\ u.buffer = <<>>

\* What has been written and what is in the buffer are the bytes of the image, in
\* order and with none missing, whether the caller goes by the count write() returns
\* or not; unless malloc failed, when write() keeps bytes it does not count.
StreamInOrder ==
  LET all == u.sum \o u.buffer IN
    u.size > 0 /\ "noMemory" \notin notes => \A k \in DOMAIN all : all[k].place = k - 1

\* The image a partition holds is named by its update.
Held(p) == IF Complete(p) THEN <<flash[p][0].by>> ELSE <<>>
Promised == INSTANCE FirmwareSlots WITH Slots <- Apps, NoImage <- <<>>,
                                        image <- [p \in Apps |-> Held(p)]

\* The device can always restart, and only complete images are selected: the
\* updater implements FirmwareSlots.
KeepsSlots == Promised!Spec
=============================================================================
