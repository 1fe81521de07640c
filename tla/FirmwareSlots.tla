---------------------------- MODULE FirmwareSlots ----------------------------
(***************************************************************************)
(* What an over-the-air update promises: the image the device runs is      *)
(* never touched, the boot selection only ever moves to a complete image,  *)
(* and a restart, whenever it comes, finds a complete image to run.        *)
(***************************************************************************)
CONSTANTS Slots, NoImage
VARIABLES
  running,   \* the slot whose image runs
  boot,      \* the slot the boot loader tries first
  image      \* the complete image in each slot, or NoImage

vars == <<running, boot, image>>

Init ==
  /\ running \in Slots
  /\ boot = running
  /\ image[running] # NoImage

\* A slot that does not run loses its image, or is given a complete one.
Replace(s) ==
  /\ s # running
  /\ \A t \in Slots \ {s} : image'[t] = image[t]
  /\ UNCHANGED <<running, boot>>

Select(s) ==
  /\ image[s] # NoImage
  /\ boot' = s
  /\ UNCHANGED <<running, image>>

\* The boot loader falls back on another slot when the selected one is broken.
Restart ==
  /\ running' \in {s \in Slots : image[s] # NoImage}
  /\ image[boot] # NoImage => running' = boot
  /\ UNCHANGED <<boot, image>>

Next == Restart \/ \E s \in Slots : Select(s) \/ Replace(s)

Spec == Init /\ [][Next]_vars
=============================================================================
