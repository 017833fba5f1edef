----------------------------- MODULE FirmwareSlot -----------------------------
(***************************************************************************)
(* What the firmware update promises, without files, flash sectors or a    *)
(* boot loader: the firmware that runs is always one that was next when it *)
(* was started, power may fail at any moment, and only what is received    *)
(* while a firmware runs, or a fault of the memory, changes what is next.  *)
(***************************************************************************)
EXTENDS Sequences

CONSTANT Pieces

VARIABLES next,             \* the pieces of the firmware started next
          running,          \* the firmware that runs, <<>> for none
          hidden,           \* a fault keeps next from being started once
          faults            \* a count that changes with every fault

slot == <<next, running, hidden>>

SlotInit == running = <<>> /\ hidden = FALSE

Stop == running' = <<>>

\* The file is created empty, continued, or begun again.
Receive ==
  /\ running # <<>>
  /\ \/ next' = <<>>
     \/ \E piece \in Pieces : next' \in {<<piece>>, Append(next, piece)}
  /\ UNCHANGED <<running, hidden>>

\* Power fails, or the board resets itself.
PowerFail ==
  /\ Stop
  /\ hidden' = FALSE
  /\ UNCHANGED next

Start ==
  /\ running = <<>>
  /\ running' = next \/ hidden
  /\ hidden' = FALSE
  /\ UNCHANGED next

\* Anything may become of next, or of whether it is found.
Lose ==
  /\ faults' # faults
  /\ running = <<>> /\ UNCHANGED running

SlotNext == Receive \/ PowerFail \/ Start \/ Lose

SlotSpec == SlotInit /\ [][SlotNext]_slot
=============================================================================
