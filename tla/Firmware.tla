------------------------------- MODULE Firmware -------------------------------
(***************************************************************************)
(* The firmware update: board.c stores the image that arrives over TCP in  *)
(* the file "firmware" of the flash chip, through storage.c, and resets;   *)
(* bootloader/main.c copies the file to the flash sectors of the           *)
(* application, removes it and starts the application.                     *)
(*                                                                         *)
(* An image is a sequence of pieces, one per received message.  A message  *)
(* of 128 bytes is full; the first shorter one ends the update, and an     *)
(* image without one, a multiple of 128 bytes, does not end it.  Every     *)
(* piece is written and synced on its own, so the file survives a power    *)
(* failure up to its last piece, while a truncation is not synced and      *)
(* takes effect with the next piece.  littlefs itself is external: each    *)
(* call of it is a step.                                                   *)
(*                                                                         *)
(* A fault is a failing access to the chip or a lost connection.  That a   *)
(* flash sector fails, which the boot loader ignores, is left out.         *)
(***************************************************************************)
EXTENDS Integers, Sequences

CONSTANTS ImageLength,      \* pieces of the administrator's image
          Old,              \* the piece of the firmware installed before
          Foreign,          \* a message of the node's server, not an image
          Part,             \* a piece the network has split
          Limit             \* how often each event may happen

Events == {"power", "fault", "update", "foreign"}

ASSUME ImageAssumption == ImageLength \in Nat \ {0}
ASSUME LimitAssumption == Limit \in [Events -> Nat]

Image  == [i \in 1 .. ImageLength |-> i]
Pieces == (1 .. ImageLength) \cup {Old, Foreign, Part}

VARIABLES exists, file,         \* the file as the chip holds it
          opened, content,      \* the file as the open handle sees it
          flash,                \* the application's flash sectors
          pc,                   \* where the boot loader or the start is
          offset,               \* pieces copied by the boot loader
          is_updating,
          handler,              \* progress of the node's task in a request
          server, received,     \* whose messages arrive, and how many pieces
          left                  \* events that may still happen

chip == <<exists, file>>
handle == <<opened, content>>
update == <<is_updating, handler, server, received>>
vars == <<chip, handle, flash, pc, offset, update, left>>

Happens(event) ==
  /\ left[event] > 0
  /\ left' = [left EXCEPT ![event] = @ - 1]

\* What a reset leaves of the application's memory.
Forgotten ==
  /\ opened' = FALSE /\ content' = <<>>
  /\ is_updating' = FALSE /\ handler' = "idle"
  /\ server' = "node" /\ received' = 0

Init ==
  /\ exists = FALSE /\ file = <<>>
  /\ opened = FALSE /\ content = <<>>
  /\ flash = <<Old>>
  /\ pc = "boot" /\ offset = 0
  /\ is_updating = FALSE /\ handler = "idle" /\ server = "node" /\ received = 0
  /\ left = Limit

\* Power fails, or someone switches the board off and on.
PowerFail ==
  /\ Happens("power")
  /\ pc' = "boot"
  /\ Forgotten
  /\ UNCHANGED <<chip, flash, offset>>

-----------------------------------------------------------------------------
(* The boot loader.  bootloader_loop is never left.                        *)

Goto(label) == pc' = label

\* An access to the chip fails and the boot loader gives up.
GiveUp ==
  /\ pc \in {"boot", "copy", "remove", "check"}
  /\ Happens("fault")
  /\ Goto("loop")
  /\ UNCHANGED <<chip, handle, flash, offset, update>>

\* storage_init, of the boot loader and of the application: a file system that
\* cannot be mounted is formatted, whatever the reason was.
Format ==
  /\ pc \in {"boot", "start"}
  /\ Happens("fault")
  /\ exists' = FALSE /\ file' = <<>>
  /\ UNCHANGED <<handle, flash, pc, offset, update>>

Mount ==
  /\ pc = "boot"
  /\ Goto("open")
  /\ UNCHANGED <<chip, handle, flash, offset, update, left>>

\* Mutant: the flash is programmed from where the last attempt stopped.
MutantOpenFile ==
  /\ pc = "open"
  /\ Goto(IF exists THEN "erase" ELSE "check")
  /\ UNCHANGED <<chip, handle, flash, offset, update, left>>

OpenFile ==
  /\ pc = "open"
  /\ offset' = 0
  /\ Goto(IF exists THEN "erase" ELSE "check")
  /\ UNCHANGED <<chip, handle, flash, update, left>>

\* Every error is taken for a missing file.
OpenFails ==
  /\ pc = "open"
  /\ Happens("fault")
  /\ Goto("check")
  /\ UNCHANGED <<chip, handle, flash, offset, update>>

\* Mutant: the file is removed before it has been copied.
MutantErase ==
  /\ pc = "erase"
  /\ flash' = <<>>
  /\ exists' = FALSE
  /\ Goto("copy")
  /\ UNCHANGED <<file, handle, offset, update, left>>

Erase ==
  /\ pc = "erase"
  /\ flash' = <<>>
  /\ Goto("copy")
  /\ UNCHANGED <<chip, handle, offset, update, left>>

CopyPiece ==
  /\ pc = "copy" /\ offset < Len(file)
  /\ flash' = Append(flash, file[offset + 1])
  /\ offset' = offset + 1
  /\ UNCHANGED <<chip, handle, pc, update, left>>

\* Mutant: an error of a read is taken for the end of the file.
MutantCopyDone ==
  /\ pc = "copy"
  /\ \/ offset = Len(file) /\ UNCHANGED left
     \/ Happens("fault")
  /\ Goto("remove")
  /\ UNCHANGED <<chip, handle, flash, offset, update>>

CopyDone ==
  /\ pc = "copy" /\ offset = Len(file)
  /\ Goto("remove")
  /\ UNCHANGED <<chip, handle, flash, offset, update, left>>

RemoveFile ==
  /\ pc = "remove"
  /\ exists' = FALSE /\ file' = <<>>
  /\ Goto("check")
  /\ UNCHANGED <<handle, flash, offset, update, left>>

\* The first word of an application is the top of its stack.
Startable == flash # <<>> /\ Head(flash) \in {Old, 1, Part}

Jump ==
  /\ pc = "check"
  /\ Goto(IF Startable THEN "start" ELSE "loop")
  /\ UNCHANGED <<chip, handle, flash, offset, update, left>>

\* board_init_storage; an error is only logged.
InitStorage ==
  /\ pc = "start"
  /\ Goto("app")
  /\ UNCHANGED <<chip, handle, flash, offset, update, left>>

BootStep ==
  \/ Mount \/ OpenFile \/ Erase \/ CopyPiece \/ CopyDone \/ RemoveFile
  \/ Jump \/ InitStorage

-----------------------------------------------------------------------------
(* board_receive_node_msg with UPDATE_FIRMWARE, run by the node's task; a   *)
(* second request may have been queued before the first.                    *)

\* The node's task runs with the application, also while that waits to reset.
Handling == pc \in {"app", "closing"}

\* storage_enable_power.  That it or the next step fails is only logged, and
\* shows when the file cannot be created.
EnablePower ==
  /\ Handling /\ handler = "idle"
  /\ Happens("update")
  /\ handler' = "powered"
  /\ UNCHANGED <<chip, handle, flash, pc, offset, is_updating, server, received>>

\* storage_mount_filesystem; a file that is open stays so.
MountFilesystem ==
  /\ Handling /\ handler = "powered"
  /\ handler' = "mounted"
  /\ UNCHANGED <<chip, handle, flash, pc, offset, is_updating, server, received, left>>

\* A new file is committed empty; an existing one is truncated in memory.
CreateFile ==
  /\ Handling /\ handler = "mounted"
  /\ handler' = "created"
  /\ exists' = TRUE
  /\ opened' = TRUE /\ content' = <<>>
  /\ UNCHANGED <<file, flash, pc, offset, is_updating, server, received, left>>

\* The error is ignored and the update goes on without a file.
CreateFails ==
  /\ Handling
  /\ \/ handler = "mounted" /\ Happens("fault")
     \/ handler = "asleep" /\ UNCHANGED left
  /\ handler' = "created"
  /\ opened' = FALSE /\ content' = <<>>
  /\ UNCHANGED <<chip, flash, pc, offset, is_updating, server, received>>

SetUpdating ==
  /\ handler = "created"
  /\ is_updating' = TRUE
  /\ handler' = "flagged"
  /\ UNCHANGED <<chip, handle, flash, pc, offset, server, received, left>>

\* tcp_client_restart: from here on the image arrives, from its beginning.
RestartClient ==
  /\ handler = "flagged"
  /\ server' = "admin" /\ received' = 0
  /\ handler' = "idle"
  /\ UNCHANGED <<chip, handle, flash, pc, offset, is_updating, left>>

\* Mutant: the client is restarted before the flag is set.
MutantStartUpdate ==
  \/ /\ handler = "created"
     /\ server' = "admin" /\ received' = 0
     /\ handler' = "flagged"
     /\ UNCHANGED <<chip, handle, flash, pc, offset, is_updating, left>>
  \/ /\ handler = "flagged"
     /\ is_updating' = TRUE
     /\ handler' = "idle"
     /\ UNCHANGED <<chip, handle, flash, pc, offset, server, received, left>>

StartUpdate == SetUpdating \/ RestartClient

Request == EnablePower \/ MountFilesystem \/ CreateFile \/ CreateFails \/ StartUpdate

-----------------------------------------------------------------------------
(* board_receive_tcp_msg, run by the client's task.                         *)

\* storage_write_file; the result is ignored, and so is a missing file.
Write(piece) ==
  IF opened
  THEN /\ content' = Append(content, piece)
       /\ file' = content'
       /\ UNCHANGED <<exists, opened>>
  ELSE UNCHANGED <<chip, handle>>

\* The file is closed, which may sync a truncation, and the chip put to sleep:
\* a request that has already woken it finds no file system.
Close(contents) ==
  /\ file' \in contents
  /\ opened' = FALSE /\ content' = <<>>
  /\ handler' = IF handler \in {"powered", "mounted"} THEN "asleep" ELSE handler
  /\ Goto("closing")
  /\ UNCHANGED <<exists, is_updating, server>>

\* The last piece.
Finish(piece) == Close({IF opened THEN Append(content, piece) ELSE file})

\* Five seconds later the board resets itself.
Reset ==
  /\ pc = "closing"
  /\ Goto("boot")
  /\ Forgotten
  /\ UNCHANGED <<chip, flash, offset, left>>

Counted == received' = received + IF server = "admin" THEN 1 ELSE 0

\* A message without the flag is the node's.
Receive(piece, full) ==
  /\ pc = "app"
  /\ IF is_updating /\ ~full
     THEN Finish(piece)
     ELSE /\ IF is_updating THEN Write(piece) ELSE UNCHANGED <<chip, handle>>
          /\ UNCHANGED <<pc, is_updating, handler, server>>
  /\ Counted
  /\ UNCHANGED <<flash, offset>>

\* The last piece may be a full message as well.
ReceivePiece ==
  /\ server = "admin" /\ received < ImageLength
  /\ \E full \in BOOLEAN :
       /\ received + 1 < ImageLength => full
       /\ Receive(received + 1, full)
  /\ UNCHANGED left

\* The network delivers less than a full message, and that ends the update.
ReceivePart ==
  /\ server = "admin" /\ received < ImageLength
  /\ Happens("fault")
  /\ Receive(Part, FALSE)

\* The connection to the old server lives until the client restarts.
ReceiveForeign ==
  /\ server = "node" /\ is_updating
  /\ Happens("foreign")
  /\ \E full \in BOOLEAN : Receive(Foreign, full)

\* A full piece is lost to a failing write.
WriteFails ==
  /\ pc = "app" /\ is_updating /\ server = "admin" /\ received < ImageLength
  /\ Happens("fault")
  /\ Counted
  /\ UNCHANGED <<chip, handle, flash, pc, offset, is_updating, handler, server>>

\* The last piece is lost to a failing write.
LastWriteFails ==
  /\ pc = "app" /\ is_updating /\ server = "admin" /\ received + 1 = ImageLength
  /\ Happens("fault")
  /\ Close(IF opened THEN {file, content} ELSE {file})
  /\ Counted
  /\ UNCHANGED <<flash, offset>>

\* The connection is lost and made again, and the image sent again.
Reconnect ==
  /\ pc = "app" /\ server = "admin"
  /\ Happens("fault")
  /\ received' = 0
  /\ UNCHANGED <<chip, handle, flash, pc, offset, is_updating, handler, server>>

Next ==
  \/ BootStep \/ GiveUp \/ Format \/ OpenFails \/ PowerFail
  \/ Request
  \/ ReceivePiece \/ ReceivePart \/ ReceiveForeign
  \/ WriteFails \/ LastWriteFails \/ Reconnect \/ Reset

Spec == Init /\ [][Next]_vars

\* The processor runs.  Nothing is assumed of servers and the network.
Fairness == WF_vars(BootStep) /\ WF_vars(Reset)

FairSpec == Spec /\ Fairness

-----------------------------------------------------------------------------
(* Properties.                                                             *)

TypeOK ==
  /\ exists \in BOOLEAN /\ file \in Seq(Pieces)
  /\ opened \in BOOLEAN /\ content \in Seq(Pieces)
  /\ flash \in Seq(Pieces)
  /\ pc \in {"boot", "open", "erase", "copy", "remove", "check", "start", "app",
             "closing", "loop"}
  /\ offset \in Nat
  /\ is_updating \in BOOLEAN
  /\ handler \in {"idle", "powered", "mounted", "asleep", "created", "flagged"}
  /\ server \in {"node", "admin"} /\ received \in 0 .. ImageLength
  /\ left \in [Events -> Nat]

\* What the boot loader has copied is the beginning of the file, through any
\* number of interrupted attempts, and the file is removed only when the flash
\* holds all of it.
CopiedPrefix ==
  /\ pc = "copy" => offset <= Len(file) /\ flash = SubSeq(file, 1, offset)
  /\ pc = "remove" => flash = file

\* File, flash and boot loader together keep one firmware that is next.
nextFirmware == IF exists THEN file ELSE flash
running      == IF Handling THEN flash ELSE <<>>
hidden       == exists /\ pc \in {"check", "start"}

Slot == INSTANCE FirmwareSlot WITH
  next <- nextFirmware, running <- running, hidden <- hidden,
  faults <- left["fault"]

\* The firmware that runs is always the one that was next when it started,
\* whenever power fails during reception, copying and removal.
ImplementsSlot == Slot!SlotSpec

\* A complete image in the file runs in the end, however often power fails
\* before the board resets itself and while the image is copied, when the chip
\* does not fail.
ImageInstalled ==
  pc \in {"closing", "boot"} /\ exists /\ file = Image /\ left["fault"] = 0
    ~> pc = "app" /\ flash = Image

\* One request, no fault of chip or network, no message of the old server.
Undisturbed ==
  /\ left["fault"] = Limit["fault"] /\ left["foreign"] = Limit["foreign"]
  /\ Limit["update"] - left["update"] <= 1

\* An undisturbed update stores the pieces in the order of the image, none of
\* them going to the node instead, whichever steps of the node's task and of
\* the client's task come first; and the board resets itself for the complete
\* image only.
ReceivedInOrder ==
  Undisturbed =>
    /\ server = "admin" /\ received > 0 => exists /\ file = SubSeq(Image, 1, received)
    /\ pc = "closing" => exists /\ file = Image
=============================================================================
