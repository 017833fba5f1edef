---------------------------- MODULE FirmwareProofs ----------------------------
(***************************************************************************)
(* The boot loader copies faithfully, and the update implements            *)
(* FirmwareSlot, for images of every length and any number of requests,    *)
(* power failures, faults and foreign messages.                            *)
(***************************************************************************)
EXTENDS Firmware, SequenceTheorems, TLAPS

\* An event that happens leaves a number of events.
LEMMA HappensType ==
  ASSUME NEW event \in Events, left \in [Events -> Nat], Happens(event)
  PROVE  left' \in [Events -> Nat]
<1>. DEFINE rest == left[event] - 1
<1>1. rest \in Nat
  BY DEF Happens
<1>2. left' = [left EXCEPT ![event] = rest]
  BY DEF Happens
<1>. HIDE DEF rest
<1>. QED  BY <1>1, <1>2

\* What is appended to a sequence of pieces keeps it one.
LEMMA AppendPiece ==
  ASSUME NEW s \in Seq(Pieces), NEW piece \in Pieces
  PROVE  Append(s, piece) \in Seq(Pieces)
BY AppendProperties

\* So does the loss of the application's memory.
LEMMA ForgottenType ==
  ASSUME Forgotten
  PROVE  /\ opened' \in BOOLEAN /\ content' \in Seq(Pieces)
         /\ is_updating' \in BOOLEAN /\ handler' = "idle"
         /\ server' \in {"node", "admin"} /\ received' \in 0 .. ImageLength
<1>1. content' \in Seq(Pieces) /\ received' = 0
  BY DEF Forgotten
<1>2. received' \in 0 .. ImageLength
  BY <1>1, ImageAssumption
<1>. QED  BY <1>1, <1>2 DEF Forgotten

\* The variables have their types.
THEOREM Typing == Spec => []TypeOK
<1>e. <<>> \in Seq(Pieces)
  OBVIOUS
<1>1. ASSUME Init PROVE TypeOK
  <2>1. <<Old>> \in Seq(Pieces)
    BY DEF Pieces
  <2>2. Limit \in [Events -> Nat] /\ 0 \in 0 .. ImageLength
    BY LimitAssumption, ImageAssumption
  <2>3. exists \in BOOLEAN /\ opened \in BOOLEAN /\ is_updating \in BOOLEAN
    BY <1>1 DEF Init
  <2>4. file \in Seq(Pieces) /\ content \in Seq(Pieces) /\ flash \in Seq(Pieces)
    BY <1>1, <1>e, <2>1 DEF Init
  <2>. QED  BY <1>1, <2>2, <2>3, <2>4 DEF Init, TypeOK
<1>2. TypeOK /\ [Next]_vars => TypeOK'
  <2>. SUFFICES ASSUME TypeOK, [Next]_vars PROVE TypeOK'
    OBVIOUS
  <2>. USE DEF TypeOK, chip, handle, update
  <2>e. "power" \in Events /\ "fault" \in Events /\ "update" \in Events /\ "foreign" \in Events
    BY DEF Events
  <2>0. CASE UNCHANGED vars
    BY <2>0 DEF vars
  <2>1. CASE Mount
    BY <2>1 DEF Mount, Goto
  <2>2. CASE OpenFile
    BY <2>2 DEF OpenFile, Goto
  <2>3. CASE Erase
    BY <2>3 DEF Erase, Goto
  <2>4. CASE CopyPiece
    <3>1. file[offset + 1] \in Pieces
      BY <2>4 DEF CopyPiece
    <3>2. flash' \in Seq(Pieces)
      BY <2>4, <3>1, AppendPiece DEF CopyPiece
    <3>. QED  BY <2>4, <3>2 DEF CopyPiece
  <2>5. CASE CopyDone
    BY <2>5 DEF CopyDone, Goto
  <2>6. CASE RemoveFile
    BY <2>6, <1>e DEF RemoveFile, Goto
  <2>7. CASE Jump
    BY <2>7 DEF Jump, Goto
  <2>8. CASE InitStorage
    BY <2>8 DEF InitStorage, Goto
  <2>9. CASE GiveUp
    BY <2>9, <2>e, HappensType DEF GiveUp, Goto
  <2>10. CASE Format
    BY <2>10, <2>e, <1>e, HappensType DEF Format
  <2>11. CASE OpenFails
    BY <2>11, <2>e, HappensType DEF OpenFails, Goto
  <2>12. CASE PowerFail
    BY <2>12, <2>e, HappensType, ForgottenType DEF PowerFail
  <2>13. CASE CreateFile \/ MountFilesystem
    BY <2>13, <1>e DEF CreateFile, MountFilesystem
  <2>14. CASE CreateFails \/ EnablePower
    <3>1. left' \in [Events -> Nat]
      BY <2>14, <2>e, HappensType DEF CreateFails, EnablePower
    <3>. QED  BY <2>14, <3>1, <1>e DEF CreateFails, EnablePower
  <2>15. CASE SetUpdating
    BY <2>15 DEF SetUpdating
  <2>16. CASE RestartClient
    BY <2>16, ImageAssumption DEF RestartClient
  <2>16a. ASSUME NEW contents \in SUBSET Seq(Pieces), Close(contents),
                 UNCHANGED <<flash, offset>>, received' \in 0 .. ImageLength,
                 left' \in [Events -> Nat]
          PROVE  TypeOK'
    <3>1. file' \in Seq(Pieces) /\ exists' \in BOOLEAN /\ content' \in Seq(Pieces)
      BY <2>16a, <1>e DEF Close
    <3>. QED  BY <2>16a, <3>1 DEF Close, Goto
  <2>17. ASSUME NEW piece \in Pieces, NEW full, Receive(piece, full),
                server = "admin" => received + 1 \in 0 .. ImageLength,
                left' \in [Events -> Nat]
         PROVE  TypeOK'
    <3>1. Append(content, piece) \in Seq(Pieces)
      BY AppendPiece
    <3>2. received' \in 0 .. ImageLength /\ UNCHANGED <<flash, offset>>
      BY <2>17 DEF Receive, Counted
    <3>3. CASE is_updating /\ ~full
      BY <2>16a, <2>17, <3>1, <3>2, <3>3 DEF Receive, Finish
    <3>4. CASE ~(is_updating /\ ~full)
      <4>1. exists' \in BOOLEAN /\ file' \in Seq(Pieces) /\ opened' \in BOOLEAN /\ content' \in Seq(Pieces)
        BY <2>17, <3>1, <3>4 DEF Receive, Write
      <4>. QED  BY <2>17, <3>2, <3>4, <4>1 DEF Receive
    <3>. QED  BY <3>3, <3>4
  <2>18. CASE ReceivePiece
    <3>1. received + 1 \in 0 .. ImageLength /\ received + 1 \in Pieces
      BY <2>18, ImageAssumption DEF ReceivePiece, Pieces
    <3>2. PICK full \in BOOLEAN : Receive(received + 1, full)
      BY <2>18 DEF ReceivePiece
    <3>3. left' \in [Events -> Nat]
      BY <2>18 DEF ReceivePiece
    <3>. QED  BY <2>17, <3>1, <3>2, <3>3
  <2>19. CASE ReceivePart
    <3>1. received + 1 \in 0 .. ImageLength
      BY <2>19, ImageAssumption DEF ReceivePart
    <3>2. Receive(Part, FALSE) /\ left' \in [Events -> Nat] /\ Part \in Pieces
      BY <2>19, <2>e, HappensType DEF ReceivePart, Pieces
    <3>. QED  BY <2>17, <3>1, <3>2
  <2>20. CASE ReceiveForeign
    <3>1. server # "admin" /\ left' \in [Events -> Nat] /\ Foreign \in Pieces
      BY <2>20, <2>e, HappensType DEF ReceiveForeign, Pieces
    <3>2. PICK full \in BOOLEAN : Receive(Foreign, full)
      BY <2>20 DEF ReceiveForeign
    <3>. QED  BY <2>17, <3>1, <3>2
  <2>21. CASE WriteFails
    <3>1. received' \in 0 .. ImageLength
      BY <2>21, ImageAssumption DEF WriteFails, Counted
    <3>. QED  BY <2>21, <2>e, <3>1, HappensType DEF WriteFails
  <2>22. CASE LastWriteFails
    <3>1. received' \in 0 .. ImageLength /\ left' \in [Events -> Nat]
      BY <2>22, <2>e, HappensType, ImageAssumption DEF LastWriteFails, Counted
    <3>2. (IF opened THEN {file, content} ELSE {file}) \in SUBSET Seq(Pieces)
      OBVIOUS
    <3>. QED  BY <2>16a, <2>22, <3>1, <3>2 DEF LastWriteFails
  <2>23. CASE Reconnect
    <3>1. received' \in 0 .. ImageLength
      BY <2>23, ImageAssumption DEF Reconnect
    <3>. QED  BY <2>23, <2>e, <3>1, HappensType DEF Reconnect
  <2>24. CASE Reset
    BY <2>24, ForgottenType DEF Reset, Goto
  <2>. QED
    BY <2>0, <2>1, <2>2, <2>3, <2>4, <2>5, <2>6, <2>7, <2>8, <2>9, <2>10, <2>11,
       <2>12, <2>13, <2>14, <2>15, <2>16, <2>18, <2>19, <2>20, <2>21, <2>22, <2>23, <2>24
    DEF Next, BootStep, Request, StartUpdate
<1>. QED  BY <1>1, <1>2, PTL DEF Spec

-----------------------------------------------------------------------------
(* Copying and the refinement.                                             *)

\* What the file, its handle and the flash have to do with each other.
Consistent ==
  /\ CopiedPrefix
  /\ ~exists => file = <<>>
  /\ pc \in {"erase", "copy", "remove"} => exists
  /\ pc = "erase" => offset = 0
  /\ pc \in {"start", "app", "closing"} => flash # <<>>
  /\ opened => Handling /\ exists /\ content \in {<<>>, file}

IInv == TypeOK /\ Consistent

\* One more piece of the file continues the copied beginning.
LEMMA CopyOne ==
  ASSUME file \in Seq(Pieces), offset \in Nat, offset < Len(file),
         flash = SubSeq(file, 1, offset)
  PROVE  Append(flash, file[offset + 1]) = SubSeq(file, 1, offset + 1)
<1>1. SubSeq(file, 1, offset + 1) = Append(SubSeq(file, 1, offset), file[offset + 1])
  BY SMT
<1>. QED  BY <1>1

\* Neither a file nor a copy exists at the start.
LEMMA ConsistentInit ==
  ASSUME Init PROVE Consistent
BY DEF Init, Consistent, CopiedPrefix, Handling

\* Every step of the update, the boot loader and the environment keeps the file, the copy and the handle consistent.
LEMMA ConsistentStep ==
  ASSUME TypeOK, Consistent, [Next]_vars
  PROVE  Consistent'
<1>. USE DEF TypeOK, Consistent, CopiedPrefix, Handling, chip, handle, update
<1>0. CASE UNCHANGED vars
  BY <1>0 DEF vars
<1>1. CASE Mount
  BY <1>1 DEF Mount, Goto
<1>2. CASE OpenFile
  BY <1>2 DEF OpenFile, Goto
<1>3. CASE Erase
  <2>1. flash' = SubSeq(file, 1, 0) /\ offset' = 0 /\ 0 <= Len(file)
    BY <1>3 DEF Erase
  <2>. QED  BY <1>3, <2>1 DEF Erase, Goto
<1>4. CASE CopyPiece
  <2>1. flash' = SubSeq(file, 1, offset + 1) /\ offset + 1 <= Len(file)
    BY <1>4, CopyOne DEF CopyPiece
  <2>. QED  BY <1>4, <2>1 DEF CopyPiece
<1>5. CASE CopyDone
  <2>1. flash = file
    BY <1>5 DEF CopyDone
  <2>. QED  BY <1>5, <2>1 DEF CopyDone, Goto
<1>6. CASE RemoveFile
  BY <1>6 DEF RemoveFile, Goto
<1>7. CASE Jump
  BY <1>7 DEF Jump, Goto, Startable
<1>8. CASE InitStorage
  BY <1>8 DEF InitStorage, Goto
<1>9. CASE GiveUp
  BY <1>9 DEF GiveUp, Goto
<1>10. CASE Format
  BY <1>10 DEF Format
<1>11. CASE OpenFails
  BY <1>11 DEF OpenFails, Goto
<1>12. CASE PowerFail
  BY <1>12 DEF PowerFail, Forgotten
<1>13. CASE CreateFile \/ MountFilesystem
  BY <1>13 DEF CreateFile, MountFilesystem
<1>14. CASE CreateFails \/ EnablePower
  BY <1>14 DEF CreateFails, EnablePower
<1>15. CASE SetUpdating
  BY <1>15 DEF SetUpdating
<1>16. CASE RestartClient
  BY <1>16 DEF RestartClient
<1>17. ASSUME NEW piece, NEW full, Receive(piece, full)
       PROVE  Consistent'
  <2>1. CASE is_updating /\ ~full
    BY <1>17, <2>1 DEF Receive, Finish, Close, Goto
  <2>2. CASE ~(is_updating /\ ~full)
    BY <1>17, <2>2 DEF Receive, Write
  <2>. QED  BY <2>1, <2>2
<1>18. CASE ReceivePiece
  BY <1>18, <1>17 DEF ReceivePiece
<1>19. CASE ReceivePart
  BY <1>19, <1>17 DEF ReceivePart
<1>20. CASE ReceiveForeign
  BY <1>20, <1>17 DEF ReceiveForeign
<1>21. CASE WriteFails
  BY <1>21 DEF WriteFails
<1>22. CASE LastWriteFails
  BY <1>22 DEF LastWriteFails, Close, Goto
<1>23. CASE Reconnect
  BY <1>23 DEF Reconnect
<1>24. CASE Reset
  BY <1>24 DEF Reset, Forgotten, Goto
<1>. QED
  BY <1>0, <1>1, <1>2, <1>3, <1>4, <1>5, <1>6, <1>7, <1>8, <1>9, <1>10, <1>11,
     <1>12, <1>13, <1>14, <1>15, <1>16, <1>18, <1>19, <1>20, <1>21, <1>22, <1>23, <1>24
  DEF Next, BootStep, Request, StartUpdate

\* After any number of resets and failures the flash holds a prefix of the file that is
\* copied, and what the board writes through its handle is the file.
THEOREM Consistency == Spec => []IInv
<1>1. Init => Consistent
  BY ConsistentInit
<1>2. TypeOK /\ Consistent /\ [Next]_vars => Consistent'
  BY ConsistentStep
<1>. QED  BY <1>1, <1>2, Typing, PTL DEF Spec, IInv

\* The boot loader's copy is the beginning of the file, and all of it when the
\* file is removed.
THEOREM Copying == Spec => []CopiedPrefix
<1>1. IInv => CopiedPrefix
  BY DEF IInv, Consistent
<1>. QED  BY <1>1, Consistency, PTL

-----------------------------------------------------------------------------
(* The refinement.                                                         *)

\* At the start the firmware in the flash is next.
LEMMA SlotStart ==
  ASSUME Init PROVE Slot!SlotInit
BY DEF Init, Slot!SlotInit, running, hidden, Handling

\* Each step is a step of the slot, or leaves it alone.
LEMMA SlotStep ==
  ASSUME TypeOK, Consistent, [Next]_vars
  PROVE  [Slot!SlotNext]_(Slot!slot)
<1>. USE DEF Consistent, CopiedPrefix, Handling, chip, handle, update, nextFirmware, running, hidden
<1>p. ASSUME pc' = "boot", UNCHANGED <<exists, file, flash>>
      PROVE  Slot!PowerFail
  BY <1>p DEF Slot!PowerFail, Slot!Stop
<1>s. ASSUME UNCHANGED nextFirmware, UNCHANGED running, UNCHANGED hidden
      PROVE  UNCHANGED Slot!slot
  BY <1>s DEF Slot!slot
<1>l. ASSUME Happens("fault"), ~Handling, ~Handling', left \in [Events -> Nat]
      PROVE  Slot!Lose
  <2>1. left'["fault"] # left["fault"]
    BY <1>l DEF Happens, Events
  <2>. QED  BY <1>l, <2>1 DEF Slot!Lose
<1>0. CASE UNCHANGED vars
  BY <1>0, <1>s DEF vars
<1>1. CASE Mount
  BY <1>1, <1>s DEF Mount, Goto
<1>2. CASE OpenFile
  BY <1>2, <1>s DEF OpenFile, Goto
<1>3. CASE Erase
  BY <1>3, <1>s DEF Erase, Goto
<1>4. CASE CopyPiece
  BY <1>4, <1>s DEF CopyPiece
<1>5. CASE CopyDone
  BY <1>5, <1>s DEF CopyDone, Goto
<1>6. CASE RemoveFile
  BY <1>6, <1>s DEF RemoveFile, Goto
<1>7. CASE Jump
  <2>1. CASE Startable
    BY <1>7, <2>1, <1>s DEF Jump, Goto
  <2>2. CASE ~Startable
    <3>1. Slot!PowerFail
      BY <1>7, <2>2 DEF Jump, Goto, Slot!PowerFail, Slot!Stop
    <3>. QED  BY <3>1 DEF Slot!SlotNext
  <2>. QED  BY <2>1, <2>2
<1>8. CASE InitStorage
  <2>1. Slot!Start
    BY <1>8 DEF InitStorage, Goto, Slot!Start
  <2>. QED  BY <2>1 DEF Slot!SlotNext
<1>9. CASE GiveUp
  BY <1>9, <1>l DEF GiveUp, Goto, TypeOK, Slot!SlotNext
<1>10. CASE Format
  BY <1>10, <1>l DEF Format, TypeOK, Slot!SlotNext
<1>11. CASE OpenFails
  BY <1>11, <1>l DEF OpenFails, Goto, TypeOK, Slot!SlotNext
<1>12. CASE PowerFail
  BY <1>12, <1>p DEF PowerFail, Slot!SlotNext
<1>13. CASE CreateFile
  <2>1. CASE exists
    BY <1>13, <2>1, <1>s DEF CreateFile
  <2>2. CASE ~exists
    <3>1. Slot!Receive
      BY <1>13, <2>2 DEF CreateFile, Slot!Receive
    <3>. QED  BY <3>1 DEF Slot!SlotNext
  <2>. QED  BY <2>1, <2>2
<1>14. CASE CreateFails \/ EnablePower \/ MountFilesystem
  BY <1>14, <1>s DEF CreateFails, EnablePower, MountFilesystem
<1>15. CASE SetUpdating
  BY <1>15, <1>s DEF SetUpdating
<1>16. CASE RestartClient
  BY <1>16, <1>s DEF RestartClient
<1>17. ASSUME NEW piece \in Pieces, NEW full \in BOOLEAN, Receive(piece, full)
       PROVE  [Slot!SlotNext]_(Slot!slot)
  <2>1. ASSUME file' = Append(content, piece), opened, UNCHANGED exists
        PROVE  nextFirmware' \in {<<piece>>, Append(nextFirmware, piece)}
    <3>1. file' \in {<<piece>>, Append(file, piece)}
      <4>1. CASE content = <<>>
        <5>1. Append(<<>>, piece) = <<piece>>
          OBVIOUS
        <5>. QED  BY <2>1, <4>1, <5>1
      <4>2. CASE content = file
        BY <2>1, <4>2
      <4>. QED  BY <2>1, <4>1, <4>2
    <3>. QED  BY <2>1, <3>1
  <2>2. CASE is_updating /\ ~full
    <3>1. UNCHANGED <<exists, flash>> /\ pc = "app" /\ pc' = "closing"
      BY <1>17, <2>2 DEF Receive, Finish, Close, Goto
    <3>2. CASE opened
      <4>1. nextFirmware' \in {<<piece>>, Append(nextFirmware, piece)}
        BY <1>17, <2>1, <2>2, <3>1, <3>2 DEF Receive, Finish, Close
      <4>2. Slot!Receive
        BY <3>1, <4>1 DEF Slot!Receive
      <4>. QED  BY <4>2 DEF Slot!SlotNext
    <3>3. CASE ~opened
      <4>1. file' = file
        BY <1>17, <2>2, <3>3 DEF Receive, Finish, Close
      <4>. QED  BY <3>1, <4>1, <1>s
    <3>. QED  BY <3>2, <3>3
  <2>3. CASE is_updating /\ full /\ opened
    <3>1. file' = Append(content, piece) /\ UNCHANGED <<exists, flash, pc>> /\ pc = "app"
      BY <1>17, <2>3 DEF Receive, Write
    <3>2. Slot!Receive
      BY <2>1, <2>3, <3>1 DEF Slot!Receive
    <3>. QED  BY <3>2 DEF Slot!SlotNext
  <2>4. CASE ~(is_updating /\ ~full) /\ ~(is_updating /\ full /\ opened)
    <3>1. UNCHANGED <<exists, file, flash, pc>>
      BY <1>17, <2>4 DEF Receive, Write
    <3>. QED  BY <3>1, <1>s
  <2>. QED  BY <2>2, <2>3, <2>4
<1>18. CASE ReceivePiece
  <2>1. received + 1 \in Pieces
    BY <1>18, ImageAssumption DEF ReceivePiece, Pieces, TypeOK
  <2>2. PICK full \in BOOLEAN : Receive(received + 1, full)
    BY <1>18 DEF ReceivePiece
  <2>. QED  BY <2>1, <2>2, <1>17
<1>19. CASE ReceivePart
  BY <1>19, <1>17 DEF ReceivePart, Pieces
<1>20. CASE ReceiveForeign
  BY <1>20, <1>17 DEF ReceiveForeign, Pieces
<1>21. CASE WriteFails
  BY <1>21, <1>s DEF WriteFails
<1>22. CASE LastWriteFails
  <2>1. UNCHANGED <<exists, flash>> /\ pc = "app" /\ pc' = "closing" /\ (opened => exists)
    BY <1>22 DEF LastWriteFails, Close, Goto
  <2>2. file' = file \/ (opened /\ file' = <<>>)
    BY <1>22 DEF LastWriteFails, Close
  <2>3. CASE file' = file
    BY <2>1, <2>3, <1>s
  <2>4. CASE opened /\ file' = <<>>
    <3>1. running # <<>> /\ running' = running /\ hidden' = hidden
      BY <2>1
    <3>2. nextFirmware' = <<>>
      BY <2>1, <2>4
    <3>3. Slot!Receive
      BY <3>1, <3>2 DEF Slot!Receive
    <3>. QED  BY <3>3 DEF Slot!SlotNext
  <2>. QED  BY <2>2, <2>3, <2>4
<1>23. CASE Reconnect
  BY <1>23, <1>s DEF Reconnect
<1>24. CASE Reset
  BY <1>24, <1>p DEF Reset, Goto, Slot!SlotNext
<1>. QED
  BY <1>0, <1>1, <1>2, <1>3, <1>4, <1>5, <1>6, <1>7, <1>8, <1>9, <1>10, <1>11,
     <1>12, <1>13, <1>14, <1>15, <1>16, <1>18, <1>19, <1>20, <1>21, <1>22, <1>23, <1>24
  DEF Next, BootStep, Request, StartUpdate

\* The update implements the slot: the firmware that runs is one that was next
\* when it started.
THEOREM Refinement == Spec => ImplementsSlot
<1>1. Init => Slot!SlotInit
  BY SlotStart
<1>2. IInv /\ [Next]_vars => [Slot!SlotNext]_(Slot!slot)
  BY SlotStep DEF IInv
<1>. QED  BY <1>1, <1>2, Consistency, PTL DEF Spec, ImplementsSlot, Slot!SlotSpec
-----------------------------------------------------------------------------
(* The order of the pieces.                                                *)

Requests == Limit["update"] - left["update"]

\* What is stored once the client is with the administrator's server.
Stored ==
  /\ is_updating /\ handler = "idle"
  /\ received > 0 => exists /\ file = SubSeq(Image, 1, received)
  /\ pc = "app" => opened /\ exists /\ content = SubSeq(Image, 1, received)
  /\ pc = "closing" => received = ImageLength

\* An undisturbed request goes through the handler once; only when it is done
\* does the client change its server, with the file open and the flag set.
OrderInv ==
  /\ \A event \in Events : left[event] <= Limit[event]
  /\ ~Handling => server = "node" /\ ~is_updating /\ handler = "idle"
  /\ Undisturbed =>
       /\ Requests = 0 => handler = "idle" /\ ~is_updating /\ server = "node"
       /\ handler \in {"powered", "mounted"} => ~is_updating
       /\ handler # "asleep"
       /\ handler \in {"created", "flagged"} => opened /\ exists /\ content = <<>>
       /\ handler = "flagged" => is_updating
       /\ is_updating => handler \in {"idle", "flagged"}
       /\ server = "admin" => Stored
       /\ pc = "closing" => server = "admin"

\* One more piece continues the beginning of the image.
LEMMA NextPiece ==
  ASSUME NEW n \in Nat, n < ImageLength
  PROVE  Append(SubSeq(Image, 1, n), n + 1) = SubSeq(Image, 1, n + 1)
<1>1. Image \in Seq(Nat) /\ Len(Image) = ImageLength /\ Image[n + 1] = n + 1
  BY ImageAssumption DEF Image
<1>2. SubSeq(Image, 1, n + 1) = Append(SubSeq(Image, 1, n), Image[n + 1])
  BY <1>1, SMT
<1>. QED  BY <1>1, <1>2

\* Only an event of its kind uses up what is left of it.
LEMMA Used ==
  ASSUME TypeOK, OrderInv, NEW event \in Events, Happens(event)
  PROVE  /\ \A e \in Events : left'[e] <= Limit[e]
         /\ event \in {"fault", "foreign"} => ~Undisturbed'
         /\ event \in {"power", "update"} => (Undisturbed' => Undisturbed)
         /\ event = "power" => (Undisturbed' => Requests' = Requests)
         /\ event = "update" => Requests' = Requests + 1
<1>1. /\ left \in [Events -> Nat] /\ Limit \in [Events -> Nat]
      /\ \A e \in Events : left[e] <= Limit[e]
  BY LimitAssumption DEF TypeOK, OrderInv
<1>2. \A e \in Events : left'[e] = IF e = event THEN left[e] - 1 ELSE left[e]
  BY <1>1 DEF Happens
<1>3. Limit["update"] \in Nat /\ left["update"] \in Nat
  BY <1>1 DEF Events
<1>4. \A e \in Events : left'[e] <= Limit[e]
  BY <1>1, <1>2
<1>5. ASSUME event \in {"fault", "foreign"} PROVE ~Undisturbed'
  BY <1>1, <1>2, <1>5 DEF Undisturbed, Events
<1>6. ASSUME event \in {"power", "update"}, Undisturbed' PROVE Undisturbed
  BY <1>1, <1>2, <1>3, <1>6 DEF Undisturbed, Events
<1>7. ASSUME event = "power" PROVE Requests' = Requests
  BY <1>2, <1>3, <1>7 DEF Requests, Events
<1>8. ASSUME event = "update" PROVE Requests' = Requests + 1
  BY <1>2, <1>3, <1>8 DEF Requests, Events
<1>. QED  BY <1>4, <1>5, <1>6, <1>7, <1>8

\* A step that leaves the events alone leaves undisturbed what was.
LEMMA Unused ==
  ASSUME OrderInv, UNCHANGED left
  PROVE  /\ \A e \in Events : left'[e] <= Limit[e]
         /\ Undisturbed' = Undisturbed
         /\ Requests' = Requests
BY DEF OrderInv, Undisturbed, Requests

\* No step of either task, and none of the environment that is undisturbed,
\* stores a piece out of order.
LEMMA OrderStep ==
  ASSUME TypeOK, Consistent, OrderInv, [Next]_vars
  PROVE  OrderInv'
<1>. DEFINE Within == \A event \in Events : left'[event] <= Limit[event]
<1>. USE DEF chip, handle, update
<1>e. "power" \in Events /\ "fault" \in Events /\ "update" \in Events /\ "foreign" \in Events
  BY DEF Events
<1>f. ASSUME Happens("fault") \/ Happens("foreign"),
             ~Handling' => server' = "node" /\ ~is_updating' /\ handler' = "idle"
      PROVE  OrderInv'
  <2>1. Within /\ ~Undisturbed'
    BY <1>e, <1>f, Used
  <2>. QED  BY <1>f, <2>1 DEF OrderInv
<1>r. ASSUME Forgotten, ~Handling', Within
      PROVE  OrderInv'
  BY <1>r DEF OrderInv, Forgotten, Handling
<1>k. ASSUME UNCHANGED <<update, left>>, ~Handling, pc' # "closing"
      PROVE  OrderInv'
  <2>1. Within /\ Undisturbed' = Undisturbed /\ Requests' = Requests
    BY <1>k, Unused
  <2>. QED  BY <1>k, <2>1 DEF OrderInv
<1>1. CASE Mount \/ OpenFile \/ Erase \/ CopyPiece \/ CopyDone \/ RemoveFile \/ Jump \/ InitStorage
  BY <1>1, <1>k
  DEF Mount, OpenFile, Erase, CopyPiece, CopyDone, RemoveFile, Jump, InitStorage, Goto, Handling
<1>2. CASE GiveUp \/ Format \/ OpenFails
  <2>1. UNCHANGED update /\ ~Handling /\ ~Handling' /\ Happens("fault")
    BY <1>2 DEF GiveUp, Format, OpenFails, Goto, Handling
  <2>. QED  BY <2>1, <1>f DEF OrderInv
<1>3. CASE PowerFail
  <2>1. Within
    BY <1>e, <1>3, Used DEF PowerFail
  <2>. QED  BY <1>3, <1>r, <2>1 DEF PowerFail, Handling
<1>4. CASE Reset
  <2>1. Within
    BY <1>4, Unused DEF Reset
  <2>. QED  BY <1>4, <1>r, <2>1 DEF Reset, Goto, Handling
<1>5. CASE EnablePower
  <2>1. Within /\ (Undisturbed' => Undisturbed) /\ Requests' = Requests + 1
    BY <1>e, <1>5, Used DEF EnablePower
  <2>2. Handling /\ Handling' /\ handler' = "powered"
    BY <1>5 DEF EnablePower, Handling
  <2>3. ASSUME Undisturbed'
        PROVE  ~is_updating /\ server = "node" /\ Requests' # 0
    <3>1. Requests' <= 1 /\ Requests \in Int /\ Requests >= 0
      BY <2>3, LimitAssumption, <1>e DEF Undisturbed, Requests, TypeOK, OrderInv
    <3>2. Requests = 0 /\ Undisturbed
      BY <2>1, <2>3, <3>1
    <3>. QED  BY <2>1, <3>2 DEF OrderInv
  <2>4. UNCHANGED <<is_updating, server, pc>>
    BY <1>5 DEF EnablePower
  <2>. QED  BY <2>1, <2>2, <2>3, <2>4 DEF OrderInv
<1>6. CASE MountFilesystem \/ CreateFile \/ SetUpdating \/ RestartClient
  <2>1. Within /\ Undisturbed' = Undisturbed /\ Requests' = Requests
    BY <1>6, Unused DEF MountFilesystem, CreateFile, SetUpdating, RestartClient
  <2>2. handler # "idle" /\ Handling /\ Handling' /\ pc' = pc
    BY <1>6 DEF MountFilesystem, CreateFile, SetUpdating, RestartClient, OrderInv, Handling
  <2>3. Undisturbed => server # "admin" /\ pc # "closing" /\ Requests # 0
    BY <2>2 DEF OrderInv, Stored
  <2>4. CASE MountFilesystem
    BY <2>1, <2>2, <2>3, <2>4 DEF MountFilesystem, OrderInv
  <2>5. CASE CreateFile
    BY <2>1, <2>2, <2>3, <2>5 DEF CreateFile, OrderInv
  <2>6. CASE SetUpdating
    BY <2>1, <2>2, <2>3, <2>6 DEF SetUpdating, OrderInv
  <2>7. CASE RestartClient
    <3>1. SubSeq(Image, 1, 0) = <<>>
      OBVIOUS
    <3>2. Undisturbed' => Stored'
      BY <2>1, <2>2, <2>3, <2>7, <3>1 DEF RestartClient, OrderInv, Stored
    <3>. QED  BY <2>1, <2>2, <2>3, <2>7, <3>2 DEF RestartClient, OrderInv
  <2>. QED  BY <1>6, <2>4, <2>5, <2>6, <2>7
<1>7. CASE CreateFails
  <2>1. Handling /\ Handling' /\ UNCHANGED <<is_updating, server, pc>> /\ handler' = "created"
    BY <1>7 DEF CreateFails, Handling
  <2>2. CASE Happens("fault")
    BY <2>1, <2>2, <1>f
  <2>3. CASE UNCHANGED left /\ handler = "asleep"
    <3>1. Within /\ ~Undisturbed'
      BY <2>3, Unused DEF OrderInv
    <3>. QED  BY <2>1, <3>1 DEF OrderInv
  <2>. QED  BY <1>7, <2>2, <2>3 DEF CreateFails
<1>8. CASE ReceivePart \/ ReceiveForeign \/ WriteFails \/ LastWriteFails \/ Reconnect
  <2>1. Happens("fault") \/ Happens("foreign")
    BY <1>8 DEF ReceivePart, ReceiveForeign, WriteFails, LastWriteFails, Reconnect
  <2>2. Handling'
    BY <1>8 DEF ReceivePart, ReceiveForeign, WriteFails, LastWriteFails, Reconnect,
                Receive, Finish, Close, Goto, Handling
  <2>. QED  BY <2>1, <2>2, <1>f
<1>9. CASE ReceivePiece
  <2>1. PICK full \in BOOLEAN : /\ received + 1 < ImageLength => full
                                /\ Receive(received + 1, full)
    BY <1>9 DEF ReceivePiece
  <2>2. /\ Within /\ Undisturbed' = Undisturbed /\ Requests' = Requests
        /\ server = "admin" /\ received < ImageLength /\ received \in Nat
    BY <1>9, Unused, ImageAssumption DEF ReceivePiece, TypeOK
  <2>3. received' = received + 1 /\ pc = "app"
    BY <2>1, <2>2 DEF Receive, Counted
  <2>4. ASSUME Undisturbed
        PROVE  /\ is_updating /\ handler = "idle" /\ opened /\ exists
               /\ Append(content, received + 1) = SubSeq(Image, 1, received + 1)
    <3>1. /\ is_updating /\ handler = "idle" /\ opened /\ exists
          /\ content = SubSeq(Image, 1, received)
      BY <2>2, <2>3, <2>4 DEF OrderInv, Stored
    <3>. QED  BY <2>2, <3>1, NextPiece
  <2>5. Handling'
    BY <2>1 DEF Receive, Finish, Close, Goto, Handling
  <2>6. ASSUME Undisturbed
        PROVE  server' = "admin" /\ is_updating' /\ Stored' /\ handler' = "idle"
    <3>1. CASE full
      <4>1. /\ pc' = "app" /\ UNCHANGED <<is_updating, handler, server, exists, opened>>
            /\ content' = SubSeq(Image, 1, received') /\ file' = content'
        BY <2>1, <2>3, <2>4, <2>6, <3>1 DEF Receive, Write
      <4>. QED  BY <2>2, <2>4, <2>6, <4>1 DEF Stored
    <3>2. CASE ~full
      <4>1. received' = ImageLength
        BY <2>1, <2>2, <2>3, <3>2, ImageAssumption
      <4>2. /\ pc' = "closing" /\ UNCHANGED <<is_updating, handler, server, exists>>
            /\ file' = SubSeq(Image, 1, received')
        BY <2>1, <2>3, <2>4, <2>6, <3>2 DEF Receive, Finish, Close, Goto
      <4>. QED  BY <2>2, <2>4, <2>6, <4>1, <4>2 DEF Stored
    <3>. QED  BY <3>1, <3>2
  <2>7. Undisturbed => Requests # 0
    BY <2>2 DEF OrderInv
  <2>. QED  BY <2>2, <2>5, <2>6, <2>7 DEF OrderInv
<1>10. CASE UNCHANGED vars
  <2>1. Within /\ Undisturbed' = Undisturbed /\ Requests' = Requests
    BY <1>10, Unused DEF vars
  <2>. QED  BY <1>10, <2>1 DEF vars, OrderInv, Stored, Handling
<1>. QED
  BY <1>1, <1>2, <1>3, <1>4, <1>5, <1>6, <1>7, <1>8, <1>9, <1>10
  DEF Next, BootStep, Request, StartUpdate

\* An update that only the scheduling and power failures disturb stores the
\* pieces in order, whatever their number, and the board resets itself only
\* for the complete image.
THEOREM Order == Spec => []ReceivedInOrder
<1>1. Init => OrderInv
  <2>1. SUFFICES ASSUME Init PROVE OrderInv
    OBVIOUS
  <2>2. \A event \in Events : left[event] <= Limit[event]
    BY <2>1, LimitAssumption DEF Init
  <2>. QED  BY <2>1, <2>2 DEF Init, OrderInv, Handling
<1>2. IInv /\ OrderInv /\ [Next]_vars => OrderInv'
  BY OrderStep DEF IInv
<1>3. OrderInv => ReceivedInOrder
  <2>1. SUFFICES ASSUME OrderInv, Undisturbed
                 PROVE  /\ server = "admin" /\ received > 0 =>
                             exists /\ file = SubSeq(Image, 1, received)
                        /\ pc = "closing" => exists /\ file = Image
    BY DEF ReceivedInOrder
  <2>2. server = "admin" => Stored
    BY <2>1 DEF OrderInv
  <2>3. CASE pc = "closing"
    <3>1. Stored /\ received = ImageLength /\ ImageLength > 0
      BY <2>1, <2>2, <2>3, ImageAssumption DEF OrderInv, Stored
    <3>2. SubSeq(Image, 1, ImageLength) = Image
      BY ImageAssumption DEF Image
    <3>. QED  BY <2>2, <3>1, <3>2 DEF Stored
  <2>. QED  BY <2>2, <2>3 DEF Stored
<1>. QED  BY <1>1, <1>2, <1>3, Consistency, PTL DEF Spec
=============================================================================
