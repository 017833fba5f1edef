----------------------------- MODULE MCNodeTask -----------------------------
(***************************************************************************)
(* Two-slot pools, the two callers the firmware has, and one message per   *)
(* branch of the dispatcher.                                               *)
(***************************************************************************)
EXTENDS NodeTask

Message(source, dest, cmd) == [source |-> source, dest |-> dest, cmd |-> cmd]

OwnMessage      == Message("T01", {"B01"}, "UPDATE_DOOR_STATE")
VersionRequest  == Message("B01", {"T01"}, "REQUEST_VERSION")
UpdateHere      == Message("B01", {"T01"}, "UPDATE_FIRMWARE")
UpdateElsewhere == Message("B01", {"BROADCAST"}, "UPDATE_FIRMWARE")
Command         == Message("B01", {"T01", "B02"}, "SET_MODE")

\* Every branch of Effect.
AllKinds == {OwnMessage, VersionRequest, UpdateHere, UpdateElsewhere, Command}

\* One message of the board, one of the server, and the one whose callback waits.
WithUpdate == {OwnMessage, UpdateHere}
=============================================================================
