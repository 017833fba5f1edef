------------------------------ MODULE MCFirmware ------------------------------
(***************************************************************************)
(* An image of three pieces: a first, a full one and the last one.         *)
(***************************************************************************)
EXTENDS Firmware

\* Two requests for an update, a message of the old server, two faults and
\* three power failures, one of which may be the way out of bootloader_loop.
FewOfEach == [power |-> 3, fault |-> 2, update |-> 2, foreign |-> 1]
==============================================================================
