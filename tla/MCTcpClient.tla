----------------------------- MODULE MCTcpClient -----------------------------
(***************************************************************************)
(* What the environment may do in each run of the TCP client.  The peer    *)
(* sends data or closes the connection; a fault is a server that vanishes  *)
(* or a cable that is unplugged.                                           *)
(***************************************************************************)
EXTENDS TcpClient

\* Two messages and an update, against two events of the peer and a fault.
FewOfEach == [send |-> 2, update |-> 1, peer |-> 2, fault |-> 1]

\* The peer acts once, and nothing else happens.
PeerOnly == [send |-> 0, update |-> 0, peer |-> 1, fault |-> 0]
==============================================================================
