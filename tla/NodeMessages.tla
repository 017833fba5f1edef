---------------------------- MODULE NodeMessages ----------------------------
(***************************************************************************)
(* The messages nodes exchange (node.type.h) and where the dispatcher of   *)
(* node.c sends each of them.  Payload values are left out: the dispatcher *)
(* looks at the source, the destinations and the command only.             *)
(***************************************************************************)

CONSTANTS NodeId,       \* config.id, the id of this node
          Messages,     \* the node messages that occur
          Garbled,      \* text that node_mapper_deserialize_message rejects
          NoMsg,        \* the content of a buffer nobody has written yet
          Nowhere       \* the effect of a message that is ignored

ASSUME MessagesAssumption ==
  /\ \A m \in Messages : DOMAIN m = {"source", "dest", "cmd"}
  /\ Garbled \notin Messages

\* What a TCP message may carry.
Texts == Messages \cup {Garbled}

\* Extension-board code only ever builds messages with its own id as source.
BoardMessages == {m \in Messages : m.source = NodeId}

ToServer(m) == [to |-> "server", msg |-> m]
ToBoard(m)  == [to |-> "board", msg |-> m]

VersionResponse(m) ==
  [source |-> NodeId, dest |-> {m.source}, cmd |-> "RESPONSE_VERSION"]

\* The one effect of routing m: which callback is called, and with what.
Effect(m) ==
  IF m.source = NodeId               THEN ToServer(m)
  ELSE IF m.cmd = "REQUEST_VERSION"  THEN ToServer(VersionResponse(m))
  ELSE IF /\ m.cmd = "UPDATE_FIRMWARE"
          /\ NodeId \notin m.dest    THEN Nowhere
  ELSE ToBoard(m)

Effects == {Effect(m) : m \in Messages} \cup {Nowhere}
=============================================================================
