----------------------------- MODULE NodeRouter -----------------------------
(***************************************************************************)
(* What node.c promises its callers, without buffers, queues or handles.   *)
(* Messages of the board join an agenda.  TCP messages wait in an inbox    *)
(* until they are forwarded to the agenda or discarded, in their order of  *)
(* arrival.  Every message of the agenda is routed once, first in first    *)
(* out, and with the text it was accepted with.                            *)
(***************************************************************************)
EXTENDS Sequences, NodeMessages

VARIABLES inbox,    \* accepted TCP messages
          agenda,   \* node messages to route
          out       \* the latest effect on the outside

rvars == <<inbox, agenda, out>>

RInit == inbox = <<>> /\ agenda = <<>> /\ out = Nowhere

\* node_send_msg succeeds.
AcceptBoard(m) == agenda' = Append(agenda, m) /\ UNCHANGED <<inbox, out>>

\* node_receive_tcp_msg succeeds.
AcceptTcp(t) == inbox' = Append(inbox, t) /\ UNCHANGED <<agenda, out>>

\* A parsed TCP message becomes a node message.
Forward ==
  /\ inbox # <<>>
  /\ Head(inbox) # Garbled
  /\ agenda' = Append(agenda, Head(inbox))
  /\ inbox' = Tail(inbox)
  /\ UNCHANGED out

\* A TCP message is dropped: garbled, or no buffer is free for it.
Discard == inbox # <<>> /\ inbox' = Tail(inbox) /\ UNCHANGED <<agenda, out>>

Route ==
  /\ agenda # <<>>
  /\ out' = Effect(Head(agenda))
  /\ agenda' = Tail(agenda)
  /\ UNCHANGED inbox

RNext ==
  \/ \E m \in BoardMessages : AcceptBoard(m)
  \/ \E t \in Texts : AcceptTcp(t)
  \/ Forward \/ Discard \/ Route

RouterSpec == RInit /\ [][RNext]_rvars
=============================================================================
