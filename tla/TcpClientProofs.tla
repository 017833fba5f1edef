--------------------------- MODULE TcpClientProofs ---------------------------
(***************************************************************************)
(* Theorems about TcpClient, for every number of messages, pieces of data, *)
(* closed connections and cuts.                                            *)
(***************************************************************************)
EXTENDS TcpClient, SequenceTheorems, TLAPS

-----------------------------------------------------------------------------
(* Typing.                                                                 *)

\* An event that happens leaves a natural number of events of each kind.
LEMMA HappensType ==
  ASSUME NEW event \in Events, left \in [Events -> Nat], Happens(event)
  PROVE  left' \in [Events -> Nat]
BY DEF Happens

\* The state tcp_client_init leaves is well typed.
LEMMA TypeInit ==
  ASSUME Init
  PROVE  TypeOK
<1>1. left \in [Events -> Nat]
  BY LimitAssumption DEF Init
<1>2. sent \in Seq(Nat) /\ last \in Nat /\ rx \in Nat
  BY DEF Init
<1>3. is_connected \in BOOLEAN /\ mask \in BOOLEAN /\ link \in BOOLEAN
  BY DEF Init
<1>. QED
  BY <1>1, <1>2, <1>3 DEF Init, TypeOK, Endpoints, Bits, Flags

\* Every step keeps the types.
LEMMA TypeStep ==
  ASSUME TypeOK, [Next]_vars
  PROVE  TypeOK'
<1>. USE DEF TypeOK, Bits, Flags, Endpoints, Events
<1>1. CASE SendCopy
  BY <1>1, HappensType DEF SendCopy, task, chip
<1>2. CASE SendNotify
  BY <1>2 DEF SendNotify, Notify, task, chip
<1>3. CASE StartUpdate
  BY <1>3, HappensType DEF StartUpdate, task, chip
<1>4. CASE RestartCopy
  BY <1>4 DEF RestartCopy, task, chip
<1>5. CASE RestartNotify
  BY <1>5 DEF RestartNotify, Notify, task, chip
<1>6. CASE Start
  BY <1>6 DEF Start, Notify, Goto, callers, chip
<1>7. CASE Wait
  BY <1>7 DEF Wait, Goto, callers, chip
<1>8. CASE Transmit
  <2>1. sent' \in Seq(Nat)
    <3>1. CASE sent' = sent
      BY <3>1
    <3>2. CASE send_msg_buffer # NoMsg /\ sent' = Append(sent, send_msg_buffer)
      <4>1. send_msg_buffer \in Nat /\ sent \in Seq(Nat)
        BY <3>2
      <4>. QED
        BY <3>2, <4>1, AppendProperties
    <3>. QED
      BY <1>8, <3>1, <3>2 DEF Transmit
  <2>2. send_msg_buffer' \in Nat \cup {NoMsg} /\ pc' = "get"
    BY <1>8 DEF Transmit, Goto
  <2>3. UNCHANGED <<notification, bits, is_connected, interrupt_kind, server, callers, chip, link, left>>
    BY <1>8 DEF Transmit
  <2>. QED
    BY <2>1, <2>2, <2>3 DEF callers, chip
<1>9. CASE GetInterrupt
  BY <1>9 DEF GetInterrupt, Goto, callers, chip
<1>10. CASE ClearInterrupt
  BY <1>10 DEF ClearInterrupt, Goto, callers
<1>11. CASE Receive
  BY <1>11 DEF Receive, Receiving, Goto, callers
<1>12. CASE ReceiveNothing
  BY <1>12 DEF ReceiveNothing, Receiving, Goto, callers, chip
<1>13. CASE ReceiveLastPart
  BY <1>13 DEF ReceiveLastPart, Receiving
<1>14. CASE Disconnected
  BY <1>14 DEF Disconnected, Goto, callers
<1>15. CASE Initialize
  BY <1>15 DEF Initialize, Goto, Notify, callers
<1>16. CASE Check
  BY <1>16 DEF Check, Goto, callers, chip
<1>17. CASE Connect
  BY <1>17 DEF Connect, Goto, callers
<1>18. CASE ConnectFails
  BY <1>18 DEF ConnectFails, Goto, callers, chip
<1>19. CASE Established
  BY <1>19 DEF Established, Goto, callers
<1>20. CASE Unmask
  BY <1>20 DEF Unmask, Goto, Notify, callers
<1>21. CASE Deliver
  <2>1. left' \in [Events -> Nat]
    BY <1>21, HappensType DEF Deliver
  <2>2. ir' \subseteq Flags /\ notification' \subseteq Bits
    BY <1>21 DEF Deliver, Raise, Notify
  <2>3. rx' \in Nat
    BY <1>21 DEF Deliver
  <2>. QED
    BY <1>21, <2>1, <2>2, <2>3 DEF Deliver, task, callers
<1>22. CASE PeerCloses
  <2>1. left' \in [Events -> Nat]
    BY <1>22, HappensType DEF PeerCloses
  <2>2. ir' \subseteq Flags /\ notification' \subseteq Bits
    BY <1>22 DEF PeerCloses, Raise, Notify
  <2>3. socket' = "CLOSE_WAIT"
    BY <1>22 DEF PeerCloses
  <2>. QED
    BY <1>22, <2>1, <2>2, <2>3 DEF PeerCloses, task, callers
<1>23. CASE PeerVanishes
  BY <1>23, HappensType DEF PeerVanishes, task, callers
<1>24. CASE LinkDown
  <2>1. left' \in [Events -> Nat]
    BY <1>24, HappensType DEF LinkDown
  <2>2. is_connected' \in BOOLEAN /\ mask' \in BOOLEAN /\ link' \in BOOLEAN
    BY <1>24 DEF LinkDown, task, chip
  <2>3. UNCHANGED <<notification, task, send_msg_buffer, callers, chip, sent>>
    BY <1>24 DEF LinkDown
  <2>. QED
    BY <2>1, <2>2, <2>3 DEF task, callers, chip
<1>25. CASE LinkUp
  BY <1>25 DEF LinkUp, task, callers, chip
<1>26. CASE Skip("send", "SEND_MESSAGE" \in bits, "get")
  BY <1>26 DEF Skip, Goto, callers, chip
<1>27. CASE Skip("get", "SOCKET_INTERRUPT" \in bits, "init")
  BY <1>27 DEF Skip, Goto, callers, chip
<1>28. CASE Skip("receive", "SIK_RECEIVED" \in interrupt_kind, "disconnected")
  BY <1>28 DEF Skip, Goto, callers, chip
<1>29. CASE Skip("disconnected", "SIK_DISCONNECTED" \in interrupt_kind, "init")
  BY <1>29 DEF Skip, Goto, callers, chip
<1>30. CASE Skip("init", "INITIALIZATION" \in bits, "check")
  BY <1>30 DEF Skip, Goto, callers, chip
<1>31. CASE UNCHANGED vars
  BY <1>31 DEF vars, task, callers, chip
<1>. QED
  BY <1>1, <1>2, <1>3, <1>4, <1>5, <1>6, <1>7, <1>8, <1>9, <1>10, <1>11, <1>12, <1>13, <1>14, <1>15, <1>16, <1>17, <1>18, <1>19, <1>20, <1>21, <1>22, <1>23, <1>24, <1>25, <1>26, <1>27, <1>28, <1>29, <1>30, <1>31
  DEF Next, SendMessage, Restart, TaskStep

\* Type correctness: every variable keeps its type, whatever the environment does.
THEOREM TypeCorrect == Spec => []TypeOK
<1>1. Init => TypeOK
  BY TypeInit
<1>2. TypeOK /\ [Next]_vars => TypeOK'
  BY TypeStep
<1>. QED
  BY <1>1, <1>2, PTL DEF Spec

-----------------------------------------------------------------------------
(* The endpoint.                                                           *)

\* No request of the board is on its way that the task has not heard of.
Settled == ~InitPending /\ update # "copied"

\* EndpointReached is preserved because a connection being made goes to the
\* endpoint of the time, or to one that a pending restart will replace.
EndpointInv ==
  /\ is_connected /\ Settled => peer = endpoint
  /\ pc \in {"connecting", "unmask"} /\ Settled => server = endpoint
  /\ pc = "unmask" => peer = server
  /\ pc \in {"connect", "connecting", "unmask"} => ~is_connected

\* A new endpoint is copied with a restart pending until it is connected to.
LEMMA EndpointStep ==
  ASSUME TypeOK, EndpointInv, [Next]_vars
  PROVE  EndpointInv'
<1>. USE DEF EndpointInv, Settled, InitPending
<1>1. CASE SendCopy
  BY <1>1 DEF SendCopy, Happens, task, chip
<1>2. CASE SendNotify
  BY <1>2 DEF SendNotify, Notify, task, chip
<1>3. CASE StartUpdate
  BY <1>3 DEF StartUpdate, Happens, task, chip
<1>4. CASE RestartCopy
  BY <1>4 DEF RestartCopy, task, chip
<1>5. CASE RestartNotify
  BY <1>5 DEF RestartNotify, Notify, task, chip
<1>6. CASE Start
  BY <1>6 DEF Start, Notify, Goto, callers, chip
<1>7. CASE Wait
  BY <1>7 DEF Wait, Goto, callers, chip
<1>8. CASE Transmit
  BY <1>8 DEF Transmit, Goto, callers, chip
<1>9. CASE GetInterrupt
  BY <1>9 DEF GetInterrupt, Goto, callers, chip
<1>10. CASE ClearInterrupt
  BY <1>10 DEF ClearInterrupt, Goto, callers
<1>11. CASE Receive
  BY <1>11 DEF Receive, Receiving, Goto, callers
<1>12. CASE ReceiveNothing
  BY <1>12 DEF ReceiveNothing, Receiving, Goto, callers, chip
<1>13. CASE ReceiveLastPart
  BY <1>13 DEF ReceiveLastPart, Receiving
<1>14. CASE Disconnected
  BY <1>14 DEF Disconnected, Goto, callers
<1>15. CASE Initialize
  BY <1>15 DEF Initialize, Goto, Notify, callers
<1>16. CASE Check
  BY <1>16 DEF Check, Goto, callers, chip
<1>17. CASE Connect
  BY <1>17 DEF Connect, Goto, callers
<1>18. CASE ConnectFails
  BY <1>18 DEF ConnectFails, Goto, callers, chip
<1>19. CASE Established
  BY <1>19 DEF Established, Goto, callers
<1>20. CASE Unmask
  BY <1>20 DEF Unmask, Goto, Notify, callers
<1>21. CASE Deliver
  BY <1>21 DEF Deliver, Happens, Raise, Notify, task, callers
<1>22. CASE PeerCloses
  BY <1>22 DEF PeerCloses, Happens, Raise, Notify, task, callers
<1>23. CASE PeerVanishes
  BY <1>23 DEF PeerVanishes, Happens, task, callers
<1>24. CASE LinkDown
  BY <1>24 DEF LinkDown, Happens, task, callers, chip
<1>25. CASE LinkUp
  BY <1>25 DEF LinkUp, task, callers, chip
<1>26. CASE Skip("send", "SEND_MESSAGE" \in bits, "get")
  BY <1>26 DEF Skip, Goto, callers, chip
<1>27. CASE Skip("get", "SOCKET_INTERRUPT" \in bits, "init")
  BY <1>27 DEF Skip, Goto, callers, chip
<1>28. CASE Skip("receive", "SIK_RECEIVED" \in interrupt_kind, "disconnected")
  BY <1>28 DEF Skip, Goto, callers, chip
<1>29. CASE Skip("disconnected", "SIK_DISCONNECTED" \in interrupt_kind, "init")
  BY <1>29 DEF Skip, Goto, callers, chip
<1>30. CASE Skip("init", "INITIALIZATION" \in bits, "check")
  BY <1>30 DEF Skip, Goto, callers, chip
<1>31. CASE UNCHANGED vars
  BY <1>31 DEF vars, task, callers, chip
<1>. QED
  BY <1>1, <1>2, <1>3, <1>4, <1>5, <1>6, <1>7, <1>8, <1>9, <1>10, <1>11, <1>12, <1>13, <1>14, <1>15, <1>16, <1>17, <1>18, <1>19, <1>20, <1>21, <1>22, <1>23, <1>24, <1>25, <1>26, <1>27, <1>28, <1>29, <1>30, <1>31
  DEF Next, SendMessage, Restart, TaskStep

\* The client is connected to the endpoint the board asked for last, unless a
\* restart is still under way: no interleaving of tcp_client_restart with a
\* connection being made leaves it with the old server.
THEOREM EndpointTheorem == Spec => []EndpointReached
<1>1. Init => EndpointInv
  BY DEF Init, EndpointInv, Settled, InitPending
<1>2. TypeOK /\ EndpointInv /\ [Next]_vars => EndpointInv'
  BY EndpointStep
<1>3. EndpointInv => EndpointReached
  BY DEF EndpointInv, Settled, EndpointReached
<1>. QED
  BY <1>1, <1>2, <1>3, TypeCorrect, PTL DEF Spec

-----------------------------------------------------------------------------
(* The interrupt line.                                                     *)

\* The flags stay raised only while the task has them to read.
LEMMA LineStep ==
  ASSUME TypeOK, InterruptLineHeard, [Next]_vars
  PROVE  InterruptLineHeard'
<1>. USE DEF InterruptLineHeard, InitPending
<1>1. CASE SendCopy
  BY <1>1 DEF SendCopy, Happens, task, chip
<1>2. CASE SendNotify
  BY <1>2 DEF SendNotify, Notify, task, chip
<1>3. CASE StartUpdate
  BY <1>3 DEF StartUpdate, Happens, task, chip
<1>4. CASE RestartCopy
  BY <1>4 DEF RestartCopy, task, chip
<1>5. CASE RestartNotify
  BY <1>5 DEF RestartNotify, Notify, task, chip
<1>6. CASE Start
  BY <1>6 DEF Start, Notify, Goto, callers, chip
<1>7. CASE Wait
  BY <1>7 DEF Wait, Goto, callers, chip
<1>8. CASE Transmit
  BY <1>8 DEF Transmit, Goto, callers, chip
<1>9. CASE GetInterrupt
  BY <1>9 DEF GetInterrupt, Goto, callers, chip
<1>10. CASE ClearInterrupt
  BY <1>10 DEF ClearInterrupt, Goto, callers
<1>11. CASE Receive
  BY <1>11 DEF Receive, Receiving, Goto, callers
<1>12. CASE ReceiveNothing
  BY <1>12 DEF ReceiveNothing, Receiving, Goto, callers, chip
<1>13. CASE ReceiveLastPart
  BY <1>13 DEF ReceiveLastPart, Receiving
<1>14. CASE Disconnected
  BY <1>14 DEF Disconnected, Goto, callers
<1>15. CASE Initialize
  BY <1>15 DEF Initialize, Goto, Notify, callers
<1>16. CASE Check
  BY <1>16 DEF Check, Goto, callers, chip
<1>17. CASE Connect
  BY <1>17 DEF Connect, Goto, callers
<1>18. CASE ConnectFails
  BY <1>18 DEF ConnectFails, Goto, callers, chip
<1>19. CASE Established
  BY <1>19 DEF Established, Goto, callers
<1>20. CASE Unmask
  BY <1>20 DEF Unmask, Goto, Notify, callers
<1>21. CASE Deliver
  BY <1>21 DEF Deliver, Happens, Raise, Notify, task, callers
<1>22. CASE PeerCloses
  BY <1>22 DEF PeerCloses, Happens, Raise, Notify, task, callers
<1>23. CASE PeerVanishes
  BY <1>23 DEF PeerVanishes, Happens, task, callers
<1>24. CASE LinkDown
  BY <1>24 DEF LinkDown, Happens, task, callers, chip
<1>25. CASE LinkUp
  BY <1>25 DEF LinkUp, task, callers, chip
<1>26. CASE Skip("send", "SEND_MESSAGE" \in bits, "get")
  BY <1>26 DEF Skip, Goto, callers, chip
<1>27. CASE Skip("get", "SOCKET_INTERRUPT" \in bits, "init")
  BY <1>27 DEF Skip, Goto, callers, chip
<1>28. CASE Skip("receive", "SIK_RECEIVED" \in interrupt_kind, "disconnected")
  BY <1>28 DEF Skip, Goto, callers, chip
<1>29. CASE Skip("disconnected", "SIK_DISCONNECTED" \in interrupt_kind, "init")
  BY <1>29 DEF Skip, Goto, callers, chip
<1>30. CASE Skip("init", "INITIALIZATION" \in bits, "check")
  BY <1>30 DEF Skip, Goto, callers, chip
<1>31. CASE UNCHANGED vars
  BY <1>31 DEF vars, task, callers, chip
<1>. QED
  BY <1>1, <1>2, <1>3, <1>4, <1>5, <1>6, <1>7, <1>8, <1>9, <1>10, <1>11, <1>12, <1>13, <1>14, <1>15, <1>16, <1>17, <1>18, <1>19, <1>20, <1>21, <1>22, <1>23, <1>24, <1>25, <1>26, <1>27, <1>28, <1>29, <1>30, <1>31
  DEF Next, SendMessage, Restart, TaskStep

\* The task never goes deaf: whenever the chip holds its line low, so that no
\* edge can come, the task still has the flags to read or the chip to reset.
THEOREM LineTheorem == Spec => []InterruptLineHeard
<1>1. Init => InterruptLineHeard
  BY DEF Init, InterruptLineHeard, InitPending
<1>2. TypeOK /\ InterruptLineHeard /\ [Next]_vars => InterruptLineHeard'
  BY LineStep
<1>. QED
  BY <1>1, <1>2, TypeCorrect, PTL DEF Spec

-----------------------------------------------------------------------------
(* The messages.                                                           *)

\* A message in the buffer is newer than every message sent, and none is newer
\* than the last one handed over.
SentInv ==
  /\ SentOnce
  /\ \A i \in 1 .. Len(sent) : sent[i] <= last
  /\ send_msg_buffer # NoMsg =>
       /\ send_msg_buffer <= last
       /\ \A i \in 1 .. Len(sent) : sent[i] < send_msg_buffer

\* What is put in the buffer is newer than what was sent.
LEMMA SentStep ==
  ASSUME TypeOK, SentInv, [Next]_vars
  PROVE  SentInv'
<1>. USE DEF SentInv, SentOnce, TypeOK
<1>1. CASE SendCopy
  BY <1>1 DEF SendCopy, Happens, task, chip
<1>2. CASE SendNotify
  BY <1>2 DEF SendNotify, Notify, task, chip
<1>3. CASE StartUpdate
  BY <1>3 DEF StartUpdate, Happens, task, chip
<1>4. CASE RestartCopy
  BY <1>4 DEF RestartCopy, task, chip
<1>5. CASE RestartNotify
  BY <1>5 DEF RestartNotify, Notify, task, chip
<1>6. CASE Start
  BY <1>6 DEF Start, Notify, Goto, callers, chip
<1>7. CASE Wait
  BY <1>7 DEF Wait, Goto, callers, chip
<1>8. CASE Transmit
  <2>1. send_msg_buffer' = NoMsg /\ last' = last
    BY <1>8 DEF Transmit, callers
  <2>2. CASE sent' = sent
    BY <2>1, <2>2
  <2>3. CASE /\ send_msg_buffer # NoMsg
             /\ sent' = Append(sent, send_msg_buffer)
    <3>1. send_msg_buffer \in Nat
      BY <2>3
    <3>2. /\ Len(sent') = Len(sent) + 1
          /\ \A i \in 1 .. Len(sent) : sent'[i] = sent[i]
          /\ sent'[Len(sent) + 1] = send_msg_buffer
      BY <2>3, <3>1, AppendProperties
    <3>3. ASSUME NEW i \in 1 .. Len(sent'), NEW j \in 1 .. Len(sent'), i < j
          PROVE  sent'[i] < sent'[j]
      <4>1. i \in 1 .. Len(sent) /\ (j \in 1 .. Len(sent) \/ j = Len(sent) + 1)
        BY <3>2, <3>3
      <4>. QED
        BY <2>3, <3>2, <3>3, <4>1
    <3>4. \A i \in 1 .. Len(sent') : sent'[i] <= last'
      BY <2>1, <2>3, <3>1, <3>2
    <3>. QED
      BY <2>1, <3>3, <3>4
  <2>. QED
    BY <1>8, <2>2, <2>3 DEF Transmit
<1>9. CASE GetInterrupt
  BY <1>9 DEF GetInterrupt, Goto, callers, chip
<1>10. CASE ClearInterrupt
  BY <1>10 DEF ClearInterrupt, Goto, callers
<1>11. CASE Receive
  BY <1>11 DEF Receive, Receiving, Goto, callers
<1>12. CASE ReceiveNothing
  BY <1>12 DEF ReceiveNothing, Receiving, Goto, callers, chip
<1>13. CASE ReceiveLastPart
  BY <1>13 DEF ReceiveLastPart, Receiving
<1>14. CASE Disconnected
  BY <1>14 DEF Disconnected, Goto, callers
<1>15. CASE Initialize
  BY <1>15 DEF Initialize, Goto, Notify, callers
<1>16. CASE Check
  BY <1>16 DEF Check, Goto, callers, chip
<1>17. CASE Connect
  BY <1>17 DEF Connect, Goto, callers
<1>18. CASE ConnectFails
  BY <1>18 DEF ConnectFails, Goto, callers, chip
<1>19. CASE Established
  BY <1>19 DEF Established, Goto, callers
<1>20. CASE Unmask
  BY <1>20 DEF Unmask, Goto, Notify, callers
<1>21. CASE Deliver
  BY <1>21 DEF Deliver, Happens, Raise, Notify, task, callers
<1>22. CASE PeerCloses
  BY <1>22 DEF PeerCloses, Happens, Raise, Notify, task, callers
<1>23. CASE PeerVanishes
  BY <1>23 DEF PeerVanishes, Happens, task, callers
<1>24. CASE LinkDown
  BY <1>24 DEF LinkDown, Happens, task, callers, chip
<1>25. CASE LinkUp
  BY <1>25 DEF LinkUp, task, callers, chip
<1>26. CASE Skip("send", "SEND_MESSAGE" \in bits, "get")
  BY <1>26 DEF Skip, Goto, callers, chip
<1>27. CASE Skip("get", "SOCKET_INTERRUPT" \in bits, "init")
  BY <1>27 DEF Skip, Goto, callers, chip
<1>28. CASE Skip("receive", "SIK_RECEIVED" \in interrupt_kind, "disconnected")
  BY <1>28 DEF Skip, Goto, callers, chip
<1>29. CASE Skip("disconnected", "SIK_DISCONNECTED" \in interrupt_kind, "init")
  BY <1>29 DEF Skip, Goto, callers, chip
<1>30. CASE Skip("init", "INITIALIZATION" \in bits, "check")
  BY <1>30 DEF Skip, Goto, callers, chip
<1>31. CASE UNCHANGED vars
  BY <1>31 DEF vars, task, callers, chip
<1>. QED
  BY <1>1, <1>2, <1>3, <1>4, <1>5, <1>6, <1>7, <1>8, <1>9, <1>10, <1>11, <1>12, <1>13, <1>14, <1>15, <1>16, <1>17, <1>18, <1>19, <1>20, <1>21, <1>22, <1>23, <1>24, <1>25, <1>26, <1>27, <1>28, <1>29, <1>30, <1>31
  DEF Next, SendMessage, Restart, TaskStep

\* Each message is sent at most once and in the order it was handed over, for
\* any number of messages and any interleaving of the dispatcher and the task.
THEOREM SentTheorem == Spec => []SentOnce
<1>1. Init => SentInv
  BY DEF Init, SentInv, SentOnce
<1>2. TypeOK /\ SentInv /\ [Next]_vars => SentInv'
  BY SentStep
<1>3. SentInv => SentOnce
  BY DEF SentInv
<1>. QED
  BY <1>1, <1>2, <1>3, TypeCorrect, PTL DEF Spec
==============================================================================
