------------------------------ MODULE TcpClient ------------------------------
(***************************************************************************)
(* The TCP client of tcp_client.c: the task that owns the socket of the    *)
(* Ethernet chip, the dispatcher that hands it messages, the board that    *)
(* sends it to the administrator's server for a firmware image, and the    *)
(* chip with the network behind it.                                        *)
(*                                                                         *)
(* The chip pulls its interrupt line low while a flag of the socket is     *)
(* raised and not masked; the falling edge alone notifies the task.  A     *)
(* step is the code between two accesses to what others read or write:     *)
(* the notification word, the buffer, the endpoint, the chip.              *)
(*                                                                         *)
(* STOP_NOTIFICATION is left out: its only sender, the callback that gets  *)
(* the last part of an image, resets the board before it returns.          *)
(***************************************************************************)
EXTENDS Integers, Sequences

CONSTANTS Server, Admin,    \* the node's server and the administrator's
          NoMsg,            \* the size of the buffered message is zero
          Limit             \* how often each event of the environment occurs

Events == {"send", "update", "peer", "fault"}

ASSUME ServersAssumption == Server # Admin
ASSUME NoMsgAssumption == NoMsg \notin Nat
ASSUME LimitAssumption == Limit \in [Events -> Nat]

Bits == {"INITIALIZATION", "SOCKET_INTERRUPT", "SEND_MESSAGE"}
Flags == {"SIK_RECEIVED", "SIK_DISCONNECTED"}
Endpoints == {Server, Admin}

VARIABLES notification,     \* pending notification bits of the task
          pc, bits,         \* where the task is and the bits of its round
          is_connected, interrupt_kind, server,     \* its other variables
          send_msg_buffer, endpoint,    \* what the callers leave for it
          caller,           \* progress of the dispatcher in send_message
          update,           \* progress of the board in an update
          socket, peer,     \* state of the socket and the latest peer
          ir, mask,         \* raised flags, and whether they drive the line
          rx,               \* received pieces waiting in the chip
          link,             \* the cable carries a signal
          last, sent,       \* latest message handed over, messages sent
          left              \* events that may still happen

task    == <<pc, bits, is_connected, interrupt_kind, server>>
callers == <<caller, update, endpoint, last>>
chip    == <<socket, peer, ir, mask, rx>>
vars == <<notification, task, send_msg_buffer, callers, chip, link, sent, left>>

-----------------------------------------------------------------------------
Init ==
  /\ notification = {} /\ pc = "start" /\ bits = {}
  /\ is_connected = FALSE /\ interrupt_kind = {} /\ server = Server
  /\ send_msg_buffer = NoMsg /\ endpoint = Server
  /\ caller = "idle" /\ update = "no"
  /\ socket = "CLOSED" /\ peer = Server /\ ir = {} /\ mask \in BOOLEAN /\ rx = 0
  /\ link \in BOOLEAN
  /\ last = 0 /\ sent = <<>> /\ left = Limit

Happens(event) ==
  /\ left[event] > 0
  /\ left' = [left EXCEPT ![event] = @ - 1]

Notify(bit) == notification' = notification \cup {bit}

-----------------------------------------------------------------------------
(* The dispatcher: tcp_client_send_message.                                *)

\* The message is copied under the mutex, over one that still waits.
SendCopy ==
  /\ caller = "idle"
  /\ Happens("send")
  /\ last' = last + 1
  /\ send_msg_buffer' = last + 1
  /\ caller' = "notify"
  /\ UNCHANGED <<notification, task, update, endpoint, chip, link, sent>>

SendNotify ==
  /\ caller = "notify"
  /\ Notify("SEND_MESSAGE")
  /\ caller' = "idle"
  /\ UNCHANGED <<task, send_msg_buffer, update, endpoint, last, chip, link, sent, left>>

\* Mutant: the task is notified before the message is copied.
MutantNotifyFirst ==
  /\ caller = "idle"
  /\ Happens("send")
  /\ Notify("SEND_MESSAGE")
  /\ caller' = "notify"
  /\ UNCHANGED <<task, send_msg_buffer, update, endpoint, last, chip, link, sent>>

MutantCopyLast ==
  /\ caller = "notify"
  /\ last' = last + 1
  /\ send_msg_buffer' = last + 1
  /\ caller' = "idle"
  /\ UNCHANGED <<notification, task, update, endpoint, chip, link, sent, left>>

MutantSendMessage == MutantNotifyFirst \/ MutantCopyLast

SendMessage == SendCopy \/ SendNotify

-----------------------------------------------------------------------------
(* The board: the message UPDATE_FIRMWARE, and tcp_client_restart.         *)

is_updating == update # "no"

StartUpdate ==
  /\ update \in {"no", "notified"}
  /\ Happens("update")
  /\ update' = "started"
  /\ UNCHANGED <<notification, task, send_msg_buffer, caller, endpoint, last, chip, link, sent>>

RestartCopy ==
  /\ update = "started"
  /\ endpoint' = Admin
  /\ update' = "copied"
  /\ UNCHANGED <<notification, task, send_msg_buffer, caller, last, chip, link, sent, left>>

RestartNotify ==
  /\ update = "copied"
  /\ Notify("INITIALIZATION")
  /\ update' = "notified"
  /\ UNCHANGED <<task, send_msg_buffer, caller, endpoint, last, chip, link, sent, left>>

\* Mutant: the task is notified before the endpoint is replaced.
MutantRestart ==
  \/ /\ update = "started"
     /\ Notify("INITIALIZATION")
     /\ update' = "copied"
     /\ UNCHANGED <<task, send_msg_buffer, caller, endpoint, last, chip, link, sent, left>>
  \/ /\ update = "copied"
     /\ endpoint' = Admin
     /\ update' = "notified"
     /\ UNCHANGED <<notification, task, send_msg_buffer, caller, last, chip, link, sent, left>>

Restart == RestartCopy \/ RestartNotify

-----------------------------------------------------------------------------
(* tcp_client_task, one round from Wait to Wait.                           *)

Goto(label) == pc' = label

Start ==
  /\ pc = "start"
  /\ send_msg_buffer' = NoMsg
  /\ is_connected' = FALSE
  /\ Notify("INITIALIZATION")
  /\ Goto("wait")
  /\ UNCHANGED <<bits, interrupt_kind, server, callers, chip, link, sent, left>>

\* A notification arrived, or 30 seconds passed without one.
Wait ==
  /\ pc = "wait"
  /\ bits' = notification
  /\ notification' = {}
  /\ Goto("send")
  /\ UNCHANGED <<is_connected, interrupt_kind, server, send_msg_buffer, callers, chip, link, sent, left>>

\* Mutant: the size of the message is not reset.
MutantTransmit ==
  /\ pc = "send" /\ "SEND_MESSAGE" \in bits
  /\ \/ /\ send_msg_buffer # NoMsg /\ socket # "CLOSED"
        /\ sent' = Append(sent, send_msg_buffer)
     \/ sent' = sent
  /\ Goto("get")
  /\ UNCHANGED <<notification, bits, is_connected, interrupt_kind, server, send_msg_buffer, callers, chip, link, left>>

\* send fails on an empty message or a closed socket, or when the chip is busy;
\* the message is dropped in either case.
Transmit ==
  /\ pc = "send" /\ "SEND_MESSAGE" \in bits
  /\ \/ /\ send_msg_buffer # NoMsg /\ socket # "CLOSED"
        /\ sent' = Append(sent, send_msg_buffer)
     \/ sent' = sent
  /\ send_msg_buffer' = NoMsg
  /\ Goto("get")
  /\ UNCHANGED <<notification, bits, is_connected, interrupt_kind, server, callers, chip, link, left>>

\* The condition of a branch is false and the round goes on behind it.
Skip(label, condition, next) ==
  /\ pc = label /\ ~condition
  /\ Goto(next)
  /\ UNCHANGED <<notification, bits, is_connected, interrupt_kind, server, send_msg_buffer, callers, chip, link, sent, left>>

GetInterrupt ==
  /\ pc = "get" /\ "SOCKET_INTERRUPT" \in bits
  /\ interrupt_kind' = ir
  /\ Goto("clear")
  /\ UNCHANGED <<notification, bits, is_connected, server, send_msg_buffer, callers, chip, link, sent, left>>

\* Mutant: only the flags that were read are cleared.
MutantClearInterrupt ==
  /\ pc = "clear"
  /\ ir' = ir \ interrupt_kind
  /\ Goto("receive")
  /\ UNCHANGED <<notification, bits, is_connected, interrupt_kind, server, send_msg_buffer, callers, socket, peer, mask, rx, link, sent, left>>

\* Both flags are cleared, the ones raised since GetInterrupt included.
ClearInterrupt ==
  /\ pc = "clear"
  /\ ir' = {}
  /\ Goto("receive")
  /\ UNCHANGED <<notification, bits, is_connected, interrupt_kind, server, send_msg_buffer, callers, socket, peer, mask, rx, link, sent, left>>

Receiving == pc = "receive" /\ "SIK_RECEIVED" \in interrupt_kind

\* A read takes at most 128 bytes and may leave the rest in the chip; the
\* callback's result is only logged.
Receive ==
  /\ Receiving
  /\ rx > 0
  /\ \E rest \in 0 .. (rx - 1) : rx' = rest
  /\ Goto("disconnected")
  /\ UNCHANGED <<notification, bits, is_connected, interrupt_kind, server, send_msg_buffer, callers, socket, peer, ir, mask, link, sent, left>>

\* Data announced by a flag may have been read in an earlier round.  Nobody
\* changes the blocking mode of the socket, so recv then waits for more and
\* fails only when the connection is gone.
ReceiveNothing ==
  /\ Receiving
  /\ rx = 0
  /\ socket # "ESTABLISHED"
  /\ Goto("disconnected")
  /\ UNCHANGED <<notification, bits, is_connected, interrupt_kind, server, send_msg_buffer, callers, chip, link, sent, left>>

\* The last part of an image: the callback disconnects and resets the
\* controller, not the chip.
ReceiveLastPart ==
  /\ Receiving
  /\ rx > 0
  /\ is_updating
  /\ socket' = "CLOSED"
  /\ ir' \in {ir, ir \cup {"SIK_DISCONNECTED"}}
  /\ rx' = 0
  /\ notification' = {} /\ pc' = "start" /\ bits' = {} /\ interrupt_kind' = {}
  /\ is_connected' = FALSE /\ server' = Server /\ send_msg_buffer' = NoMsg
  /\ caller' = "idle" /\ update' = "no" /\ endpoint' = Server
  /\ UNCHANGED <<last, peer, mask, link, sent, left>>

Disconnected ==
  /\ pc = "disconnected" /\ "SIK_DISCONNECTED" \in interrupt_kind
  /\ is_connected' = FALSE
  /\ mask' = FALSE
  /\ Goto("init")
  /\ UNCHANGED <<notification, bits, interrupt_kind, server, send_msg_buffer, callers, socket, peer, ir, rx, link, sent, left>>

\* Mutant: the flag of the old connection survives the reset of the chip.
MutantInitialize ==
  /\ pc = "init" /\ "INITIALIZATION" \in bits
  /\ socket' = "CLOSED" /\ ir' = {} /\ rx' = 0 /\ mask' \in BOOLEAN
  /\ Notify("SOCKET_INTERRUPT")
  /\ Goto("check")
  /\ UNCHANGED <<bits, is_connected, interrupt_kind, server, send_msg_buffer, callers, peer, link, sent, left>>

\* tcp_client_setup_w5500 resets the chip; the code is silent about the mask
\* that leaves.  A failed setup is repeated.
Initialize ==
  /\ pc = "init" /\ "INITIALIZATION" \in bits
  /\ is_connected' = FALSE
  /\ socket' = "CLOSED" /\ ir' = {} /\ rx' = 0 /\ mask' \in BOOLEAN
  /\ Notify("SOCKET_INTERRUPT")
  /\ Goto("check")
  /\ UNCHANGED <<bits, interrupt_kind, server, send_msg_buffer, callers, peer, link, sent, left>>

Check ==
  /\ pc = "check"
  /\ is_connected' = (is_connected /\ link)
  /\ Goto(IF is_connected' THEN "wait" ELSE "connect")
  /\ UNCHANGED <<notification, bits, interrupt_kind, server, send_msg_buffer, callers, chip, link, sent, left>>

-----------------------------------------------------------------------------
(* tcp_client_connect, repeated until it succeeds.                         *)

\* A socket left from before is closed, a new one opened, the endpoint read.
Connect ==
  /\ pc = "connect" /\ link
  /\ socket' = "CLOSED" /\ ir' = {} /\ rx' = 0
  /\ server' = endpoint
  /\ Goto("connecting")
  /\ UNCHANGED <<notification, bits, is_connected, interrupt_kind, send_msg_buffer, callers, peer, mask, link, sent, left>>

ConnectFails ==
  /\ pc = "connecting"
  /\ Goto("connect")
  /\ UNCHANGED <<notification, bits, is_connected, interrupt_kind, server, send_msg_buffer, callers, chip, link, sent, left>>

Established ==
  /\ pc = "connecting" /\ link
  /\ socket' = "ESTABLISHED"
  /\ peer' = server
  /\ Goto("unmask")
  /\ UNCHANGED <<notification, bits, is_connected, interrupt_kind, server, send_msg_buffer, callers, ir, mask, rx, link, sent, left>>

\* A flag raised since the connection was made pulls the line low now.
Unmask ==
  /\ pc = "unmask"
  /\ mask' = TRUE
  /\ IF ~mask /\ ir # {} THEN Notify("SOCKET_INTERRUPT") ELSE UNCHANGED notification
  /\ is_connected' = TRUE
  /\ Goto("wait")
  /\ UNCHANGED <<bits, interrupt_kind, server, send_msg_buffer, callers, socket, peer, ir, rx, link, sent, left>>

TaskStep ==
  \/ Start \/ Wait \/ Transmit
  \/ Skip("send", "SEND_MESSAGE" \in bits, "get")
  \/ GetInterrupt
  \/ Skip("get", "SOCKET_INTERRUPT" \in bits, "init")
  \/ ClearInterrupt \/ Receive \/ ReceiveNothing \/ ReceiveLastPart
  \/ Skip("receive", "SIK_RECEIVED" \in interrupt_kind, "disconnected")
  \/ Disconnected
  \/ Skip("disconnected", "SIK_DISCONNECTED" \in interrupt_kind, "init")
  \/ Initialize
  \/ Skip("init", "INITIALIZATION" \in bits, "check")
  \/ Check \/ Connect \/ ConnectFails \/ Established \/ Unmask

-----------------------------------------------------------------------------
(* The chip and the network.                                               *)

\* tcp_client_ISR runs on the falling edge only.
Raise(flag) ==
  /\ ir' = ir \cup {flag}
  /\ IF mask /\ ir = {} THEN Notify("SOCKET_INTERRUPT") ELSE UNCHANGED notification

Deliver ==
  /\ socket = "ESTABLISHED" /\ link
  /\ Happens("peer")
  /\ rx' = rx + 1
  /\ Raise("SIK_RECEIVED")
  /\ UNCHANGED <<task, send_msg_buffer, callers, socket, peer, mask, link, sent>>

PeerCloses ==
  /\ socket = "ESTABLISHED" /\ link
  /\ Happens("peer")
  /\ socket' = "CLOSE_WAIT"
  /\ Raise("SIK_DISCONNECTED")
  /\ UNCHANGED <<task, send_msg_buffer, callers, peer, mask, rx, link, sent>>

\* A server that is gone acknowledges nothing: the chip gives up repeating the
\* data and closes the socket, with a flag that is always masked.
PeerVanishes ==
  /\ socket # "CLOSED" /\ sent # <<>>
  /\ Happens("fault")
  /\ socket' = "CLOSED"
  /\ UNCHANGED <<notification, task, send_msg_buffer, callers, peer, ir, mask, rx, link, sent>>

LinkDown ==
  /\ link
  /\ Happens("fault")
  /\ link' = FALSE
  /\ UNCHANGED <<notification, task, send_msg_buffer, callers, chip, sent>>

LinkUp ==
  /\ ~link
  /\ link' = TRUE
  /\ UNCHANGED <<notification, task, send_msg_buffer, callers, chip, sent, left>>

Next ==
  \/ SendMessage \/ StartUpdate \/ Restart \/ TaskStep
  \/ Deliver \/ PeerCloses \/ PeerVanishes \/ LinkDown \/ LinkUp

Spec == Init /\ [][Next]_vars

\* Every task is scheduled again, the cable is plugged in again, and a server
\* that is tried again and again answers in the end.
Fairness ==
  /\ WF_vars(TaskStep) /\ SF_vars(Established)
  /\ WF_vars(SendMessage) /\ WF_vars(Restart) /\ WF_vars(LinkUp)

FairSpec == Spec /\ Fairness

-----------------------------------------------------------------------------
(* Properties.                                                             *)

TypeOK ==
  /\ notification \subseteq Bits /\ bits \subseteq Bits
  /\ pc \in {"start", "wait", "send", "get", "clear", "receive", "disconnected",
             "init", "check", "connect", "connecting", "unmask"}
  /\ is_connected \in BOOLEAN /\ interrupt_kind \subseteq Flags
  /\ server \in Endpoints /\ endpoint \in Endpoints /\ peer \in Endpoints
  /\ send_msg_buffer \in Nat \cup {NoMsg}
  /\ caller \in {"idle", "notify"}
  /\ update \in {"no", "started", "copied", "notified"}
  /\ socket \in {"CLOSED", "ESTABLISHED", "CLOSE_WAIT"}
  /\ ir \subseteq Flags /\ mask \in BOOLEAN /\ rx \in Nat /\ link \in BOOLEAN
  /\ last \in Nat /\ sent \in Seq(Nat) /\ left \in [Events -> Nat]

\* A reset of the chip has been asked for and the task has not come to it.
InitPending ==
  \/ pc = "start"
  \/ "INITIALIZATION" \in notification
  \/ /\ "INITIALIZATION" \in bits
     /\ pc \in {"send", "get", "clear", "receive", "disconnected", "init"}

\* Whatever the task was doing when the board changed the endpoint, once no
\* restart is under way a client that thinks it is connected is connected to
\* the endpoint the board asked for last.
EndpointReached ==
  is_connected /\ ~InitPending /\ update # "copied" => peer = endpoint

\* The messages go out in the order the dispatcher handed them over, each at
\* most once, although one may be overwritten while a notification is pending.
SentOnce ==
  \A i, j \in 1 .. Len(sent) : i < j => sent[i] < sent[j]

\* While the chip holds the line low no further edge can come, so the task is
\* still to read and clear the flags, or to reset the chip.
InterruptLineHeard ==
  mask /\ ir # {} =>
    \/ "SOCKET_INTERRUPT" \in notification
    \/ "SOCKET_INTERRUPT" \in bits /\ pc \in {"send", "get", "clear"}
    \/ InitPending

\* The task waits in recv, for data that no flag may be about to announce.
WaitingForData == Receiving /\ rx = 0 /\ socket = "ESTABLISHED"

\* Unless the task waits for good in recv for a silent server, a message handed
\* over is tried, or replaced by a later one that is.
LastMessageTried ==
  []<>~WaitingForData => (send_msg_buffer # NoMsg ~> send_msg_buffer = NoMsg)

\* Unless the task waits for good in recv for a silent server, an update brings
\* the client to the administrator's server, or a last part that came from the
\* old one ended the update before.
AdminReached ==
  []<>~WaitingForData =>
    (update = "notified" ~> (is_connected /\ peer = Admin) \/ ~is_updating)

\* The comment of tcp_client_task on its last step, "Check connection / Try to
\* reconnect": a socket that is not connected gets connected again.
Reconnects == socket # "ESTABLISHED" ~> socket = "ESTABLISHED"
==============================================================================
