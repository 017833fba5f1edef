------------------------------ MODULE NodeTask ------------------------------
(***************************************************************************)
(* The message dispatcher of node.c: two pools of buffers, each with a     *)
(* queue of free buffers and a queue of posted ones, a queue set that      *)
(* records a handle per post, the callers of node_send_msg and             *)
(* node_receive_tcp_msg, and the task that routes.                         *)
(*                                                                         *)
(* A step is the code between two FreeRTOS calls other tasks can observe.  *)
(* Spec lets the tasks interleave freely; PrioritySpec adds what the fixed *)
(* priorities of the tasks exclude.                                        *)
(***************************************************************************)
EXTENDS Counting, NodeMessages

CONSTANTS MSG_BUFFER_SIZE,      \* node message buffers (8 in the code)
          TCP_MSG_BUFFER_SIZE,  \* TCP message buffers (4 in the code)
          Senders,              \* tasks that call node_send_msg
          Receivers             \* tasks that call node_receive_tcp_msg

ASSUME SizeAssumption ==
  /\ MSG_BUFFER_SIZE \in Nat \ {0}
  /\ TCP_MSG_BUFFER_SIZE \in Nat \ {0}

ASSUME CallersAssumption ==
  /\ IsFiniteSet(Senders) /\ IsFiniteSet(Receivers)
  /\ Senders \cap Receivers = {}

MsgBuf == 1..MSG_BUFFER_SIZE
TcpBuf == 1..TCP_MSG_BUFFER_SIZE
Callers == Senders \cup Receivers

\* A pointer variable that holds no buffer.
NULL == 0

VARIABLES free_msg_queue, work_msg_queue,       \* pointers to node messages
          free_tcp_msg_queue, work_tcp_msg_queue,
          msg_queue_set,    \* handles, "msg" or "tcp", one per recorded post
          members,          \* the queues that belong to the set so far
          msg_buffer, tcp_msg_buffer,           \* the buffers' contents
          call,             \* call[c]: progress of caller c in its function
          pc,               \* where node_task is
          filled,           \* buffers put in the free queue by its loops
          work_tcp_msg,     \* the pointers node_task holds
          free_msg,
          work_msg,
          out               \* the latest callback, see NodeMessages!Effect

msgQueues == <<free_msg_queue, work_msg_queue>>
tcpQueues == <<free_tcp_msg_queue, work_tcp_msg_queue>>
set       == <<msg_queue_set, members>>
buffers   == <<msg_buffer, tcp_msg_buffer>>
locals    == <<filled, work_tcp_msg, free_msg, work_msg>>
vars == <<msgQueues, tcpQueues, set, buffers, call, pc, locals, out>>

-----------------------------------------------------------------------------
(* FreeRTOS queues: a send to a full queue times out and changes nothing.  *)

Sent(queue, buf, size) ==
  IF Len(queue) < size THEN Append(queue, buf) ELSE queue

\* Mutant: the set is dimensioned for the pool that was added last.
MutantSetSize == TCP_MSG_BUFFER_SIZE

\* A post to a member of the set also appends the member's handle to the set,
\* or loses the handle when the set is full.
SetSize == MSG_BUFFER_SIZE + TCP_MSG_BUFFER_SIZE

Noted(handle) ==
  IF handle \in members /\ Len(msg_queue_set) < SetSize
  THEN Append(msg_queue_set, handle)
  ELSE msg_queue_set

PostMsg(buf) ==
  /\ work_msg_queue' = Sent(work_msg_queue, buf, MSG_BUFFER_SIZE)
  /\ msg_queue_set' = IF Len(work_msg_queue) < MSG_BUFFER_SIZE
                      THEN Noted("msg") ELSE msg_queue_set
  /\ UNCHANGED members

PostTcp(buf) ==
  /\ work_tcp_msg_queue' = Sent(work_tcp_msg_queue, buf, TCP_MSG_BUFFER_SIZE)
  /\ msg_queue_set' = IF Len(work_tcp_msg_queue) < TCP_MSG_BUFFER_SIZE
                      THEN Noted("tcp") ELSE msg_queue_set
  /\ UNCHANGED members

-----------------------------------------------------------------------------
Init ==
  /\ free_msg_queue = <<>> /\ work_msg_queue = <<>>
  /\ free_tcp_msg_queue = <<>> /\ work_tcp_msg_queue = <<>>
  /\ msg_queue_set = <<>> /\ members = {}
  /\ msg_buffer = [b \in MsgBuf |-> NoMsg]
  /\ tcp_msg_buffer = [b \in TcpBuf |-> NoMsg]
  /\ call = [c \in Callers |-> [buf |-> NULL, result |-> "STD_SUCCESS"]]
  /\ pc = "add_work_msg" /\ filled = 0
  /\ work_tcp_msg = NULL /\ free_msg = NULL /\ work_msg = NULL
  /\ out = Nowhere

-----------------------------------------------------------------------------
(* node_send_msg and node_receive_tcp_msg.                                 *)

\* A free buffer is taken and the message copied into it.
SendTake(s, m) ==
  /\ call[s].buf = NULL
  /\ free_msg_queue # <<>>
  /\ LET b == Head(free_msg_queue) IN
       /\ call' = [call EXCEPT ![s].buf = b]
       /\ msg_buffer' = [msg_buffer EXCEPT ![b] = m]
  /\ free_msg_queue' = Tail(free_msg_queue)
  /\ UNCHANGED <<work_msg_queue, tcpQueues, set, tcp_msg_buffer, pc, locals, out>>

SendPost(s) ==
  /\ call[s].buf # NULL
  /\ PostMsg(call[s].buf)
  /\ call' = [call EXCEPT ![s] = [buf |-> NULL, result |-> "STD_SUCCESS"]]
  /\ UNCHANGED <<free_msg_queue, tcpQueues, buffers, pc, locals, out>>

\* No buffer became free within RTOS_QUEUE_TICKS_TO_WAIT.
SendTimeout(s) ==
  /\ call[s].buf = NULL
  /\ free_msg_queue = <<>>
  /\ call' = [call EXCEPT ![s].result = "STD_FAILURE"]
  /\ UNCHANGED <<msgQueues, tcpQueues, set, buffers, pc, locals, out>>

ReceiveTake(r, t) ==
  /\ call[r].buf = NULL
  /\ free_tcp_msg_queue # <<>>
  /\ LET b == Head(free_tcp_msg_queue) IN
       /\ call' = [call EXCEPT ![r].buf = b]
       /\ tcp_msg_buffer' = [tcp_msg_buffer EXCEPT ![b] = t]
  /\ free_tcp_msg_queue' = Tail(free_tcp_msg_queue)
  /\ UNCHANGED <<msgQueues, work_tcp_msg_queue, set, msg_buffer, pc, locals, out>>

ReceivePost(r) ==
  /\ call[r].buf # NULL
  /\ PostTcp(call[r].buf)
  /\ call' = [call EXCEPT ![r] = [buf |-> NULL, result |-> "STD_SUCCESS"]]
  /\ UNCHANGED <<msgQueues, free_tcp_msg_queue, buffers, pc, locals, out>>

ReceiveTimeout(r) ==
  /\ call[r].buf = NULL
  /\ free_tcp_msg_queue = <<>>
  /\ call' = [call EXCEPT ![r].result = "STD_FAILURE"]
  /\ UNCHANGED <<msgQueues, tcpQueues, set, buffers, pc, locals, out>>

-----------------------------------------------------------------------------
(* node_task before its loop: join the queues to the set, then hand out    *)
(* the buffers.  xQueueAddToSet refuses a queue that is not empty.         *)

AddWorkMsg ==
  /\ pc = "add_work_msg" /\ pc' = "add_work_tcp_msg"
  /\ members' = IF work_msg_queue = <<>> THEN members \cup {"msg"} ELSE members
  /\ UNCHANGED <<msgQueues, tcpQueues, msg_queue_set, buffers, call, locals, out>>
\* Mutant: the second call joins the first queue again.
MutantAddWorkTcpMsg ==
  /\ pc = "add_work_tcp_msg" /\ pc' = "fill_msg"
  /\ members' = members \cup {"msg"}
  /\ UNCHANGED <<msgQueues, tcpQueues, msg_queue_set, buffers, call, locals, out>>

AddWorkTcpMsg ==
  /\ pc = "add_work_tcp_msg" /\ pc' = "fill_msg"
  /\ members' = IF work_tcp_msg_queue = <<>> THEN members \cup {"tcp"} ELSE members
  /\ UNCHANGED <<msgQueues, tcpQueues, msg_queue_set, buffers, call, locals, out>>

FillMsg ==
  /\ pc = "fill_msg"
  /\ free_msg_queue' = Sent(free_msg_queue, filled + 1, MSG_BUFFER_SIZE)
  /\ IF filled + 1 < MSG_BUFFER_SIZE
     THEN filled' = filled + 1 /\ pc' = pc
     ELSE filled' = 0 /\ pc' = "fill_tcp"
  /\ UNCHANGED <<work_msg_queue, tcpQueues, set, buffers, call,
                 work_tcp_msg, free_msg, work_msg, out>>

FillTcp ==
  /\ pc = "fill_tcp"
  /\ free_tcp_msg_queue' = Sent(free_tcp_msg_queue, filled + 1, TCP_MSG_BUFFER_SIZE)
  /\ IF filled + 1 < TCP_MSG_BUFFER_SIZE
     THEN filled' = filled + 1 /\ pc' = pc
     ELSE filled' = 0 /\ pc' = "select"
  /\ UNCHANGED <<msgQueues, work_tcp_msg_queue, set, buffers, call,
                 work_tcp_msg, free_msg, work_msg, out>>

-----------------------------------------------------------------------------
(* The loop of node_task.                                                  *)
\* Mutant: the TCP branch polls its queue in every iteration, as the message
\* branch does.
MutantSelect ==
  /\ pc = "select"
  /\ msg_queue_set # <<>>
  /\ pc' = IF work_tcp_msg_queue # <<>> \/ Head(msg_queue_set) = "tcp"
           THEN "tcp_receive" ELSE "msg_receive"
  /\ msg_queue_set' = Tail(msg_queue_set)
  /\ UNCHANGED <<msgQueues, tcpQueues, members, buffers, call, locals, out>>

\* Mutant: a node message that waits goes first, and the handle is forgotten.
MutantSelectMsg ==
  /\ pc = "select"
  /\ msg_queue_set # <<>>
  /\ pc' = IF work_msg_queue = <<>> /\ Head(msg_queue_set) = "tcp"
           THEN "tcp_receive" ELSE "msg_receive"
  /\ msg_queue_set' = Tail(msg_queue_set)
  /\ UNCHANGED <<msgQueues, tcpQueues, members, buffers, call, locals, out>>

Select ==
  /\ pc = "select"
  /\ msg_queue_set # <<>>
  /\ pc' = IF Head(msg_queue_set) = "tcp" THEN "tcp_receive" ELSE "msg_receive"
  /\ msg_queue_set' = Tail(msg_queue_set)
  /\ UNCHANGED <<msgQueues, tcpQueues, members, buffers, call, locals, out>>

\* When there is nothing to receive the pointer stays uninitialised, and is
\* released below like any other.
TcpReceive ==
  /\ pc = "tcp_receive"
  /\ IF work_tcp_msg_queue # <<>>
     THEN /\ work_tcp_msg' = Head(work_tcp_msg_queue)
          /\ work_tcp_msg_queue' = Tail(work_tcp_msg_queue)
          /\ pc' = "parse"
     ELSE /\ work_tcp_msg' \in TcpBuf
          /\ pc' = "tcp_release"
          /\ UNCHANGED work_tcp_msg_queue
  /\ UNCHANGED <<msgQueues, free_tcp_msg_queue, set, buffers, call,
                 filled, free_msg, work_msg, out>>
Parse ==
  /\ pc = "parse"
  /\ pc' = IF tcp_msg_buffer[work_tcp_msg] = Garbled THEN "tcp_release" ELSE "take"
  /\ UNCHANGED <<msgQueues, tcpQueues, set, buffers, call, locals, out>>

Take ==
  /\ pc = "take"
  /\ free_msg_queue # <<>>
  /\ free_msg' = Head(free_msg_queue)
  /\ free_msg_queue' = Tail(free_msg_queue)
  /\ msg_buffer' = [msg_buffer EXCEPT ![Head(free_msg_queue)] = tcp_msg_buffer[work_tcp_msg]]
  /\ pc' = "post"
  /\ UNCHANGED <<work_msg_queue, tcpQueues, set, tcp_msg_buffer, call,
                 filled, work_tcp_msg, work_msg, out>>
\* No buffer became free: the message is dropped.
TakeTimeout ==
  /\ pc = "take"
  /\ free_msg_queue = <<>>
  /\ pc' = "tcp_release"
  /\ UNCHANGED <<msgQueues, tcpQueues, set, buffers, call, locals, out>>

Post ==
  /\ pc = "post" /\ pc' = "tcp_release"
  /\ PostMsg(free_msg)
  /\ free_msg' = NULL
  /\ UNCHANGED <<free_msg_queue, tcpQueues, buffers, call,
                 filled, work_tcp_msg, work_msg, out>>

TcpRelease ==
  /\ pc = "tcp_release" /\ pc' = "msg_receive"
  /\ free_tcp_msg_queue' = Sent(free_tcp_msg_queue, work_tcp_msg, TCP_MSG_BUFFER_SIZE)
  /\ work_tcp_msg' = NULL
  /\ UNCHANGED <<msgQueues, work_tcp_msg_queue, set, buffers, call,
                 filled, free_msg, work_msg, out>>
\* Mutant: the buffer is given back as soon as it is received.
MutantMsgReceive ==
  /\ pc = "msg_receive"
  /\ work_msg_queue # <<>>
  /\ work_msg' = Head(work_msg_queue)
  /\ work_msg_queue' = Tail(work_msg_queue)
  /\ free_msg_queue' = Append(free_msg_queue, work_msg')
  /\ pc' = "route"
  /\ UNCHANGED <<tcpQueues, set, buffers, call, filled, work_tcp_msg, free_msg, out>>

MsgReceive ==
  /\ pc = "msg_receive"
  /\ work_msg_queue # <<>>
  /\ work_msg' = Head(work_msg_queue)
  /\ work_msg_queue' = Tail(work_msg_queue)
  /\ pc' = "route"
  /\ UNCHANGED <<free_msg_queue, tcpQueues, set, buffers, call,
                 filled, work_tcp_msg, free_msg, out>>

MsgReceiveNothing ==
  /\ pc = "msg_receive"
  /\ work_msg_queue = <<>>
  /\ pc' = "select"
  /\ UNCHANGED <<msgQueues, tcpQueues, set, buffers, call, locals, out>>

Route ==
  /\ pc = "route" /\ pc' = "msg_release"
  /\ out' = Effect(msg_buffer[work_msg])
  /\ UNCHANGED <<msgQueues, tcpQueues, set, buffers, call, locals>>

MsgRelease ==
  /\ pc = "msg_release" /\ pc' = "select"
  /\ free_msg_queue' = Sent(free_msg_queue, work_msg, MSG_BUFFER_SIZE)
  /\ work_msg' = NULL
  /\ UNCHANGED <<work_msg_queue, tcpQueues, set, buffers, call,
                 filled, work_tcp_msg, free_msg, out>>

-----------------------------------------------------------------------------
SenderStep(s) ==
  \/ \E m \in BoardMessages : SendTake(s, m)
  \/ SendPost(s)
  \/ SendTimeout(s)

ReceiverStep(r) ==
  \/ \E t \in Texts : ReceiveTake(r, t)
  \/ ReceivePost(r)
  \/ ReceiveTimeout(r)

TaskStep ==
  \/ AddWorkMsg \/ AddWorkTcpMsg \/ FillMsg \/ FillTcp
  \/ Select \/ TcpReceive \/ Parse \/ Take \/ TakeTimeout
  \/ Post \/ TcpRelease \/ MsgReceive \/ MsgReceiveNothing \/ Route \/ MsgRelease

Next ==
  \/ \E s \in Senders : SenderStep(s)
  \/ \E r \in Receivers : ReceiverStep(r)
  \/ TaskStep

\* The scheduler runs node_task when it is ready and nothing above it is.
Fairness == WF_vars(TaskStep)

Spec == Init /\ [][Next]_vars /\ Fairness

(***************************************************************************)
(* Priorities: the TCP task (3) preempts node_task (2), which preempts the *)
(* extension-board task (1).  A sender runs only while node_task is        *)
(* blocked: on the set, on the pool of free buffers, or in the firmware    *)
(* callback, which waits for the flash memory.                             *)
(***************************************************************************)
ReceiversIdle == \A r \in Receivers : call[r].buf = NULL

TaskBlocked ==
  \/ pc = "select" /\ msg_queue_set = <<>>
  \/ pc = "take" /\ free_msg_queue = <<>>
  \/ /\ pc = "route"
     /\ Effect(msg_buffer[work_msg]) = ToBoard(msg_buffer[work_msg])
     /\ msg_buffer[work_msg].cmd = "UPDATE_FIRMWARE"

PriorityTaskStep == ReceiversIdle /\ TaskStep

PriorityNext ==
  \/ \E r \in Receivers : ReceiverStep(r)
  \/ PriorityTaskStep
  \/ ReceiversIdle /\ TaskBlocked /\ \E s \in Senders : SenderStep(s)

\* A receiver that took a buffer goes on to post it: nothing preempts it for good.
PriorityFairness ==
  /\ WF_vars(PriorityTaskStep)
  /\ \A r \in Receivers : WF_vars(ReceivePost(r))

PrioritySpec == Init /\ [][PriorityNext]_vars /\ PriorityFairness

-----------------------------------------------------------------------------
(* Properties.                                                             *)

PCs == {"add_work_msg", "add_work_tcp_msg", "fill_msg", "fill_tcp", "select",
        "tcp_receive", "parse", "take", "post", "tcp_release", "msg_receive",
        "route", "msg_release"}

\* Every variable of node.c holds a value of its type.
TypeOK ==
  /\ free_msg_queue \in Seq(MsgBuf) /\ work_msg_queue \in Seq(MsgBuf)
  /\ free_tcp_msg_queue \in Seq(TcpBuf) /\ work_tcp_msg_queue \in Seq(TcpBuf)
  /\ msg_queue_set \in Seq({"msg", "tcp"}) /\ members \subseteq {"msg", "tcp"}
  /\ msg_buffer \in [MsgBuf -> Messages \cup {NoMsg, Garbled}]
  /\ tcp_msg_buffer \in [TcpBuf -> Texts \cup {NoMsg}]
  /\ call \in [Callers -> [buf : Nat, result : {"STD_SUCCESS", "STD_FAILURE"}]]
  /\ \A s \in Senders : call[s].buf \in MsgBuf \cup {NULL}
  /\ \A r \in Receivers : call[r].buf \in TcpBuf \cup {NULL}
  /\ pc \in PCs /\ filled \in Nat
  /\ work_tcp_msg \in TcpBuf \cup {NULL}
  /\ free_msg \in MsgBuf \cup {NULL} /\ work_msg \in MsgBuf \cup {NULL}
  /\ out \in Effects

Holders(calls, callers, b) == {c \in callers : calls[c].buf = b}

MsgToFill(b) == \/ pc \in {"add_work_msg", "add_work_tcp_msg"}
                \/ pc = "fill_msg" /\ b > filled

TcpToFill(b) == \/ pc \in {"add_work_msg", "add_work_tcp_msg", "fill_msg"}
                \/ pc = "fill_tcp" /\ b > filled

MsgOwners(b) ==
  Count(free_msg_queue, b) + Count(work_msg_queue, b)
    + Cardinality(Holders(call, Senders, b))
    + One(free_msg = b) + One(work_msg = b) + One(MsgToFill(b))

TcpOwners(b) ==
  Count(free_tcp_msg_queue, b) + Count(work_tcp_msg_queue, b)
    + Cardinality(Holders(call, Receivers, b))
    + One(work_tcp_msg = b) + One(TcpToFill(b))

\* Every message buffer has exactly one owner: not yet handed out, a free or a
\* posted pointer, a caller, or node_task.  So no buffer leaks, none is released
\* twice, and nobody writes a buffer that somebody else reads.
MsgPoolConserved == \A b \in MsgBuf : MsgOwners(b) = 1

\* The same for TCP buffers, which callers fill and node_task releases.
TcpPoolConserved == \A b \in TcpBuf : TcpOwners(b) = 1

BuffersConserved == MsgPoolConserved /\ TcpPoolConserved

\* A "tcp" handle is never stale: when node_task acts on one there is a TCP
\* message to receive, so it never releases an uninitialised pointer.
NoStrayRelease == pc = "tcp_receive" => work_tcp_msg_queue # <<>>

\* node_task never blocks on the set while a node message is posted, although
\* posts may find the set full of handles whose messages are long gone.
NoMsgStranded == pc = "select" /\ work_msg_queue # <<>> => msg_queue_set # <<>>

\* Every posted node message is routed, however the callers are scheduled.
EveryMsgRouted ==
  \A b \in MsgBuf :
    (\E i \in DOMAIN work_msg_queue : work_msg_queue[i] = b)
      ~> (pc = "route" /\ work_msg = b)

\* The TCP messages whose posts have left a handle: of the posted ones, the
\* first so many.
TcpHandles == Count(msg_queue_set, "tcp") + One(pc = "tcp_receive")

\* Every TCP message with a handle is parsed, whatever overtakes it, also while
\* and after the callback of UPDATE_FIRMWARE lets the set fill up.
NotedTcpParsed ==
  \A b \in TcpBuf :
    (\E i \in DOMAIN work_tcp_msg_queue : i <= TcpHandles /\ work_tcp_msg_queue[i] = b)
      ~> (pc = "parse" /\ work_tcp_msg = b)

UpdateRuns == pc = "route" /\ TaskBlocked

\* As long as no UPDATE_FIRMWARE runs its callback, no TCP message is posted
\* without a handle, although every TCP message leaves a stale one behind.
EveryTcpNoted == []~UpdateRuns => [](Len(work_tcp_msg_queue) = TcpHandles)

(***************************************************************************)
(* The inductive invariant behind the safety properties.                   *)
(***************************************************************************)

\* node_task holds a pointer exactly while its code is between the receive
\* and the send of that pointer.
PointersInv ==
  /\ free_msg # NULL <=> pc = "post"
  /\ work_tcp_msg # NULL <=> pc \in {"parse", "take", "post", "tcp_release"}
  /\ work_msg # NULL <=> pc \in {"route", "msg_release"}
  /\ pc \in {"add_work_msg", "add_work_tcp_msg"} => filled = 0
  /\ pc = "fill_msg" => filled < MSG_BUFFER_SIZE
  /\ pc = "fill_tcp" => filled < TCP_MSG_BUFFER_SIZE

\* Both queues join the set before anything can be posted to them.
MembersInv ==
  members = CASE pc = "add_work_msg"     -> {}
              [] pc = "add_work_tcp_msg" -> {"msg"}
              [] OTHER                   -> {"msg", "tcp"}

\* There are at most as many "tcp" handles as posted TCP messages, and, although
\* handles are lost when the set is full, at least as many "msg" handles as
\* posted node messages, counting the handle node_task is acting on.
HandlesInv ==
  /\ Len(work_msg_queue) <= MSG_BUFFER_SIZE
  /\ Len(work_tcp_msg_queue) <= TCP_MSG_BUFFER_SIZE
  /\ Len(msg_queue_set) <= SetSize
  /\ Count(msg_queue_set, "tcp") + One(pc = "tcp_receive") <= Len(work_tcp_msg_queue)
  /\ Len(work_msg_queue) <= Count(msg_queue_set, "msg") + One(pc = "msg_receive")

\* What is posted or held to be routed is a message, never a buffer somebody
\* has recycled, and what a caller of node_send_msg is about to post is the board's.
MsgContentsInv ==
  /\ \A i \in DOMAIN work_msg_queue : msg_buffer[work_msg_queue[i]] \in Messages
  /\ \A s \in Senders : call[s].buf # NULL => msg_buffer[call[s].buf] \in BoardMessages
  /\ pc = "post" => msg_buffer[free_msg] \in Messages
  /\ pc = "route" => msg_buffer[work_msg] \in Messages

\* The same for the texts, and only parsed ones are taken a buffer for.
TcpContentsInv ==
  /\ \A i \in DOMAIN work_tcp_msg_queue : tcp_msg_buffer[work_tcp_msg_queue[i]] \in Texts
  /\ \A r \in Receivers : call[r].buf # NULL => tcp_msg_buffer[call[r].buf] \in Texts
  /\ pc = "parse" => tcp_msg_buffer[work_tcp_msg] \in Texts
  /\ pc = "take" => tcp_msg_buffer[work_tcp_msg] \in Messages

\* node_task is about to post the text that it parsed.
CopyInv == pc = "post" => msg_buffer[free_msg] = tcp_msg_buffer[work_tcp_msg]

ContentsInv == MsgContentsInv /\ TcpContentsInv /\ CopyInv

IInv == /\ TypeOK /\ PointersInv /\ MembersInv /\ MsgPoolConserved
        /\ TcpPoolConserved /\ HandlesInv /\ ContentsInv

(***************************************************************************)
(* The dispatcher implements NodeRouter: a TCP message stays in the inbox  *)
(* until it is posted or dropped, and a node message on the agenda until   *)
(* its callback returns.                                                   *)
(***************************************************************************)
ContentsOf(queue, buffer) == [i \in DOMAIN queue |-> buffer[queue[i]]]

tcp_pending ==
  (IF pc \in {"parse", "take", "post"} THEN <<tcp_msg_buffer[work_tcp_msg]>> ELSE <<>>)
    \o ContentsOf(work_tcp_msg_queue, tcp_msg_buffer)

msg_pending ==
  (IF pc = "route" THEN <<msg_buffer[work_msg]>> ELSE <<>>)
    \o ContentsOf(work_msg_queue, msg_buffer)

Router == INSTANCE NodeRouter WITH inbox <- tcp_pending, agenda <- msg_pending, out <- out

\* Messages are routed in order, once each, unaltered, and only TCP messages
\* are ever dropped.
ImplementsRouter == Router!RouterSpec
=============================================================================
