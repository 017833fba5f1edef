--------------------------- MODULE NodeTaskProofs ---------------------------
(***************************************************************************)
(* Proofs about the dispatcher for pools of any size and any finite sets   *)
(* of callers.  IInv is inductive; the safety properties follow from it.   *)
(***************************************************************************)
EXTENDS NodeTask, QueueProofs

\* Sending to a queue keeps its type.
LEMMA SentType ==
  ASSUME NEW S, NEW q \in Seq(S), NEW b \in S, NEW n
  PROVE  Sent(q, b, n) \in Seq(S)
BY DEF Sent

\* What is received from a queue is an element of it.
LEMMA ReceivedType ==
  ASSUME NEW S, NEW q \in Seq(S), q # <<>>
  PROVE  Head(q) \in S /\ Tail(q) \in Seq(S)
OBVIOUS

\* The queue set holds handles only.
LEMMA NotedType ==
  ASSUME msg_queue_set \in Seq({"msg", "tcp"}), NEW h \in {"msg", "tcp"}
  PROVE  Noted(h) \in Seq({"msg", "tcp"})
BY DEF Noted

CallType == [Callers -> [buf : Nat, result : {"STD_SUCCESS", "STD_FAILURE"}]]

\* A caller's step changes what that caller holds and nothing else.
LEMMA CallTake ==
  ASSUME call \in CallType, NEW c \in Callers, NEW b \in Nat,
         call' = [call EXCEPT ![c].buf = b]
  PROVE  /\ call' \in CallType
         /\ \A d \in Callers : call'[d].buf = IF d = c THEN b ELSE call[d].buf
BY DEF CallType

\* A call that succeeded leaves its caller without a buffer.
LEMMA CallReturn ==
  ASSUME call \in CallType, NEW c \in Callers,
         call' = [call EXCEPT ![c] = [buf |-> NULL, result |-> "STD_SUCCESS"]]
  PROVE  /\ call' \in CallType
         /\ \A d \in Callers : call'[d].buf = IF d = c THEN NULL ELSE call[d].buf
BY DEF CallType, NULL

\* A call that timed out takes no buffer.
LEMMA CallFail ==
  ASSUME call \in CallType, NEW c \in Callers,
         call' = [call EXCEPT ![c].result = "STD_FAILURE"]
  PROVE  /\ call' \in CallType
         /\ \A d \in Callers : call'[d].buf = call[d].buf
BY DEF CallType

\* Every step of node.c keeps its variables in their types.
LEMMA TypeStep ==
  ASSUME IInv, Next
  PROVE  TypeOK'
<1>. USE SizeAssumption, CallersAssumption
     DEF TypeOK, PCs, msgQueues, tcpQueues, set, buffers, locals
<1>1. TypeOK /\ PointersInv /\ ContentsInv
  BY DEF IInv
<1>2. call \in CallType /\ Senders \subseteq Callers /\ Receivers \subseteq Callers
  BY <1>1 DEF CallType, Callers
<1>3. NULL \in Nat /\ MsgBuf \subseteq Nat /\ TcpBuf \subseteq Nat
      /\ NULL \notin MsgBuf /\ NULL \notin TcpBuf
  BY DEF NULL, MsgBuf, TcpBuf
<1>4. ASSUME NEW s \in Senders, NEW m \in BoardMessages, SendTake(s, m) PROVE TypeOK'
  <2>1. Head(free_msg_queue) \in MsgBuf /\ free_msg_queue' \in Seq(MsgBuf)
    BY <1>1, <1>4, ReceivedType DEF SendTake
  <2>2. call' \in CallType
        /\ \A d \in Callers : call'[d].buf = IF d = s THEN Head(free_msg_queue)
                                             ELSE call[d].buf
    <3>1. call' = [call EXCEPT ![s].buf = Head(free_msg_queue)]
      BY <1>4 DEF SendTake
    <3>. QED
      BY <1>2, <1>3, <2>1, <3>1, CallTake
  <2>3. msg_buffer' \in [MsgBuf -> Messages \cup {NoMsg, Garbled}]
    BY <1>1, <1>4 DEF SendTake, BoardMessages
  <2>. QED
    BY <1>1, <1>2, <1>4, <2>1, <2>2, <2>3 DEF SendTake, CallType
<1>5. ASSUME NEW s \in Senders, SendPost(s) PROVE TypeOK'
  <2>1. call[s].buf \in MsgBuf
    BY <1>1, <1>5 DEF SendPost
  <2>2. /\ work_msg_queue' \in Seq(MsgBuf)
        /\ msg_queue_set' \in Seq({"msg", "tcp"}) /\ members' = members
    BY <1>1, <1>5, <2>1, SentType, NotedType DEF SendPost, PostMsg
  <2>3. call' \in CallType
        /\ \A d \in Callers : call'[d].buf = IF d = s THEN NULL ELSE call[d].buf
    BY <1>2, <1>5, CallReturn DEF SendPost
  <2>. QED
    BY <1>1, <1>2, <1>5, <2>2, <2>3 DEF SendPost, CallType
<1>6. ASSUME NEW s \in Senders, SendTimeout(s) PROVE TypeOK'
  <2>1. call' \in CallType /\ \A d \in Callers : call'[d].buf = call[d].buf
    BY <1>2, <1>6, CallFail DEF SendTimeout
  <2>. QED
    BY <1>1, <1>2, <1>6, <2>1 DEF SendTimeout, CallType
<1>7. ASSUME NEW r \in Receivers, NEW t \in Texts, ReceiveTake(r, t) PROVE TypeOK'
  <2>1. Head(free_tcp_msg_queue) \in TcpBuf /\ free_tcp_msg_queue' \in Seq(TcpBuf)
    BY <1>1, <1>7, ReceivedType DEF ReceiveTake
  <2>2. call' \in CallType
        /\ \A d \in Callers : call'[d].buf = IF d = r THEN Head(free_tcp_msg_queue)
                                             ELSE call[d].buf
    <3>1. call' = [call EXCEPT ![r].buf = Head(free_tcp_msg_queue)]
      BY <1>7 DEF ReceiveTake
    <3>2. r \in Callers /\ Head(free_tcp_msg_queue) \in Nat /\ call \in CallType
      BY <1>2, <1>3, <2>1
    <3>. HIDE DEF TypeOK
    <3>. QED
      BY <3>1, <3>2, CallTake
  <2>3. tcp_msg_buffer' \in [TcpBuf -> Texts \cup {NoMsg}]
    BY <1>1, <1>7 DEF ReceiveTake
  <2>. QED
    BY <1>1, <1>2, <1>7, <2>1, <2>2, <2>3 DEF ReceiveTake, CallType
<1>8. ASSUME NEW r \in Receivers, ReceivePost(r) PROVE TypeOK'
  <2>1. call[r].buf \in TcpBuf
    BY <1>1, <1>8 DEF ReceivePost
  <2>2. /\ work_tcp_msg_queue' \in Seq(TcpBuf)
        /\ msg_queue_set' \in Seq({"msg", "tcp"}) /\ members' = members
    BY <1>1, <1>8, <2>1, SentType, NotedType DEF ReceivePost, PostTcp
  <2>3. call' \in CallType
        /\ \A d \in Callers : call'[d].buf = IF d = r THEN NULL ELSE call[d].buf
    BY <1>2, <1>8, CallReturn DEF ReceivePost
  <2>. QED
    BY <1>1, <1>2, <1>8, <2>2, <2>3 DEF ReceivePost, CallType
<1>9. ASSUME NEW r \in Receivers, ReceiveTimeout(r) PROVE TypeOK'
  <2>1. call' \in CallType /\ \A d \in Callers : call'[d].buf = call[d].buf
    BY <1>2, <1>9, CallFail DEF ReceiveTimeout
  <2>. QED
    BY <1>1, <1>2, <1>9, <2>1 DEF ReceiveTimeout, CallType
<1>10. ASSUME AddWorkMsg PROVE TypeOK'
  BY <1>1, <1>10 DEF AddWorkMsg
<1>11. ASSUME AddWorkTcpMsg PROVE TypeOK'
  BY <1>1, <1>11 DEF AddWorkTcpMsg
<1>12. ASSUME FillMsg PROVE TypeOK'
  <2>1. filled + 1 \in MsgBuf
    BY <1>1, <1>12 DEF FillMsg, PointersInv, MsgBuf
  <2>2. free_msg_queue' \in Seq(MsgBuf)
    BY <1>1, <1>12, <2>1, SentType DEF FillMsg
  <2>. QED
    BY <1>1, <1>12, <2>2 DEF FillMsg
<1>13. ASSUME FillTcp PROVE TypeOK'
  <2>1. filled + 1 \in TcpBuf
    BY <1>1, <1>13 DEF FillTcp, PointersInv, TcpBuf
  <2>2. free_tcp_msg_queue' \in Seq(TcpBuf)
    BY <1>1, <1>13, <2>1, SentType DEF FillTcp
  <2>. QED
    BY <1>1, <1>13, <2>2 DEF FillTcp
<1>14. ASSUME Select PROVE TypeOK'
  BY <1>1, <1>14 DEF Select
<1>15. ASSUME TcpReceive PROVE TypeOK'
  <2>1. work_tcp_msg' \in TcpBuf /\ work_tcp_msg_queue' \in Seq(TcpBuf)
    <3>1. CASE work_tcp_msg_queue = <<>>
      BY <1>1, <1>15, <3>1 DEF TcpReceive
    <3>2. CASE work_tcp_msg_queue # <<>>
      <4>1. /\ work_tcp_msg' = Head(work_tcp_msg_queue)
            /\ work_tcp_msg_queue' = Tail(work_tcp_msg_queue)
        BY <1>15, <3>2 DEF TcpReceive
      <4>2. work_tcp_msg_queue \in Seq(TcpBuf)
        BY <1>1
      <4>. HIDE DEF TypeOK
      <4>. QED
        BY <3>2, <4>1, <4>2, ReceivedType
    <3>. QED
      BY <3>1, <3>2
  <2>2. pc' \in PCs
    BY <1>1, <1>15 DEF TcpReceive
  <2>3. UNCHANGED <<msgQueues, free_tcp_msg_queue, set, buffers, call,
                    filled, free_msg, work_msg, out>>
    BY <1>15 DEF TcpReceive
  <2>. QED
    BY <1>1, <2>1, <2>2, <2>3
<1>16. ASSUME Parse PROVE TypeOK'
  BY <1>1, <1>16 DEF Parse
<1>17. ASSUME Take PROVE TypeOK'
  <2>1. free_msg' \in MsgBuf /\ free_msg_queue' \in Seq(MsgBuf)
    BY <1>1, <1>17, ReceivedType DEF Take
  <2>2. tcp_msg_buffer[work_tcp_msg] \in Texts \cup {NoMsg}
    BY <1>1, <1>17 DEF Take, PointersInv
  <2>3. msg_buffer' \in [MsgBuf -> Messages \cup {NoMsg, Garbled}]
    BY <1>1, <1>17, <2>2 DEF Take, Texts
  <2>. QED
    BY <1>1, <1>17, <2>1, <2>3 DEF Take
<1>18. ASSUME TakeTimeout PROVE TypeOK'
  BY <1>1, <1>18 DEF TakeTimeout
<1>19. ASSUME Post PROVE TypeOK'
  <2>1. free_msg \in MsgBuf
    BY <1>1, <1>19 DEF Post, PointersInv
  <2>2. /\ work_msg_queue' \in Seq(MsgBuf)
        /\ msg_queue_set' \in Seq({"msg", "tcp"}) /\ members' = members
    BY <1>1, <1>19, <2>1, SentType, NotedType DEF Post, PostMsg
  <2>. QED
    BY <1>1, <1>19, <2>2 DEF Post
<1>20. ASSUME TcpRelease PROVE TypeOK'
  <2>1. work_tcp_msg \in TcpBuf
    BY <1>1, <1>20 DEF TcpRelease, PointersInv
  <2>2. free_tcp_msg_queue' \in Seq(TcpBuf)
    BY <1>1, <1>20, <2>1, SentType DEF TcpRelease
  <2>. QED
    BY <1>1, <1>20, <2>2 DEF TcpRelease
<1>21. ASSUME MsgReceive PROVE TypeOK'
  <2>1. work_msg' \in MsgBuf /\ work_msg_queue' \in Seq(MsgBuf)
    BY <1>1, <1>21, ReceivedType DEF MsgReceive
  <2>. QED
    BY <1>1, <1>21, <2>1 DEF MsgReceive
<1>22. ASSUME MsgReceiveNothing PROVE TypeOK'
  BY <1>1, <1>22 DEF MsgReceiveNothing
<1>23. ASSUME Route PROVE TypeOK'
  <2>1. msg_buffer[work_msg] \in Messages
    BY <1>1, <1>23 DEF Route, ContentsInv, MsgContentsInv
  <2>2. out' \in Effects
    BY <1>23, <2>1 DEF Route, Effects
  <2>. QED
    BY <1>1, <1>23, <2>2 DEF Route
<1>24. ASSUME MsgRelease PROVE TypeOK'
  <2>1. work_msg \in MsgBuf
    BY <1>1, <1>24 DEF MsgRelease, PointersInv
  <2>2. free_msg_queue' \in Seq(MsgBuf)
    BY <1>1, <1>24, <2>1, SentType DEF MsgRelease
  <2>. QED
    BY <1>1, <1>24, <2>2 DEF MsgRelease
<1>. QED
  BY <1>4, <1>5, <1>6, <1>7, <1>8, <1>9, <1>10, <1>11, <1>12, <1>13, <1>14, <1>15,
     <1>16, <1>17, <1>18, <1>19, <1>20, <1>21, <1>22, <1>23, <1>24
     DEF Next, SenderStep, ReceiverStep, TaskStep

-----------------------------------------------------------------------------
(* Pointers of node_task.                                                  *)

\* Every step leaves node_task with the pointers its place in the code implies.
LEMMA PointersStep ==
  ASSUME IInv, Next
  PROVE  PointersInv'
<1>. USE SizeAssumption DEF PointersInv, locals
<1>1. TypeOK /\ PointersInv
  BY DEF IInv
<1>2. NULL \notin MsgBuf /\ NULL \notin TcpBuf
  BY DEF NULL, MsgBuf, TcpBuf
<1>3. ASSUME NEW s \in Senders, SenderStep(s) PROVE PointersInv'
  BY <1>1, <1>3 DEF SenderStep, SendTake, SendPost, SendTimeout
<1>4. ASSUME NEW r \in Receivers, ReceiverStep(r) PROVE PointersInv'
  BY <1>1, <1>4 DEF ReceiverStep, ReceiveTake, ReceivePost, ReceiveTimeout
<1>5. ASSUME AddWorkMsg \/ AddWorkTcpMsg PROVE PointersInv'
  BY <1>1, <1>5 DEF AddWorkMsg, AddWorkTcpMsg
<1>6. ASSUME FillMsg \/ FillTcp PROVE PointersInv'
  BY <1>1, <1>6 DEF FillMsg, FillTcp
<1>7. ASSUME Select \/ Parse \/ TakeTimeout \/ MsgReceiveNothing \/ Route PROVE PointersInv'
  BY <1>1, <1>7 DEF Select, Parse, TakeTimeout, MsgReceiveNothing, Route
<1>8. ASSUME TcpReceive PROVE PointersInv'
  <2>1. work_tcp_msg' \in TcpBuf
    BY <1>1, <1>8, ReceivedType DEF TcpReceive, TypeOK
  <2>. QED
    BY <1>1, <1>2, <1>8, <2>1 DEF TcpReceive
<1>9. ASSUME Take PROVE PointersInv'
  <2>1. free_msg' \in MsgBuf
    BY <1>1, <1>9, ReceivedType DEF Take, TypeOK
  <2>. QED
    BY <1>1, <1>2, <1>9, <2>1 DEF Take
<1>10. ASSUME MsgReceive PROVE PointersInv'
  <2>1. work_msg' \in MsgBuf
    BY <1>1, <1>10, ReceivedType DEF MsgReceive, TypeOK
  <2>. QED
    BY <1>1, <1>2, <1>10, <2>1 DEF MsgReceive
<1>11. ASSUME Post \/ TcpRelease \/ MsgRelease PROVE PointersInv'
  BY <1>1, <1>11 DEF Post, TcpRelease, MsgRelease
<1>. QED
  BY <1>3, <1>4, <1>5, <1>6, <1>7, <1>8, <1>9, <1>10, <1>11 DEF Next, TaskStep

-----------------------------------------------------------------------------
(* Buffers and their owners.                                               *)

\* What a set of callers holds, when one of them exchanges one buffer (or none)
\* for another (or none).
LEMMA HoldersChange ==
  ASSUME NEW f, NEW g, NEW b, NEW C, IsFiniteSet(C), NEW c \in C,
         \A d \in C : d # c => g[d].buf = f[d].buf
  PROVE  /\ Cardinality(Holders(f, C, b)) \in Nat
         /\ Cardinality(Holders(g, C, b)) \in Nat
         /\ Cardinality(Holders(g, C, b)) + One(f[c].buf = b)
              = Cardinality(Holders(f, C, b)) + One(g[c].buf = b)
<1>. DEFINE H == Holders(f, C, b)
            K == Holders(g, C, b)
<1>1. H \in SUBSET C /\ K \in SUBSET C
  BY DEF Holders
<1>2. /\ IsFiniteSet(H) /\ Cardinality(H) \in Nat
      /\ IsFiniteSet(K) /\ Cardinality(K) \in Nat
  BY <1>1, FS_Subset, FS_CardinalityType
<1>3. \A d \in C : d \in H <=> f[d].buf = b
  BY DEF Holders
<1>4. \A d \in C : d \in K <=> (IF d = c THEN g[c].buf ELSE f[d].buf) = b
  BY DEF Holders
<1>. HIDE DEF H, K
<1>5. CASE f[c].buf = b /\ g[c].buf # b
  <2>1. K = H \ {c} /\ c \in H
    BY <1>1, <1>3, <1>4, <1>5
  <2>2. Cardinality(H \ {c}) = Cardinality(H) - 1
    BY <1>2, <2>1, FS_RemoveElement
  <2>3. Cardinality(K) + 1 = Cardinality(H)
    BY <1>2, <2>1, <2>2
  <2>. QED
    BY <1>2, <1>5, <2>3 DEF One, H, K
<1>6. CASE f[c].buf # b /\ g[c].buf = b
  <2>1. K = H \cup {c} /\ c \notin H
    BY <1>1, <1>3, <1>4, <1>6
  <2>2. Cardinality(H \cup {c}) = Cardinality(H) + 1
    BY <1>2, <2>1, FS_AddElement
  <2>3. Cardinality(K) = Cardinality(H) + 1
    BY <2>1, <2>2
  <2>. QED
    BY <1>2, <1>6, <2>3 DEF One, H, K
<1>7. CASE f[c].buf = b <=> g[c].buf = b
  <2>1. K = H
    BY <1>1, <1>3, <1>4, <1>7
  <2>. QED
    BY <1>2, <1>7, <2>1 DEF One, H, K
<1>. QED
  BY <1>5, <1>6, <1>7

\* The owners of a message buffer are numbers, and one of them is 1.
LEMMA MsgOwnersType ==
  ASSUME IInv, NEW b \in MsgBuf
  PROVE  /\ Count(free_msg_queue, b) \in Nat
         /\ Count(work_msg_queue, b) \in Nat
         /\ Cardinality(Holders(call, Senders, b)) \in Nat
         /\ MsgOwners(b) = 1
<1>1. free_msg_queue \in Seq(MsgBuf) /\ work_msg_queue \in Seq(MsgBuf)
  BY DEF IInv, TypeOK
<1>2. Count(free_msg_queue, b) \in Nat /\ Count(work_msg_queue, b) \in Nat
  BY <1>1, CountType
<1>3. Holders(call, Senders, b) \in SUBSET Senders /\ IsFiniteSet(Senders)
  BY CallersAssumption DEF Holders
<1>4. Cardinality(Holders(call, Senders, b)) \in Nat
  BY <1>3, FS_Subset, FS_CardinalityType
<1>. QED
  BY <1>2, <1>4 DEF IInv, MsgPoolConserved

\* A queue that lacks a buffer has room for it, so no send of node.c fails.
LEMMA MsgRoom ==
  ASSUME IInv, NEW b \in MsgBuf
  PROVE  /\ Count(free_msg_queue, b) = 0 => Len(free_msg_queue) < MSG_BUFFER_SIZE
         /\ Count(work_msg_queue, b) = 0 => Len(work_msg_queue) < MSG_BUFFER_SIZE
<1>1. free_msg_queue \in Seq(MsgBuf) /\ work_msg_queue \in Seq(MsgBuf)
  BY DEF IInv, TypeOK
<1>2. ASSUME NEW x \in MsgBuf
      PROVE  Count(free_msg_queue, x) <= 1 /\ Count(work_msg_queue, x) <= 1
  BY MsgOwnersType DEF MsgOwners, One
<1>3. MSG_BUFFER_SIZE \in Nat /\ MsgBuf = 1..MSG_BUFFER_SIZE
  BY SizeAssumption DEF MsgBuf
<1>4. Count(free_msg_queue, b) = 0 => Len(free_msg_queue) < MSG_BUFFER_SIZE
  BY <1>1, <1>2, <1>3, CountRoom
<1>5. Count(work_msg_queue, b) = 0 => Len(work_msg_queue) < MSG_BUFFER_SIZE
  BY <1>1, <1>2, <1>3, CountRoom
<1>. QED
  BY <1>4, <1>5

\* A step that moves no message buffer.
LEMMA MsgPoolFrame ==
  ASSUME IInv, NEW b \in MsgBuf,
         UNCHANGED <<free_msg_queue, work_msg_queue, free_msg, work_msg>>,
         \A s \in Senders : call'[s].buf = call[s].buf,
         MsgToFill(b)' <=> MsgToFill(b)
  PROVE  MsgOwners(b)' = 1
<1>1. Holders(call', Senders, b) = Holders(call, Senders, b)
  BY DEF Holders
<1>2. One(MsgToFill(b))' = One(MsgToFill(b))
  BY DEF One
<1>3. MsgOwners(b)' = MsgOwners(b)
  BY <1>1, <1>2 DEF MsgOwners
<1>. QED
  BY <1>3, MsgOwnersType

\* Every step leaves each message buffer with one owner.
LEMMA MsgPoolStep ==
  ASSUME IInv, Next, NEW b \in MsgBuf
  PROVE  MsgOwners(b)' = 1
<1>. DEFINE F == Count(free_msg_queue, b)
            W == Count(work_msg_queue, b)
            H == Cardinality(Holders(call, Senders, b))
            F1 == Count(free_msg_queue', b)
            W1 == Count(work_msg_queue', b)
            H1 == Cardinality(Holders(call', Senders, b))
<1>1. /\ free_msg_queue \in Seq(MsgBuf) /\ work_msg_queue \in Seq(MsgBuf)
      /\ free_msg \in MsgBuf \cup {NULL} /\ work_msg \in MsgBuf \cup {NULL}
      /\ \A s \in Senders : call[s].buf \in MsgBuf \cup {NULL}
      /\ filled \in Nat /\ pc \in PCs
  BY DEF IInv, TypeOK
<1>2. PointersInv /\ call \in CallType
  BY DEF IInv, TypeOK, CallType
<1>3. NULL = 0 /\ NULL \notin MsgBuf /\ Senders \subseteq Callers
      /\ MsgBuf \subseteq Nat /\ b # NULL
  BY DEF NULL, MsgBuf, Callers
<1>4. /\ F \in Nat /\ W \in Nat /\ H \in Nat
      /\ F + W + H + One(free_msg = b) + One(work_msg = b) + One(MsgToFill(b)) = 1
  BY MsgOwnersType DEF MsgOwners
<1>. HIDE DEF F, W, H, F1, W1, H1
<1>6. ASSUME NEW s \in Senders, NEW m \in BoardMessages, SendTake(s, m)
      PROVE  MsgOwners(b)' = 1
  <2>. DEFINE h == Head(free_msg_queue)
  <2>1. /\ free_msg_queue # <<>> /\ free_msg_queue' = Tail(free_msg_queue)
        /\ call[s].buf = NULL /\ call' = [call EXCEPT ![s].buf = h]
        /\ UNCHANGED <<work_msg_queue, pc, filled, free_msg, work_msg>>
    BY <1>6 DEF SendTake, locals
  <2>2. h \in MsgBuf
    BY <1>1, <2>1, ReceivedType
  <2>. HIDE DEF h
  <2>3. \A d \in Callers : call'[d].buf = IF d = s THEN h ELSE call[d].buf
    BY <1>2, <1>3, <2>1, <2>2, CallTake
  <2>4. \A d \in Senders : call'[d].buf = IF d = s THEN h ELSE call[d].buf
    BY <1>3, <2>3
  <2>5. H1 \in Nat /\ H1 + One(NULL = b) = H + One(h = b)
    <3>1. IsFiniteSet(Senders)
      BY CallersAssumption
    <3>2. /\ Cardinality(Holders(call', Senders, b)) \in Nat
          /\ Cardinality(Holders(call', Senders, b)) + One(call[s].buf = b)
               = Cardinality(Holders(call, Senders, b)) + One(call'[s].buf = b)
      <4>1. \A d \in Senders : d # s => call'[d].buf = call[d].buf
        BY <2>4
      <4>. QED
        BY <3>1, <4>1, HoldersChange
    <3>3. call'[s].buf = h
      BY <2>4
    <3>. QED
      BY <2>1, <3>2, <3>3 DEF H, H1
  <2>6. F = F1 + One(h = b)
    BY <1>1, <2>1, CountTail DEF F, F1, h
  <2>7. W1 = W /\ (MsgToFill(b)' <=> MsgToFill(b))
    BY <2>1 DEF W, W1, MsgToFill
  <2>8. MsgOwners(b)' = F1 + W1 + H1 + One(free_msg = b) + One(work_msg = b)
                         + One(MsgToFill(b))
    BY <2>1, <2>7 DEF MsgOwners, F, F1, W, W1, H, H1, One
  <2>9. F1 \in Nat
    BY <1>1, <2>1, ReceivedType, CountType DEF F1
  <2>. QED
    BY <1>3, <1>4, <2>5, <2>6, <2>7, <2>8, <2>9 DEF One
<1>7. ASSUME NEW s \in Senders, SendPost(s)
      PROVE  MsgOwners(b)' = 1
  <2>. DEFINE h == call[s].buf
  <2>1. /\ h # NULL /\ PostMsg(h)
        /\ call' = [call EXCEPT ![s] = [buf |-> NULL, result |-> "STD_SUCCESS"]]
        /\ UNCHANGED <<free_msg_queue, pc, filled, free_msg, work_msg>>
    BY <1>7 DEF SendPost, locals
  <2>2. h \in MsgBuf
    BY <1>1, <2>1
  <2>3. \A d \in Callers : call'[d].buf = IF d = s THEN NULL ELSE call[d].buf
    BY <1>2, <1>3, <2>1, CallReturn
  <2>4. \A d \in Senders : call'[d].buf = IF d = s THEN NULL ELSE call[d].buf
    BY <1>3, <2>3
  <2>5. H1 \in Nat /\ H1 + One(h = b) = H + One(NULL = b)
    <3>1. IsFiniteSet(Senders)
      BY CallersAssumption
    <3>2. /\ Cardinality(Holders(call', Senders, b)) \in Nat
          /\ Cardinality(Holders(call', Senders, b)) + One(call[s].buf = b)
               = Cardinality(Holders(call, Senders, b)) + One(call'[s].buf = b)
      <4>1. \A d \in Senders : d # s => call'[d].buf = call[d].buf
        BY <2>4
      <4>. QED
        BY <3>1, <4>1, HoldersChange
    <3>3. call'[s].buf = NULL
      BY <2>4
    <3>. QED
      BY <2>1, <3>2, <3>3 DEF H, H1
  <2>6. Count(work_msg_queue, h) = 0
    <3>1. Count(work_msg_queue, h) \in Nat /\ Count(free_msg_queue, h) \in Nat
          /\ Cardinality(Holders(call, Senders, h)) \in Nat /\ MsgOwners(h) = 1
      BY <2>2, MsgOwnersType
    <3>2. s \in Holders(call, Senders, h) /\ Holders(call, Senders, h) \in SUBSET Senders
      BY DEF Holders
    <3>3. Cardinality(Holders(call, Senders, h)) # 0
      BY <3>2, CallersAssumption, FS_Subset, FS_EmptySet
    <3>. QED
      BY <3>1, <3>3 DEF MsgOwners, One
  <2>7. work_msg_queue' = Append(work_msg_queue, h)
    BY <2>1, <2>2, <2>6, MsgRoom DEF PostMsg, Sent
  <2>8. W1 = W + One(h = b)
    BY <1>1, <2>2, <2>7, CountAppend DEF W, W1
  <2>9. F1 = F /\ (MsgToFill(b)' <=> MsgToFill(b))
    BY <2>1 DEF F, F1, MsgToFill
  <2>10. MsgOwners(b)' = F1 + W1 + H1 + One(free_msg = b) + One(work_msg = b)
                          + One(MsgToFill(b))
    BY <2>1, <2>9 DEF MsgOwners, F, F1, W, W1, H, H1, One
  <2>. HIDE DEF h
  <2>. QED
    BY <1>3, <1>4, <2>5, <2>8, <2>9, <2>10 DEF One
<1>8. ASSUME NEW s \in Senders, SendTimeout(s)
      PROVE  MsgOwners(b)' = 1
  <2>1. \A d \in Senders : call'[d].buf = call[d].buf
    BY <1>2, <1>3, <1>8, CallFail DEF SendTimeout
  <2>. QED
    BY <1>8, <2>1, MsgPoolFrame DEF SendTimeout, msgQueues, locals, MsgToFill
<1>9. ASSUME NEW r \in Receivers, ReceiverStep(r)
      PROVE  MsgOwners(b)' = 1
  <2>1. \A d \in Senders : call'[d] = call[d]
    BY <1>2, <1>9, CallersAssumption
       DEF ReceiverStep, ReceiveTake, ReceivePost, ReceiveTimeout, CallType, Callers
  <2>2. UNCHANGED <<free_msg_queue, work_msg_queue, free_msg, work_msg, pc, filled>>
    BY <1>9 DEF ReceiverStep, ReceiveTake, ReceivePost, ReceiveTimeout, msgQueues, locals
  <2>. QED
    BY <2>1, <2>2, MsgPoolFrame DEF MsgToFill
<1>10. ASSUME FillMsg
       PROVE  MsgOwners(b)' = 1
  <2>. DEFINE h == filled + 1
  <2>1. h \in MsgBuf /\ pc = "fill_msg" /\ h <= MSG_BUFFER_SIZE
    BY <1>1, <1>2, <1>10, SizeAssumption DEF FillMsg, PointersInv, MsgBuf
  <2>2. Count(free_msg_queue, h) = 0
    <3>1. MsgToFill(h)
      BY <1>1, <2>1 DEF MsgToFill
    <3>. QED
      BY <2>1, <3>1, MsgOwnersType DEF MsgOwners, One
  <2>3. free_msg_queue' = Append(free_msg_queue, h)
    BY <1>10, <2>1, <2>2, MsgRoom DEF FillMsg, Sent
  <2>4. F1 = F + One(h = b)
    BY <1>1, <2>1, <2>3, CountAppend DEF F, F1
  <2>5. UNCHANGED <<work_msg_queue, call, free_msg, work_msg>>
    BY <1>10 DEF FillMsg
  <2>6. W1 = W /\ H1 = H
    BY <2>5 DEF W, W1, H, H1, Holders
  <2>7. MsgToFill(b)' <=> MsgToFill(b) /\ h # b
    <3>1. MsgToFill(b) <=> b > filled
      BY <2>1 DEF MsgToFill
    <3>2. CASE h < MSG_BUFFER_SIZE
      <4>1. pc' = "fill_msg" /\ filled' = h
        BY <1>10, <2>1, <3>2 DEF FillMsg
      <4>. QED
        BY <1>1, <1>3, <3>1, <4>1 DEF MsgToFill
    <3>3. CASE ~(h < MSG_BUFFER_SIZE)
      <4>1. pc' = "fill_tcp"
        BY <1>10, <3>3 DEF FillMsg
      <4>2. ~MsgToFill(b)'
        BY <4>1 DEF MsgToFill
      <4>3. b <= h
        BY <2>1, <3>3, SizeAssumption DEF MsgBuf
      <4>. QED
        BY <1>1, <1>3, <3>1, <4>2, <4>3
    <3>. QED
      BY <3>2, <3>3
  <2>8. h = b => MsgToFill(b)
    BY <1>1, <2>1 DEF MsgToFill
  <2>9. MsgOwners(b)' = F1 + W + H + One(free_msg = b) + One(work_msg = b)
                         + One(MsgToFill(b) /\ h # b)
    BY <2>5, <2>6, <2>7 DEF MsgOwners, F, F1, W, W1, H, H1, One
  <2>. HIDE DEF h
  <2>. QED
    BY <1>4, <2>4, <2>8, <2>9 DEF One
<1>11. ASSUME Take
       PROVE  MsgOwners(b)' = 1
  <2>1. /\ free_msg_queue # <<>> /\ free_msg_queue' = Tail(free_msg_queue)
        /\ free_msg' = Head(free_msg_queue) /\ free_msg = NULL
        /\ UNCHANGED <<work_msg_queue, call, work_msg>>
    BY <1>2, <1>11 DEF Take, PointersInv
  <2>2. F = F1 + One(free_msg' = b)
    BY <1>1, <2>1, CountTail DEF F, F1
  <2>3. W1 = W /\ H1 = H /\ ~MsgToFill(b)' /\ ~MsgToFill(b)
    BY <1>11, <2>1 DEF W, W1, H, H1, Holders, MsgToFill, Take
  <2>4. F1 \in Nat
    BY <1>1, <2>1, ReceivedType, CountType DEF F, F1
  <2>5. MsgOwners(b)' = F1 + W + H + One(free_msg' = b) + One(work_msg = b) + One(FALSE)
    BY <2>1, <2>3 DEF MsgOwners, F, F1, W, W1, H, H1, One
  <2>6. One(free_msg = b) = 0 /\ One(MsgToFill(b)) = 0 /\ One(FALSE) = 0
    BY <1>3, <2>1, <2>3 DEF One
  <2>. QED
    BY <1>4, <2>2, <2>4, <2>5, <2>6 DEF One
<1>12. ASSUME Post
       PROVE  MsgOwners(b)' = 1
  <2>1. /\ free_msg \in MsgBuf /\ PostMsg(free_msg) /\ free_msg' = NULL
        /\ UNCHANGED <<free_msg_queue, call, work_msg>>
    BY <1>1, <1>2, <1>12 DEF Post, PointersInv
  <2>2. Count(work_msg_queue, free_msg) = 0
    BY <2>1, MsgOwnersType DEF MsgOwners, One
  <2>3. work_msg_queue' = Append(work_msg_queue, free_msg)
    BY <2>1, <2>2, MsgRoom DEF PostMsg, Sent
  <2>4. W1 = W + One(free_msg = b)
    BY <1>1, <2>1, <2>3, CountAppend DEF W, W1
  <2>5. F1 = F /\ H1 = H /\ ~MsgToFill(b)' /\ ~MsgToFill(b)
    BY <1>12, <2>1 DEF F, F1, H, H1, Holders, MsgToFill, Post
  <2>6. MsgOwners(b)' = F + W1 + H + One(NULL = b) + One(work_msg = b) + One(FALSE)
    BY <2>1, <2>5 DEF MsgOwners, F, F1, W, W1, H, H1, One
  <2>. QED
    BY <1>3, <1>4, <2>4, <2>5, <2>6 DEF One
<1>13. ASSUME MsgReceive
       PROVE  MsgOwners(b)' = 1
  <2>1. /\ work_msg_queue # <<>> /\ work_msg_queue' = Tail(work_msg_queue)
        /\ work_msg' = Head(work_msg_queue) /\ work_msg = NULL
        /\ UNCHANGED <<free_msg_queue, call, free_msg>>
    BY <1>2, <1>13 DEF MsgReceive, PointersInv
  <2>2. W = W1 + One(work_msg' = b)
    BY <1>1, <2>1, CountTail DEF W, W1
  <2>3. F1 = F /\ H1 = H /\ ~MsgToFill(b)' /\ ~MsgToFill(b)
    BY <1>13, <2>1 DEF F, F1, H, H1, Holders, MsgToFill, MsgReceive
  <2>4. W1 \in Nat
    BY <1>1, <2>1, ReceivedType, CountType DEF W, W1
  <2>5. MsgOwners(b)' = F + W1 + H + One(free_msg = b) + One(work_msg' = b) + One(FALSE)
    BY <2>1, <2>3 DEF MsgOwners, F, F1, W, W1, H, H1, One
  <2>6. One(work_msg = b) = 0 /\ One(MsgToFill(b)) = 0 /\ One(FALSE) = 0
    BY <1>3, <2>1, <2>3 DEF One
  <2>. QED
    BY <1>4, <2>2, <2>4, <2>5, <2>6 DEF One
<1>14. ASSUME MsgRelease
       PROVE  MsgOwners(b)' = 1
  <2>1. /\ work_msg \in MsgBuf /\ work_msg' = NULL
        /\ free_msg_queue' = Sent(free_msg_queue, work_msg, MSG_BUFFER_SIZE)
        /\ UNCHANGED <<work_msg_queue, call, free_msg>>
    BY <1>1, <1>2, <1>14 DEF MsgRelease, PointersInv
  <2>2. Count(free_msg_queue, work_msg) = 0
    BY <2>1, MsgOwnersType DEF MsgOwners, One
  <2>3. free_msg_queue' = Append(free_msg_queue, work_msg)
    BY <2>1, <2>2, MsgRoom DEF Sent
  <2>4. F1 = F + One(work_msg = b)
    BY <1>1, <2>1, <2>3, CountAppend DEF F, F1
  <2>5. W1 = W /\ H1 = H /\ ~MsgToFill(b)' /\ ~MsgToFill(b)
    BY <1>14, <2>1 DEF W, W1, H, H1, Holders, MsgToFill, MsgRelease
  <2>6. MsgOwners(b)' = F1 + W + H + One(free_msg = b) + One(NULL = b) + One(FALSE)
    BY <2>1, <2>5 DEF MsgOwners, F, F1, W, W1, H, H1, One
  <2>. QED
    BY <1>3, <1>4, <2>4, <2>5, <2>6 DEF One
<1>15. ASSUME AddWorkMsg \/ AddWorkTcpMsg \/ FillTcp
       PROVE  MsgOwners(b)' = 1
  <2>1. UNCHANGED <<free_msg_queue, work_msg_queue, free_msg, work_msg, call>>
    BY <1>15 DEF AddWorkMsg, AddWorkTcpMsg, FillTcp, msgQueues, locals
  <2>2. MsgToFill(b)' <=> MsgToFill(b)
    <3>1. CASE AddWorkMsg
      BY <3>1 DEF AddWorkMsg, MsgToFill
    <3>2. CASE AddWorkTcpMsg
      <4>1. pc = "add_work_tcp_msg" /\ pc' = "fill_msg" /\ filled' = 0
        BY <1>2, <3>2 DEF AddWorkTcpMsg, PointersInv, locals
      <4>2. b > 0
        BY DEF MsgBuf
      <4>. QED
        BY <4>1, <4>2 DEF MsgToFill
    <3>3. CASE FillTcp
      BY <3>3 DEF FillTcp, MsgToFill
    <3>. QED
      BY <1>15, <3>1, <3>2, <3>3
  <2>. QED
    BY <2>1, <2>2, MsgPoolFrame
<1>16. ASSUME \/ Select \/ TcpReceive \/ Parse \/ TakeTimeout \/ TcpRelease
              \/ MsgReceiveNothing \/ Route
       PROVE  MsgOwners(b)' = 1
  <2>1. UNCHANGED <<free_msg_queue, work_msg_queue, free_msg, work_msg, call>>
    BY <1>16 DEF Select, TcpReceive, Parse, TakeTimeout, TcpRelease, 
                 MsgReceiveNothing, Route, msgQueues, locals
  <2>2. ~MsgToFill(b)' /\ ~MsgToFill(b)
    BY <1>16 DEF Select, TcpReceive, Parse, TakeTimeout, TcpRelease, 
                 MsgReceiveNothing, Route, MsgToFill
  <2>. QED
    BY <2>1, <2>2, MsgPoolFrame
<1>. QED
  BY <1>6, <1>7, <1>8, <1>9, <1>10, <1>11, <1>12, <1>13, <1>14, <1>15, <1>16
     DEF Next, SenderStep, TaskStep

\* The owners of a TCP buffer are numbers, and one of them is 1.
LEMMA TcpOwnersType ==
  ASSUME IInv, NEW b \in TcpBuf
  PROVE  /\ Count(free_tcp_msg_queue, b) \in Nat
         /\ Count(work_tcp_msg_queue, b) \in Nat
         /\ Cardinality(Holders(call, Receivers, b)) \in Nat
         /\ TcpOwners(b) = 1
<1>1. free_tcp_msg_queue \in Seq(TcpBuf) /\ work_tcp_msg_queue \in Seq(TcpBuf)
  BY DEF IInv, TypeOK
<1>2. Count(free_tcp_msg_queue, b) \in Nat /\ Count(work_tcp_msg_queue, b) \in Nat
  BY <1>1, CountType
<1>3. Holders(call, Receivers, b) \in SUBSET Receivers /\ IsFiniteSet(Receivers)
  BY CallersAssumption DEF Holders
<1>4. Cardinality(Holders(call, Receivers, b)) \in Nat
  BY <1>3, FS_Subset, FS_CardinalityType
<1>. QED
  BY <1>2, <1>4 DEF IInv, TcpPoolConserved

\* A queue that lacks a buffer has room for it, so no release fails.
LEMMA TcpRoom ==
  ASSUME IInv, NEW b \in TcpBuf
  PROVE  /\ Count(free_tcp_msg_queue, b) = 0 => Len(free_tcp_msg_queue) < TCP_MSG_BUFFER_SIZE
         /\ Count(work_tcp_msg_queue, b) = 0 => Len(work_tcp_msg_queue) < TCP_MSG_BUFFER_SIZE
<1>1. free_tcp_msg_queue \in Seq(TcpBuf) /\ work_tcp_msg_queue \in Seq(TcpBuf)
  BY DEF IInv, TypeOK
<1>2. ASSUME NEW x \in TcpBuf
      PROVE  Count(free_tcp_msg_queue, x) <= 1 /\ Count(work_tcp_msg_queue, x) <= 1
  BY TcpOwnersType DEF TcpOwners, One
<1>3. TCP_MSG_BUFFER_SIZE \in Nat /\ TcpBuf = 1..TCP_MSG_BUFFER_SIZE
  BY SizeAssumption DEF TcpBuf
<1>4. Count(free_tcp_msg_queue, b) = 0 => Len(free_tcp_msg_queue) < TCP_MSG_BUFFER_SIZE
  BY <1>1, <1>2, <1>3, CountRoom
<1>5. Count(work_tcp_msg_queue, b) = 0 => Len(work_tcp_msg_queue) < TCP_MSG_BUFFER_SIZE
  BY <1>1, <1>2, <1>3, CountRoom
<1>. QED
  BY <1>4, <1>5

\* A step that moves no TCP buffer.
LEMMA TcpPoolFrame ==
  ASSUME IInv, NEW b \in TcpBuf,
         UNCHANGED <<free_tcp_msg_queue, work_tcp_msg_queue, work_tcp_msg>>,
         \A r \in Receivers : call'[r].buf = call[r].buf,
         TcpToFill(b)' <=> TcpToFill(b)
  PROVE  TcpOwners(b)' = 1
<1>1. Holders(call', Receivers, b) = Holders(call, Receivers, b)
  BY DEF Holders
<1>2. One(TcpToFill(b))' = One(TcpToFill(b))
  BY DEF One
<1>3. TcpOwners(b)' = TcpOwners(b)
  BY <1>1, <1>2 DEF TcpOwners
<1>. QED
  BY <1>3, TcpOwnersType

\* A "tcp" handle node_task acts on stands for a posted TCP message.
LEMMA NotStray ==
  ASSUME IInv, pc = "tcp_receive"
  PROVE  work_tcp_msg_queue # <<>>
<1>1. work_tcp_msg_queue \in Seq(TcpBuf) /\ msg_queue_set \in Seq({"msg", "tcp"})
  BY DEF IInv, TypeOK
<1>2. Count(msg_queue_set, "tcp") \in Nat
  BY <1>1, CountType
<1>3. Count(msg_queue_set, "tcp") + 1 <= Len(work_tcp_msg_queue)
  BY DEF IInv, HandlesInv, One
<1>. QED
  BY <1>1, <1>2, <1>3

\* Every step leaves each TCP buffer with one owner.
LEMMA TcpPoolStep ==
  ASSUME IInv, Next, NEW b \in TcpBuf
  PROVE  TcpOwners(b)' = 1
<1>. DEFINE F == Count(free_tcp_msg_queue, b)
            W == Count(work_tcp_msg_queue, b)
            H == Cardinality(Holders(call, Receivers, b))
            F1 == Count(free_tcp_msg_queue', b)
            W1 == Count(work_tcp_msg_queue', b)
            H1 == Cardinality(Holders(call', Receivers, b))
<1>1. /\ free_tcp_msg_queue \in Seq(TcpBuf) /\ work_tcp_msg_queue \in Seq(TcpBuf)
      /\ work_tcp_msg \in TcpBuf \cup {NULL}
      /\ \A s \in Receivers : call[s].buf \in TcpBuf \cup {NULL}
      /\ filled \in Nat /\ pc \in PCs
  BY DEF IInv, TypeOK
<1>2. PointersInv /\ call \in CallType
  BY DEF IInv, TypeOK, CallType
<1>3. NULL = 0 /\ NULL \notin TcpBuf /\ Receivers \subseteq Callers
      /\ TcpBuf \subseteq Nat /\ b # NULL
  BY DEF NULL, TcpBuf, Callers
<1>4. /\ F \in Nat /\ W \in Nat /\ H \in Nat
      /\ F + W + H + One(work_tcp_msg = b) + One(TcpToFill(b)) = 1
  BY TcpOwnersType DEF TcpOwners
<1>. HIDE DEF F, W, H, F1, W1, H1
<1>6. ASSUME NEW s \in Receivers, NEW t \in Texts, ReceiveTake(s, t)
      PROVE  TcpOwners(b)' = 1
  <2>. DEFINE h == Head(free_tcp_msg_queue)
  <2>1. /\ free_tcp_msg_queue # <<>> /\ free_tcp_msg_queue' = Tail(free_tcp_msg_queue)
        /\ call[s].buf = NULL /\ call' = [call EXCEPT ![s].buf = h]
        /\ UNCHANGED <<work_tcp_msg_queue, pc, filled, work_tcp_msg>>
    BY <1>6 DEF ReceiveTake, locals
  <2>2. h \in TcpBuf
    BY <1>1, <2>1, ReceivedType
  <2>. HIDE DEF h
  <2>3. \A d \in Callers : call'[d].buf = IF d = s THEN h ELSE call[d].buf
    BY <1>2, <1>3, <2>1, <2>2, CallTake
  <2>4. \A d \in Receivers : call'[d].buf = IF d = s THEN h ELSE call[d].buf
    BY <1>3, <2>3
  <2>5. H1 \in Nat /\ H1 + One(NULL = b) = H + One(h = b)
    <3>1. IsFiniteSet(Receivers)
      BY CallersAssumption
    <3>2. /\ Cardinality(Holders(call', Receivers, b)) \in Nat
          /\ Cardinality(Holders(call', Receivers, b)) + One(call[s].buf = b)
               = Cardinality(Holders(call, Receivers, b)) + One(call'[s].buf = b)
      <4>1. \A d \in Receivers : d # s => call'[d].buf = call[d].buf
        BY <2>4
      <4>. QED
        BY <3>1, <4>1, HoldersChange
    <3>3. call'[s].buf = h
      BY <2>4
    <3>. QED
      BY <2>1, <3>2, <3>3 DEF H, H1
  <2>6. F = F1 + One(h = b)
    BY <1>1, <2>1, CountTail DEF F, F1, h
  <2>7. W1 = W /\ (TcpToFill(b)' <=> TcpToFill(b))
    BY <2>1 DEF W, W1, TcpToFill
  <2>8. TcpOwners(b)' = F1 + W1 + H1 + One(work_tcp_msg = b)
                         + One(TcpToFill(b))
    BY <2>1, <2>7 DEF TcpOwners, F, F1, W, W1, H, H1, One
  <2>9. F1 \in Nat
    BY <1>1, <2>1, ReceivedType, CountType DEF F1
  <2>. QED
    BY <1>3, <1>4, <2>5, <2>6, <2>7, <2>8, <2>9 DEF One
<1>7. ASSUME NEW s \in Receivers, ReceivePost(s)
      PROVE  TcpOwners(b)' = 1
  <2>. DEFINE h == call[s].buf
  <2>1. /\ h # NULL /\ PostTcp(h)
        /\ call' = [call EXCEPT ![s] = [buf |-> NULL, result |-> "STD_SUCCESS"]]
        /\ UNCHANGED <<free_tcp_msg_queue, pc, filled, work_tcp_msg>>
    BY <1>7 DEF ReceivePost, locals
  <2>2. h \in TcpBuf
    BY <1>1, <2>1
  <2>3. \A d \in Callers : call'[d].buf = IF d = s THEN NULL ELSE call[d].buf
    BY <1>2, <1>3, <2>1, CallReturn
  <2>4. \A d \in Receivers : call'[d].buf = IF d = s THEN NULL ELSE call[d].buf
    BY <1>3, <2>3
  <2>5. H1 \in Nat /\ H1 + One(h = b) = H + One(NULL = b)
    <3>1. IsFiniteSet(Receivers)
      BY CallersAssumption
    <3>2. /\ Cardinality(Holders(call', Receivers, b)) \in Nat
          /\ Cardinality(Holders(call', Receivers, b)) + One(call[s].buf = b)
               = Cardinality(Holders(call, Receivers, b)) + One(call'[s].buf = b)
      <4>1. \A d \in Receivers : d # s => call'[d].buf = call[d].buf
        BY <2>4
      <4>. QED
        BY <3>1, <4>1, HoldersChange
    <3>3. call'[s].buf = NULL
      BY <2>4
    <3>. QED
      BY <2>1, <3>2, <3>3 DEF H, H1
  <2>6. Count(work_tcp_msg_queue, h) = 0
    <3>1. Count(work_tcp_msg_queue, h) \in Nat /\ Count(free_tcp_msg_queue, h) \in Nat
          /\ Cardinality(Holders(call, Receivers, h)) \in Nat /\ TcpOwners(h) = 1
      BY <2>2, TcpOwnersType
    <3>2. s \in Holders(call, Receivers, h) /\ Holders(call, Receivers, h) \in SUBSET Receivers
      BY DEF Holders
    <3>3. Cardinality(Holders(call, Receivers, h)) # 0
      BY <3>2, CallersAssumption, FS_Subset, FS_EmptySet
    <3>. QED
      BY <3>1, <3>3 DEF TcpOwners, One
  <2>7. work_tcp_msg_queue' = Append(work_tcp_msg_queue, h)
    BY <2>1, <2>2, <2>6, TcpRoom DEF PostTcp, Sent
  <2>8. W1 = W + One(h = b)
    BY <1>1, <2>2, <2>7, CountAppend DEF W, W1
  <2>9. F1 = F /\ (TcpToFill(b)' <=> TcpToFill(b))
    BY <2>1 DEF F, F1, TcpToFill
  <2>10. TcpOwners(b)' = F1 + W1 + H1 + One(work_tcp_msg = b)
                          + One(TcpToFill(b))
    BY <2>1, <2>9 DEF TcpOwners, F, F1, W, W1, H, H1, One
  <2>. HIDE DEF h
  <2>. QED
    BY <1>3, <1>4, <2>5, <2>8, <2>9, <2>10 DEF One
<1>8. ASSUME NEW s \in Receivers, ReceiveTimeout(s)
      PROVE  TcpOwners(b)' = 1
  <2>1. \A d \in Receivers : call'[d].buf = call[d].buf
    BY <1>2, <1>3, <1>8, CallFail DEF ReceiveTimeout
  <2>. QED
    BY <1>8, <2>1, TcpPoolFrame DEF ReceiveTimeout, tcpQueues, locals, TcpToFill
<1>9. ASSUME NEW s \in Senders, SenderStep(s)
      PROVE  TcpOwners(b)' = 1
  <2>1. \A d \in Receivers : call'[d] = call[d]
    BY <1>2, <1>9, CallersAssumption
       DEF SenderStep, SendTake, SendPost, SendTimeout, CallType, Callers
  <2>2. UNCHANGED <<free_tcp_msg_queue, work_tcp_msg_queue, work_tcp_msg, pc, filled>>
    BY <1>9 DEF SenderStep, SendTake, SendPost, SendTimeout, tcpQueues, locals
  <2>. QED
    BY <2>1, <2>2, TcpPoolFrame DEF TcpToFill
<1>10. ASSUME FillTcp
       PROVE  TcpOwners(b)' = 1
  <2>. DEFINE h == filled + 1
  <2>1. h \in TcpBuf /\ pc = "fill_tcp" /\ h <= TCP_MSG_BUFFER_SIZE
    BY <1>1, <1>2, <1>10, SizeAssumption DEF FillTcp, PointersInv, TcpBuf
  <2>2. Count(free_tcp_msg_queue, h) = 0
    <3>1. TcpToFill(h)
      BY <1>1, <2>1 DEF TcpToFill
    <3>. QED
      BY <2>1, <3>1, TcpOwnersType DEF TcpOwners, One
  <2>3. free_tcp_msg_queue' = Append(free_tcp_msg_queue, h)
    BY <1>10, <2>1, <2>2, TcpRoom DEF FillTcp, Sent
  <2>4. F1 = F + One(h = b)
    BY <1>1, <2>1, <2>3, CountAppend DEF F, F1
  <2>5. UNCHANGED <<work_tcp_msg_queue, call, work_tcp_msg>>
    BY <1>10 DEF FillTcp
  <2>6. W1 = W /\ H1 = H
    BY <2>5 DEF W, W1, H, H1, Holders
  <2>7. TcpToFill(b)' <=> TcpToFill(b) /\ h # b
    <3>1. TcpToFill(b) <=> b > filled
      BY <2>1 DEF TcpToFill
    <3>2. CASE h < TCP_MSG_BUFFER_SIZE
      <4>1. pc' = "fill_tcp" /\ filled' = h
        BY <1>10, <2>1, <3>2 DEF FillTcp
      <4>. QED
        BY <1>1, <1>3, <3>1, <4>1 DEF TcpToFill
    <3>3. CASE ~(h < TCP_MSG_BUFFER_SIZE)
      <4>1. pc' = "select"
        BY <1>10, <3>3 DEF FillTcp
      <4>2. ~TcpToFill(b)'
        BY <4>1 DEF TcpToFill
      <4>3. b <= h
        BY <2>1, <3>3, SizeAssumption DEF TcpBuf
      <4>. QED
        BY <1>1, <1>3, <3>1, <4>2, <4>3
    <3>. QED
      BY <3>2, <3>3
  <2>8. h = b => TcpToFill(b)
    BY <1>1, <2>1 DEF TcpToFill
  <2>9. TcpOwners(b)' = F1 + W + H + One(work_tcp_msg = b)
                         + One(TcpToFill(b) /\ h # b)
    BY <2>5, <2>6, <2>7 DEF TcpOwners, F, F1, W, W1, H, H1, One
  <2>. HIDE DEF h
  <2>. QED
    BY <1>4, <2>4, <2>8, <2>9 DEF One
<1>11. ASSUME TcpReceive
       PROVE  TcpOwners(b)' = 1
  <2>1. work_tcp_msg_queue # <<>>
    BY <1>11, NotStray DEF TcpReceive
  <2>2. /\ work_tcp_msg_queue' = Tail(work_tcp_msg_queue)
        /\ work_tcp_msg' = Head(work_tcp_msg_queue) /\ work_tcp_msg = NULL
        /\ UNCHANGED <<free_tcp_msg_queue, call>>
    BY <1>2, <1>11, <2>1 DEF TcpReceive, PointersInv
  <2>3. W = W1 + One(work_tcp_msg' = b)
    BY <1>1, <2>1, <2>2, CountTail DEF W, W1
  <2>4. F1 = F /\ H1 = H /\ ~TcpToFill(b)' /\ ~TcpToFill(b)
    BY <1>11, <2>2 DEF F, F1, H, H1, Holders, TcpToFill, TcpReceive
  <2>5. W1 \in Nat
    BY <1>1, <2>1, <2>2, ReceivedType, CountType DEF W1
  <2>6. TcpOwners(b)' = F + W1 + H + One(work_tcp_msg' = b) + One(FALSE)
    BY <2>2, <2>4 DEF TcpOwners, F, F1, W, W1, H, H1, One
  <2>7. One(work_tcp_msg = b) = 0 /\ One(TcpToFill(b)) = 0 /\ One(FALSE) = 0
    BY <1>3, <2>2, <2>4 DEF One
  <2>. QED
    BY <1>4, <2>3, <2>5, <2>6, <2>7 DEF One
<1>12. ASSUME TcpRelease
       PROVE  TcpOwners(b)' = 1
  <2>1. /\ work_tcp_msg \in TcpBuf /\ work_tcp_msg' = NULL
        /\ free_tcp_msg_queue' = Sent(free_tcp_msg_queue, work_tcp_msg, TCP_MSG_BUFFER_SIZE)
        /\ UNCHANGED <<work_tcp_msg_queue, call>>
    BY <1>1, <1>2, <1>12 DEF TcpRelease, PointersInv
  <2>2. Count(free_tcp_msg_queue, work_tcp_msg) = 0
    BY <2>1, TcpOwnersType DEF TcpOwners, One
  <2>3. free_tcp_msg_queue' = Append(free_tcp_msg_queue, work_tcp_msg)
    BY <2>1, <2>2, TcpRoom DEF Sent
  <2>4. F1 = F + One(work_tcp_msg = b)
    BY <1>1, <2>1, <2>3, CountAppend DEF F, F1
  <2>5. W1 = W /\ H1 = H /\ ~TcpToFill(b)' /\ ~TcpToFill(b)
    BY <1>12, <2>1 DEF W, W1, H, H1, Holders, TcpToFill, TcpRelease
  <2>6. TcpOwners(b)' = F1 + W + H + One(NULL = b) + One(FALSE)
    BY <2>1, <2>5 DEF TcpOwners, F, F1, W, W1, H, H1, One
  <2>. QED
    BY <1>3, <1>4, <2>4, <2>5, <2>6 DEF One
<1>13. ASSUME AddWorkMsg \/ AddWorkTcpMsg \/ FillMsg
       PROVE  TcpOwners(b)' = 1
  <2>1. UNCHANGED <<free_tcp_msg_queue, work_tcp_msg_queue, work_tcp_msg, call>>
    BY <1>13 DEF AddWorkMsg, AddWorkTcpMsg, FillMsg, tcpQueues, locals
  <2>2. TcpToFill(b)' <=> TcpToFill(b)
    <3>1. CASE AddWorkMsg \/ AddWorkTcpMsg
      BY <3>1 DEF AddWorkMsg, AddWorkTcpMsg, TcpToFill
    <3>2. CASE FillMsg
      <4>1. pc = "fill_msg" /\ (pc' = "fill_msg" \/ (pc' = "fill_tcp" /\ filled' = 0))
        <5>1. CASE filled + 1 < MSG_BUFFER_SIZE
          BY <3>2, <5>1 DEF FillMsg
        <5>2. CASE ~(filled + 1 < MSG_BUFFER_SIZE)
          BY <3>2, <5>2 DEF FillMsg
        <5>. QED
          BY <5>1, <5>2
      <4>2. b > 0
        BY DEF TcpBuf
      <4>. QED
        BY <4>1, <4>2 DEF TcpToFill
    <3>. QED
      BY <1>13, <3>1, <3>2
  <2>. QED
    BY <2>1, <2>2, TcpPoolFrame
<1>14. ASSUME \/ Select \/ Parse \/ Take \/ TakeTimeout \/ Post
              \/ MsgReceive \/ MsgReceiveNothing \/ Route \/ MsgRelease
       PROVE  TcpOwners(b)' = 1
  <2>1. UNCHANGED <<free_tcp_msg_queue, work_tcp_msg_queue, work_tcp_msg, call>>
    BY <1>14 DEF Select, Parse, Take, TakeTimeout, Post, MsgReceive,
                 MsgReceiveNothing, Route, MsgRelease, tcpQueues, locals
  <2>2. ~TcpToFill(b)' /\ ~TcpToFill(b)
    BY <1>14 DEF Select, Parse, Take, TakeTimeout, Post, MsgReceive,
                 MsgReceiveNothing, Route, MsgRelease, TcpToFill
  <2>. QED
    BY <2>1, <2>2, TcpPoolFrame
<1>. QED
  BY <1>6, <1>7, <1>8, <1>9, <1>10, <1>11, <1>12, <1>13, <1>14
     DEF Next, ReceiverStep, TaskStep

-----------------------------------------------------------------------------
(* The queue set.                                                          *)

\* Buffers are handed out only after both queues joined the set: until then
\* nothing is posted and no caller holds a buffer.
LEMMA NothingBeforeMembers ==
  ASSUME IInv, pc \in {"add_work_msg", "add_work_tcp_msg"}
  PROVE  /\ work_msg_queue = <<>> /\ work_tcp_msg_queue = <<>>
         /\ \A c \in Callers : call[c].buf = NULL
<1>1. /\ work_msg_queue \in Seq(MsgBuf) /\ work_tcp_msg_queue \in Seq(TcpBuf)
      /\ \A s \in Senders : call[s].buf \in MsgBuf \cup {NULL}
      /\ \A r \in Receivers : call[r].buf \in TcpBuf \cup {NULL}
  BY DEF IInv, TypeOK
<1>2. \A b \in MsgBuf : Count(work_msg_queue, b) = 0 /\ Cardinality(Holders(call, Senders, b)) = 0
  BY MsgOwnersType DEF MsgOwners, MsgToFill, One
<1>3. \A b \in TcpBuf : Count(work_tcp_msg_queue, b) = 0 /\ Cardinality(Holders(call, Receivers, b)) = 0
  BY TcpOwnersType DEF TcpOwners, TcpToFill, One
<1>4. work_msg_queue = <<>>
  <2>. SUFFICES ASSUME work_msg_queue # <<>> PROVE FALSE
    OBVIOUS
  <2>1. 1 \in DOMAIN work_msg_queue /\ work_msg_queue[1] \in MsgBuf
    BY <1>1
  <2>. QED
    BY <1>1, <1>2, <2>1, CountPositive
<1>5. work_tcp_msg_queue = <<>>
  <2>. SUFFICES ASSUME work_tcp_msg_queue # <<>> PROVE FALSE
    OBVIOUS
  <2>1. 1 \in DOMAIN work_tcp_msg_queue /\ work_tcp_msg_queue[1] \in TcpBuf
    BY <1>1
  <2>. QED
    BY <1>1, <1>3, <2>1, CountPositive
<1>6. ASSUME NEW s \in Senders PROVE call[s].buf = NULL
  <2>. SUFFICES ASSUME call[s].buf # NULL PROVE FALSE
    OBVIOUS
  <2>. DEFINE H == Holders(call, Senders, call[s].buf)
  <2>1. call[s].buf \in MsgBuf
    BY <1>1
  <2>2. s \in H /\ H \in SUBSET Senders
    BY DEF Holders
  <2>3. IsFiniteSet(H) /\ Cardinality(H) = 0
    BY <1>2, <2>1, <2>2, CallersAssumption, FS_Subset
  <2>. QED
    BY <2>2, <2>3, FS_EmptySet
<1>7. ASSUME NEW r \in Receivers PROVE call[r].buf = NULL
  <2>. SUFFICES ASSUME call[r].buf # NULL PROVE FALSE
    OBVIOUS
  <2>. DEFINE H == Holders(call, Receivers, call[r].buf)
  <2>1. call[r].buf \in TcpBuf
    BY <1>1
  <2>2. r \in H /\ H \in SUBSET Receivers
    BY DEF Holders
  <2>3. IsFiniteSet(H) /\ Cardinality(H) = 0
    BY <1>3, <2>1, <2>2, CallersAssumption, FS_Subset
  <2>. QED
    BY <2>2, <2>3, FS_EmptySet
<1>. QED
  BY <1>4, <1>5, <1>6, <1>7 DEF Callers

\* The queues join the set one after the other and never leave it.
LEMMA MembersStep ==
  ASSUME IInv, Next
  PROVE  MembersInv'
<1>. USE DEF MembersInv
<1>1. MembersInv /\ pc \in PCs
  BY DEF IInv, TypeOK
<1>2. ASSUME AddWorkMsg PROVE MembersInv'
  BY <1>1, <1>2, NothingBeforeMembers DEF AddWorkMsg
<1>3. ASSUME AddWorkTcpMsg PROVE MembersInv'
  BY <1>1, <1>3, NothingBeforeMembers DEF AddWorkTcpMsg
<1>4. ASSUME NEW s \in Senders, SenderStep(s) PROVE MembersInv'
  BY <1>1, <1>4 DEF SenderStep, SendTake, SendPost, SendTimeout, PostMsg, set
<1>5. ASSUME NEW r \in Receivers, ReceiverStep(r) PROVE MembersInv'
  BY <1>1, <1>5 DEF ReceiverStep, ReceiveTake, ReceivePost, ReceiveTimeout, PostTcp, set
<1>6. ASSUME \/ FillMsg \/ FillTcp \/ Select \/ TcpReceive \/ Parse \/ Take
             \/ TakeTimeout \/ Post \/ TcpRelease \/ MsgReceive
             \/ MsgReceiveNothing \/ Route \/ MsgRelease
      PROVE  MembersInv'
  <2>1. members' = members
    BY <1>6 DEF FillMsg, FillTcp, Select, TcpReceive, Parse, Take, TakeTimeout, Post,
                PostMsg, TcpRelease, MsgReceive, MsgReceiveNothing, Route, MsgRelease, set
  <2>2. /\ pc \notin {"add_work_msg", "add_work_tcp_msg"}
        /\ pc' \notin {"add_work_msg", "add_work_tcp_msg"}
    BY <1>6 DEF FillMsg, FillTcp, Select, TcpReceive, Parse, Take, TakeTimeout, Post,
                TcpRelease, MsgReceive, MsgReceiveNothing, Route, MsgRelease
  <2>. QED
    BY <1>1, <2>1, <2>2
<1>. QED
  BY <1>2, <1>3, <1>4, <1>5, <1>6 DEF Next, TaskStep

\* Types and bounds used with the counts of handles.
LEMMA HandlesType ==
  ASSUME IInv
  PROVE  /\ MSG_BUFFER_SIZE \in Nat /\ TCP_MSG_BUFFER_SIZE \in Nat
         /\ SetSize = MSG_BUFFER_SIZE + TCP_MSG_BUFFER_SIZE
         /\ work_msg_queue \in Seq(MsgBuf) /\ work_tcp_msg_queue \in Seq(TcpBuf)
         /\ Len(work_msg_queue) \in Nat /\ Len(work_tcp_msg_queue) \in Nat
         /\ msg_queue_set \in Seq({"msg", "tcp"}) /\ Len(msg_queue_set) \in Nat
         /\ Count(msg_queue_set, "msg") \in Nat /\ Count(msg_queue_set, "tcp") \in Nat
         /\ Len(msg_queue_set)
              = Count(msg_queue_set, "msg") + Count(msg_queue_set, "tcp")
         /\ HandlesInv
<1>1. /\ work_msg_queue \in Seq(MsgBuf) /\ work_tcp_msg_queue \in Seq(TcpBuf)
      /\ msg_queue_set \in Seq({"msg", "tcp"})
  BY DEF IInv, TypeOK
<1>2. Count(msg_queue_set, "msg") \in Nat /\ Count(msg_queue_set, "tcp") \in Nat
  BY <1>1, CountType
<1>3. Len(msg_queue_set) = Count(msg_queue_set, "msg") + Count(msg_queue_set, "tcp")
  BY <1>1, CountTwo
<1>. QED
  BY <1>1, <1>2, <1>3, SizeAssumption DEF IInv, SetSize

\* When the set is full, so many of its handles are "msg" handles that the
\* posted node messages stay covered without the lost one.
LEMMA PostMsgHandles ==
  ASSUME IInv, "msg" \in members, NEW b \in MsgBuf, PostMsg(b)
  PROVE  /\ Len(work_msg_queue') <= MSG_BUFFER_SIZE
         /\ Len(msg_queue_set') <= SetSize
         /\ Count(msg_queue_set', "tcp") = Count(msg_queue_set, "tcp")
         /\ Len(work_msg_queue') <= Count(msg_queue_set', "msg") + One(pc = "msg_receive")
<1>. DEFINE M == Count(msg_queue_set, "msg")
            T == Count(msg_queue_set, "tcp")
            O == One(pc = "msg_receive")
            P == One(pc = "tcp_receive")
<1>1. /\ MSG_BUFFER_SIZE \in Nat /\ TCP_MSG_BUFFER_SIZE \in Nat
      /\ SetSize = MSG_BUFFER_SIZE + TCP_MSG_BUFFER_SIZE
      /\ Len(work_msg_queue) \in Nat /\ Len(work_tcp_msg_queue) \in Nat
      /\ Len(msg_queue_set) \in Nat /\ M \in Nat /\ T \in Nat
      /\ Len(msg_queue_set) = M + T
      /\ O \in {0, 1} /\ P \in {0, 1}
  BY HandlesType DEF One
<1>2. /\ Len(work_msg_queue) <= MSG_BUFFER_SIZE
      /\ Len(work_tcp_msg_queue) <= TCP_MSG_BUFFER_SIZE
      /\ Len(msg_queue_set) <= SetSize
      /\ T + P <= Len(work_tcp_msg_queue)
      /\ Len(work_msg_queue) <= M + O
  BY HandlesType DEF HandlesInv
<1>3. /\ work_msg_queue \in Seq(MsgBuf)
      /\ msg_queue_set \in Seq({"msg", "tcp"})
  BY HandlesType
<1>. HIDE DEF M, T, O, P
<1>4. CASE ~(Len(work_msg_queue) < MSG_BUFFER_SIZE)
  <2>1. work_msg_queue' = work_msg_queue /\ msg_queue_set' = msg_queue_set
    BY <1>4 DEF PostMsg, Sent
  <2>. QED
    BY <1>2, <2>1 DEF M, T, O
<1>5. CASE /\ Len(work_msg_queue) < MSG_BUFFER_SIZE
           /\ Len(msg_queue_set) < SetSize
  <2>1. /\ work_msg_queue' = Append(work_msg_queue, b)
        /\ msg_queue_set' = Append(msg_queue_set, "msg")
    BY <1>5 DEF PostMsg, Sent, Noted
  <2>2. /\ Len(work_msg_queue') = Len(work_msg_queue) + 1
        /\ Len(msg_queue_set') = Len(msg_queue_set) + 1
    BY <1>3, <2>1
  <2>3. /\ Count(msg_queue_set', "msg") = M + One("msg" = "msg")
        /\ Count(msg_queue_set', "tcp") = T + One("msg" = "tcp")
    BY <1>3, <2>1, CountAppend DEF M, T
  <2>4. Count(msg_queue_set', "msg") = M + 1 /\ Count(msg_queue_set', "tcp") = T
    BY <1>1, <2>3 DEF One
  <2>. QED
    BY <1>1, <1>2, <1>5, <2>2, <2>4 DEF T, O
<1>6. CASE /\ Len(work_msg_queue) < MSG_BUFFER_SIZE
           /\ ~(Len(msg_queue_set) < SetSize)
  <2>1. /\ work_msg_queue' = Append(work_msg_queue, b)
        /\ msg_queue_set' = msg_queue_set
    BY <1>6 DEF PostMsg, Sent, Noted
  <2>2. Len(work_msg_queue') = Len(work_msg_queue) + 1
    BY <1>3, <2>1
  <2>3. M >= MSG_BUFFER_SIZE
    BY <1>1, <1>2, <1>6
  <2>. QED
    BY <1>1, <1>2, <1>6, <2>1, <2>2, <2>3 DEF M, T, O
<1>. QED
  BY <1>4, <1>5, <1>6

\* A TCP post adds a "tcp" handle with its message, or only the message.
LEMMA PostTcpHandles ==
  ASSUME IInv, NEW b \in TcpBuf, PostTcp(b)
  PROVE  /\ Len(work_tcp_msg_queue') <= TCP_MSG_BUFFER_SIZE
         /\ Len(msg_queue_set') <= SetSize
         /\ Count(msg_queue_set', "msg") = Count(msg_queue_set, "msg")
         /\ Count(msg_queue_set', "tcp") + One(pc = "tcp_receive")
              <= Len(work_tcp_msg_queue')
<1>. DEFINE M == Count(msg_queue_set, "msg")
            T == Count(msg_queue_set, "tcp")
            P == One(pc = "tcp_receive")
<1>1. /\ MSG_BUFFER_SIZE \in Nat /\ TCP_MSG_BUFFER_SIZE \in Nat
      /\ SetSize = MSG_BUFFER_SIZE + TCP_MSG_BUFFER_SIZE
      /\ Len(work_tcp_msg_queue) \in Nat
      /\ Len(msg_queue_set) \in Nat /\ M \in Nat /\ T \in Nat /\ P \in {0, 1}
  BY HandlesType DEF One
<1>2. /\ Len(work_tcp_msg_queue) <= TCP_MSG_BUFFER_SIZE
      /\ Len(msg_queue_set) <= SetSize
      /\ T + P <= Len(work_tcp_msg_queue)
  BY HandlesType DEF HandlesInv
<1>3. /\ work_tcp_msg_queue \in Seq(TcpBuf)
      /\ msg_queue_set \in Seq({"msg", "tcp"})
  BY HandlesType
<1>. HIDE DEF M, T, P
<1>4. CASE ~(Len(work_tcp_msg_queue) < TCP_MSG_BUFFER_SIZE)
  <2>1. work_tcp_msg_queue' = work_tcp_msg_queue /\ msg_queue_set' = msg_queue_set
    BY <1>4 DEF PostTcp, Sent
  <2>. QED
    BY <1>2, <2>1 DEF M, T, P
<1>5. CASE /\ Len(work_tcp_msg_queue) < TCP_MSG_BUFFER_SIZE
           /\ "tcp" \in members /\ Len(msg_queue_set) < SetSize
  <2>1. /\ work_tcp_msg_queue' = Append(work_tcp_msg_queue, b)
        /\ msg_queue_set' = Append(msg_queue_set, "tcp")
    BY <1>5 DEF PostTcp, Sent, Noted
  <2>2. /\ Len(work_tcp_msg_queue') = Len(work_tcp_msg_queue) + 1
        /\ Len(msg_queue_set') = Len(msg_queue_set) + 1
    BY <1>3, <2>1
  <2>3. /\ Count(msg_queue_set', "tcp") = T + One("tcp" = "tcp")
        /\ Count(msg_queue_set', "msg") = M + One("tcp" = "msg")
    <3>1. "tcp" \in {"msg", "tcp"} /\ "msg" \in {"msg", "tcp"}
      OBVIOUS
    <3>2. Count(Append(msg_queue_set, "tcp"), "tcp") = T + One("tcp" = "tcp")
      BY <1>3, <3>1, CountAppend DEF T
    <3>3. Count(Append(msg_queue_set, "tcp"), "msg") = M + One("tcp" = "msg")
      BY <1>3, <3>1, CountAppend DEF M
    <3>. QED
      BY <2>1, <3>2, <3>3
  <2>4. Count(msg_queue_set', "tcp") = T + 1 /\ Count(msg_queue_set', "msg") = M
    BY <1>1, <2>3 DEF One
  <2>. QED
    BY <1>1, <1>2, <1>5, <2>2, <2>4 DEF M, P
<1>6. CASE /\ Len(work_tcp_msg_queue) < TCP_MSG_BUFFER_SIZE
           /\ ~("tcp" \in members /\ Len(msg_queue_set) < SetSize)
  <2>1. /\ work_tcp_msg_queue' = Append(work_tcp_msg_queue, b)
        /\ msg_queue_set' = msg_queue_set
    BY <1>6 DEF PostTcp, Sent, Noted
  <2>2. Len(work_tcp_msg_queue') = Len(work_tcp_msg_queue) + 1
    BY <1>3, <2>1
  <2>. QED
    BY <1>1, <1>2, <1>6, <2>1, <2>2 DEF M, T, P
<1>. QED
  BY <1>4, <1>5, <1>6

\* A caller that holds a buffer posts to queues that belong to the set.
LEMMA MembersWhenPosting ==
  ASSUME IInv, \/ pc = "post"
               \/ \E c \in Callers : call[c].buf # NULL
  PROVE  "msg" \in members
<1>1. pc \notin {"add_work_msg", "add_work_tcp_msg"}
  BY NothingBeforeMembers
<1>. QED
  BY <1>1 DEF IInv, MembersInv

\* Every step keeps the set and its queues in proportion: the posts by
\* PostMsgHandles and PostTcpHandles, the others because they take a handle, a
\* message, or neither.
LEMMA HandlesStep ==
  ASSUME IInv, Next
  PROVE  HandlesInv'
<1>. DEFINE M == Count(msg_queue_set, "msg")
            T == Count(msg_queue_set, "tcp")
            M1 == Count(msg_queue_set', "msg")
            T1 == Count(msg_queue_set', "tcp")
            Lm == Len(work_msg_queue)
            Lt == Len(work_tcp_msg_queue)
            Lm1 == Len(work_msg_queue')
            Lt1 == Len(work_tcp_msg_queue')
            Ls1 == Len(msg_queue_set')
<1>1. /\ MSG_BUFFER_SIZE \in Nat /\ TCP_MSG_BUFFER_SIZE \in Nat
      /\ SetSize = MSG_BUFFER_SIZE + TCP_MSG_BUFFER_SIZE
      /\ Lm \in Nat /\ Lt \in Nat /\ Len(msg_queue_set) \in Nat
      /\ M \in Nat /\ T \in Nat
  BY HandlesType
<1>2. /\ Lm <= MSG_BUFFER_SIZE /\ Lt <= TCP_MSG_BUFFER_SIZE
      /\ Len(msg_queue_set) <= SetSize
      /\ T + One(pc = "tcp_receive") <= Lt
      /\ Lm <= M + One(pc = "msg_receive")
  BY HandlesType DEF HandlesInv
<1>3. /\ work_msg_queue \in Seq(MsgBuf) /\ work_tcp_msg_queue \in Seq(TcpBuf)
      /\ msg_queue_set \in Seq({"msg", "tcp"})
      /\ \A s \in Senders : call[s].buf \in MsgBuf \cup {NULL}
      /\ \A r \in Receivers : call[r].buf \in TcpBuf \cup {NULL}
      /\ free_msg \in MsgBuf \cup {NULL}
  BY DEF IInv, TypeOK
<1>. SUFFICES /\ Lm1 <= MSG_BUFFER_SIZE /\ Lt1 <= TCP_MSG_BUFFER_SIZE
              /\ Ls1 <= SetSize
              /\ T1 + One(pc' = "tcp_receive") <= Lt1
              /\ Lm1 <= M1 + One(pc' = "msg_receive")
  BY DEF HandlesInv
<1>. DEFINE Goal == /\ Lm1 <= MSG_BUFFER_SIZE /\ Lt1 <= TCP_MSG_BUFFER_SIZE
                    /\ Ls1 <= SetSize
                    /\ T1 + One(pc' = "tcp_receive") <= Lt1
                    /\ Lm1 <= M1 + One(pc' = "msg_receive")
<1>4. ASSUME NEW s \in Senders, SendPost(s) PROVE Goal
  <2>1. /\ call[s].buf # NULL /\ PostMsg(call[s].buf)
        /\ UNCHANGED <<work_tcp_msg_queue, pc>>
    BY <1>4 DEF SendPost, tcpQueues
  <2>2. call[s].buf \in MsgBuf /\ "msg" \in members
    BY <1>3, <2>1, MembersWhenPosting DEF Callers
  <2>. QED
    BY <1>2, <2>1, <2>2, PostMsgHandles
<1>5. ASSUME Post PROVE Goal
  <2>1. /\ free_msg \in MsgBuf /\ PostMsg(free_msg) /\ "msg" \in members
        /\ UNCHANGED work_tcp_msg_queue
    BY <1>3, <1>5, MembersWhenPosting DEF Post, tcpQueues, IInv, PointersInv
  <2>2. /\ Lm1 <= MSG_BUFFER_SIZE /\ Ls1 <= SetSize /\ T1 = T
        /\ Lm1 <= M1 + One(pc = "msg_receive")
    BY <2>1, PostMsgHandles
  <2>3. /\ One(pc = "msg_receive") = 0 /\ One(pc' = "msg_receive") = 0
        /\ One(pc = "tcp_receive") = 0 /\ One(pc' = "tcp_receive") = 0
    BY <1>5 DEF Post, One
  <2>. QED
    BY <1>2, <2>1, <2>2, <2>3
<1>6. ASSUME NEW r \in Receivers, ReceivePost(r) PROVE Goal
  <2>1. /\ call[r].buf # NULL /\ PostTcp(call[r].buf)
        /\ UNCHANGED <<work_msg_queue, pc>>
    BY <1>6 DEF ReceivePost, msgQueues
  <2>2. call[r].buf \in TcpBuf
    BY <1>3, <2>1
  <2>. QED
    BY <1>2, <2>1, <2>2, PostTcpHandles
<1>7. ASSUME Select PROVE Goal
  <2>1. /\ pc = "select" /\ msg_queue_set # <<>>
        /\ msg_queue_set' = Tail(msg_queue_set)
        /\ pc' = IF Head(msg_queue_set) = "tcp" THEN "tcp_receive" ELSE "msg_receive"
        /\ Lm1 = Lm /\ Lt1 = Lt
    BY <1>7 DEF Select, msgQueues, tcpQueues
  <2>2. /\ Head(msg_queue_set) \in {"msg", "tcp"}
        /\ Ls1 = Len(msg_queue_set) - 1
        /\ msg_queue_set' \in Seq({"msg", "tcp"})
    BY <1>3, <2>1
  <2>3. /\ M = M1 + One(Head(msg_queue_set) = "msg")
        /\ T = T1 + One(Head(msg_queue_set) = "tcp")
    BY <1>3, <2>1, CountTail
  <2>4. M1 \in Nat /\ T1 \in Nat
    BY <2>2, CountType
  <2>5. One(pc = "msg_receive") = 0 /\ One(pc = "tcp_receive") = 0
    BY <2>1 DEF One
  <2>6. CASE Head(msg_queue_set) = "tcp"
    <3>1. /\ One(Head(msg_queue_set) = "msg") = 0 /\ One(Head(msg_queue_set) = "tcp") = 1
          /\ One(pc' = "msg_receive") = 0 /\ One(pc' = "tcp_receive") = 1
      BY <2>1, <2>6 DEF One
    <3>. HIDE DEF M, T, M1, T1, Lm, Lt, Lm1, Lt1, Ls1
    <3>. QED
      BY <1>1, <1>2, <2>1, <2>2, <2>3, <2>4, <2>5, <3>1
  <2>7. CASE Head(msg_queue_set) = "msg"
    <3>1. /\ One(Head(msg_queue_set) = "msg") = 1 /\ One(Head(msg_queue_set) = "tcp") = 0
          /\ One(pc' = "msg_receive") = 1 /\ One(pc' = "tcp_receive") = 0
      BY <2>1, <2>7 DEF One
    <3>. HIDE DEF M, T, M1, T1, Lm, Lt, Lm1, Lt1, Ls1
    <3>. QED
      BY <1>1, <1>2, <2>1, <2>2, <2>3, <2>4, <2>5, <3>1
  <2>. QED
    BY <2>2, <2>6, <2>7
<1>8. ASSUME TcpReceive PROVE Goal
  <2>1. /\ pc = "tcp_receive" /\ pc' = "parse" /\ work_tcp_msg_queue # <<>>
        /\ work_tcp_msg_queue' = Tail(work_tcp_msg_queue)
        /\ UNCHANGED <<work_msg_queue, msg_queue_set>>
    BY <1>8, NotStray DEF TcpReceive, msgQueues, set
  <2>2. Lt1 = Lt - 1
    BY <1>3, <2>1
  <2>3. /\ One(pc = "tcp_receive") = 1 /\ One(pc' = "tcp_receive") = 0
        /\ One(pc = "msg_receive") = 0 /\ One(pc' = "msg_receive") = 0
    BY <2>1 DEF One
  <2>4. Lm1 = Lm /\ M1 = M /\ T1 = T /\ Ls1 = Len(msg_queue_set)
    BY <2>1
  <2>. HIDE DEF M, T, M1, T1, Lm, Lt, Lm1, Lt1, Ls1
  <2>. QED
    BY <1>1, <1>2, <2>2, <2>3, <2>4
<1>9. ASSUME MsgReceive PROVE Goal
  <2>1. /\ pc = "msg_receive" /\ pc' = "route" /\ work_msg_queue # <<>>
        /\ work_msg_queue' = Tail(work_msg_queue)
        /\ UNCHANGED <<work_tcp_msg_queue, msg_queue_set>>
    BY <1>9 DEF MsgReceive, tcpQueues, set
  <2>2. Lm1 = Lm - 1
    BY <1>3, <2>1
  <2>3. /\ One(pc = "tcp_receive") = 0 /\ One(pc' = "tcp_receive") = 0
        /\ One(pc = "msg_receive") = 1 /\ One(pc' = "msg_receive") = 0
    BY <2>1 DEF One
  <2>4. Lt1 = Lt /\ M1 = M /\ T1 = T /\ Ls1 = Len(msg_queue_set)
    BY <2>1
  <2>. HIDE DEF M, T, M1, T1, Lm, Lt, Lm1, Lt1, Ls1
  <2>. QED
    BY <1>1, <1>2, <2>2, <2>3, <2>4
<1>10. ASSUME MsgReceiveNothing PROVE Goal
  <2>1. /\ pc' = "select" /\ Lm = 0 /\ pc = "msg_receive"
        /\ UNCHANGED <<work_msg_queue, work_tcp_msg_queue, msg_queue_set>>
    BY <1>10 DEF MsgReceiveNothing, msgQueues, tcpQueues, set
  <2>2. /\ One(pc = "tcp_receive") = 0 /\ One(pc' = "tcp_receive") = 0
        /\ One(pc' = "msg_receive") = 0
    BY <2>1 DEF One
  <2>3. Lm1 = 0 /\ Lt1 = Lt /\ M1 = M /\ T1 = T /\ Ls1 = Len(msg_queue_set)
    BY <2>1
  <2>. HIDE DEF M, T, M1, T1, Lm, Lt, Lm1, Lt1, Ls1
  <2>. QED
    BY <1>1, <1>2, <2>2, <2>3
<1>11. ASSUME TcpRelease PROVE Goal
  <2>1. /\ pc = "tcp_release" /\ pc' = "msg_receive"
        /\ UNCHANGED <<work_msg_queue, work_tcp_msg_queue, msg_queue_set>>
    BY <1>11 DEF TcpRelease, msgQueues, set
  <2>2. /\ One(pc = "tcp_receive") = 0 /\ One(pc' = "tcp_receive") = 0
        /\ One(pc = "msg_receive") = 0 /\ One(pc' = "msg_receive") = 1
    BY <2>1 DEF One
  <2>3. Lm1 = Lm /\ Lt1 = Lt /\ M1 = M /\ T1 = T /\ Ls1 = Len(msg_queue_set)
    BY <2>1
  <2>. HIDE DEF M, T, M1, T1, Lm, Lt, Lm1, Lt1, Ls1
  <2>. QED
    BY <1>1, <1>2, <2>2, <2>3
<1>12. ASSUME \/ \E s \in Senders : (\E m \in BoardMessages : SendTake(s, m)) \/ SendTimeout(s)
              \/ \E r \in Receivers : (\E t \in Texts : ReceiveTake(r, t)) \/ ReceiveTimeout(r)
       PROVE  Goal
  <2>1. UNCHANGED <<work_msg_queue, work_tcp_msg_queue, msg_queue_set, pc>>
    BY <1>12 DEF SendTake, SendTimeout, ReceiveTake, ReceiveTimeout, msgQueues, tcpQueues, set
  <2>. QED
    BY <1>2, <2>1
<1>13. ASSUME \/ AddWorkMsg \/ AddWorkTcpMsg \/ FillMsg \/ FillTcp \/ Parse
              \/ Take \/ TakeTimeout \/ Route \/ MsgRelease
       PROVE  Goal
  <2>1. UNCHANGED <<work_msg_queue, work_tcp_msg_queue, msg_queue_set>>
    BY <1>13 DEF AddWorkMsg, AddWorkTcpMsg, FillMsg, FillTcp, Parse, Take, TakeTimeout,
                 Route, MsgRelease, msgQueues, tcpQueues, set
  <2>2. /\ pc \notin {"tcp_receive", "msg_receive"}
        /\ pc' \notin {"tcp_receive", "msg_receive"}
    BY <1>13 DEF AddWorkMsg, AddWorkTcpMsg, FillMsg, FillTcp, Parse, Take, TakeTimeout,
                 Route, MsgRelease
  <2>3. /\ One(pc = "tcp_receive") = 0 /\ One(pc' = "tcp_receive") = 0
        /\ One(pc = "msg_receive") = 0 /\ One(pc' = "msg_receive") = 0
    BY <2>2 DEF One
  <2>. QED
    BY <1>2, <2>1, <2>3
<1>. QED
  BY <1>4, <1>5, <1>6, <1>7, <1>8, <1>9, <1>10, <1>11, <1>12, <1>13
     DEF Next, SenderStep, ReceiverStep, TaskStep

-----------------------------------------------------------------------------
(* The contents of the buffers.                                            *)

\* What a queue holds after a send, and after a receive.
LEMMA SentElements ==
  ASSUME NEW S, NEW q \in Seq(S), NEW b \in S, NEW n,
         NEW i \in DOMAIN Sent(q, b, n)
  PROVE  \/ Sent(q, b, n)[i] = b
         \/ \E j \in DOMAIN q : Sent(q, b, n)[i] = q[j]
BY DEF Sent

\* A receive moves the elements that stay one place forward.
LEMMA TailElements ==
  ASSUME NEW S, NEW q \in Seq(S), q # <<>>, NEW i \in DOMAIN Tail(q)
  PROVE  i + 1 \in DOMAIN q /\ Tail(q)[i] = q[i + 1]
OBVIOUS

\* The buffer a taker finds at the head of a free queue is in no other use.
LEMMA FreeMsgUnused ==
  ASSUME IInv, free_msg_queue # <<>>
  PROVE  /\ Head(free_msg_queue) \in MsgBuf
         /\ \A i \in DOMAIN work_msg_queue : work_msg_queue[i] # Head(free_msg_queue)
         /\ \A s \in Senders : call[s].buf # Head(free_msg_queue)
         /\ free_msg # Head(free_msg_queue) /\ work_msg # Head(free_msg_queue)
<1>. DEFINE h == Head(free_msg_queue)
<1>1. free_msg_queue \in Seq(MsgBuf) /\ work_msg_queue \in Seq(MsgBuf)
  BY DEF IInv, TypeOK
<1>2. h \in MsgBuf /\ 1 \in DOMAIN free_msg_queue /\ free_msg_queue[1] = h
  BY <1>1
<1>3. Count(free_msg_queue, h) > 0
  BY <1>1, <1>2, CountPositive
<1>. HIDE DEF h
<1>4. /\ Count(free_msg_queue, h) \in Nat /\ Count(work_msg_queue, h) \in Nat
      /\ Cardinality(Holders(call, Senders, h)) \in Nat
      /\ MsgOwners(h) = 1
  BY <1>2, MsgOwnersType
<1>5. /\ Count(work_msg_queue, h) = 0 /\ Cardinality(Holders(call, Senders, h)) = 0
      /\ free_msg # h /\ work_msg # h
  BY <1>3, <1>4 DEF MsgOwners, One
<1>6. ASSUME NEW i \in DOMAIN work_msg_queue PROVE work_msg_queue[i] # h
  <2>1. Count(work_msg_queue, work_msg_queue[i]) > 0
    BY <1>1, CountPositive
  <2>. QED
    BY <1>4, <1>5, <2>1
<1>7. ASSUME NEW s \in Senders PROVE call[s].buf # h
  <2>1. Holders(call, Senders, h) \in SUBSET Senders
    BY DEF Holders
  <2>2. Holders(call, Senders, h) = {}
    BY <1>5, <2>1, CallersAssumption, FS_Subset, FS_EmptySet
  <2>. QED
    BY <2>2 DEF Holders
<1>. QED
  BY <1>2, <1>5, <1>6, <1>7 DEF h

\* The same for TCP buffers.
LEMMA FreeTcpUnused ==
  ASSUME IInv, free_tcp_msg_queue # <<>>
  PROVE  /\ Head(free_tcp_msg_queue) \in TcpBuf
         /\ \A i \in DOMAIN work_tcp_msg_queue :
               work_tcp_msg_queue[i] # Head(free_tcp_msg_queue)
         /\ \A r \in Receivers : call[r].buf # Head(free_tcp_msg_queue)
         /\ work_tcp_msg # Head(free_tcp_msg_queue)
<1>. DEFINE h == Head(free_tcp_msg_queue)
<1>1. free_tcp_msg_queue \in Seq(TcpBuf) /\ work_tcp_msg_queue \in Seq(TcpBuf)
  BY DEF IInv, TypeOK
<1>2. h \in TcpBuf /\ 1 \in DOMAIN free_tcp_msg_queue /\ free_tcp_msg_queue[1] = h
  BY <1>1
<1>3. Count(free_tcp_msg_queue, h) > 0
  BY <1>1, <1>2, CountPositive
<1>. HIDE DEF h
<1>4. /\ Count(free_tcp_msg_queue, h) \in Nat /\ Count(work_tcp_msg_queue, h) \in Nat
      /\ Cardinality(Holders(call, Receivers, h)) \in Nat
      /\ TcpOwners(h) = 1
  BY <1>2, TcpOwnersType
<1>5. /\ Count(work_tcp_msg_queue, h) = 0 /\ Cardinality(Holders(call, Receivers, h)) = 0
      /\ work_tcp_msg # h
  BY <1>3, <1>4 DEF TcpOwners, One
<1>6. ASSUME NEW i \in DOMAIN work_tcp_msg_queue PROVE work_tcp_msg_queue[i] # h
  <2>1. Count(work_tcp_msg_queue, work_tcp_msg_queue[i]) > 0
    BY <1>1, CountPositive
  <2>. QED
    BY <1>4, <1>5, <2>1
<1>7. ASSUME NEW r \in Receivers PROVE call[r].buf # h
  <2>1. Holders(call, Receivers, h) \in SUBSET Receivers
    BY DEF Holders
  <2>2. Holders(call, Receivers, h) = {}
    BY <1>5, <2>1, CallersAssumption, FS_Subset, FS_EmptySet
  <2>. QED
    BY <2>2 DEF Holders
<1>. QED
  BY <1>2, <1>5, <1>6, <1>7 DEF h

\* Writing a buffer that is in no other use spoils no message.
LEMMA MsgContentsStep ==
  ASSUME IInv, Next
  PROVE  MsgContentsInv'
<1>1. /\ MsgContentsInv /\ TcpContentsInv /\ call \in CallType
      /\ msg_buffer \in [MsgBuf -> Messages \cup {NoMsg, Garbled}]
      /\ free_msg_queue \in Seq(MsgBuf) /\ work_msg_queue \in Seq(MsgBuf)
      /\ free_msg \in MsgBuf \cup {NULL} /\ work_msg \in MsgBuf \cup {NULL}
      /\ \A s \in Senders : call[s].buf \in MsgBuf \cup {NULL}
      /\ PointersInv
  BY DEF IInv, ContentsInv, TypeOK, CallType
<1>2. Senders \subseteq Callers /\ Receivers \subseteq Callers /\ NULL \notin MsgBuf
  BY DEF Callers, NULL, MsgBuf
<1>3. ASSUME NEW s \in Senders, NEW m \in BoardMessages, SendTake(s, m)
      PROVE  MsgContentsInv'
  <2>. DEFINE h == Head(free_msg_queue)
  <2>1. /\ free_msg_queue # <<>> /\ call' = [call EXCEPT ![s].buf = h]
        /\ msg_buffer' = [msg_buffer EXCEPT ![h] = m]
        /\ UNCHANGED <<work_msg_queue, pc, free_msg, work_msg>>
    BY <1>3 DEF SendTake, locals
  <2>2. /\ h \in MsgBuf /\ \A i \in DOMAIN work_msg_queue : work_msg_queue[i] # h
        /\ \A d \in Senders : call[d].buf # h
        /\ free_msg # h /\ work_msg # h
    BY <2>1, FreeMsgUnused
  <2>. HIDE DEF h
  <2>3. \A d \in Callers : call'[d].buf = IF d = s THEN h ELSE call[d].buf
    <3>1. h \in Nat
      BY <2>2 DEF MsgBuf
    <3>. QED
      BY <1>1, <1>2, <2>1, <3>1, CallTake
  <2>4. /\ msg_buffer'[h] \in BoardMessages /\ msg_buffer'[h] \in Messages
        /\ \A b \in MsgBuf : b # h => msg_buffer'[b] = msg_buffer[b]
    BY <1>1, <2>1, <2>2 DEF BoardMessages
  <2>5. \A i \in DOMAIN work_msg_queue' : msg_buffer'[work_msg_queue'[i]] \in Messages
    BY <1>1, <2>1, <2>2, <2>4 DEF MsgContentsInv
  <2>6. \A d \in Senders : call'[d].buf # NULL => msg_buffer'[call'[d].buf] \in BoardMessages
    BY <1>1, <1>2, <2>2, <2>3, <2>4 DEF MsgContentsInv
  <2>7. pc' = "post" => msg_buffer'[free_msg'] \in Messages
    BY <1>1, <2>1, <2>2, <2>4 DEF MsgContentsInv, PointersInv
  <2>8. pc' = "route" => msg_buffer'[work_msg'] \in Messages
    BY <1>1, <2>1, <2>2, <2>4 DEF MsgContentsInv, PointersInv
  <2>. QED
    BY <2>5, <2>6, <2>7, <2>8 DEF MsgContentsInv
<1>4. ASSUME NEW s \in Senders, SendPost(s)
      PROVE  MsgContentsInv'
  <2>1. /\ call[s].buf \in MsgBuf /\ msg_buffer[call[s].buf] \in Messages
        /\ work_msg_queue' = Sent(work_msg_queue, call[s].buf, MSG_BUFFER_SIZE)
        /\ call' = [call EXCEPT ![s] = [buf |-> NULL, result |-> "STD_SUCCESS"]]
        /\ UNCHANGED <<msg_buffer, pc, free_msg, work_msg>>
    BY <1>1, <1>4 DEF SendPost, PostMsg, buffers, locals, MsgContentsInv, BoardMessages
  <2>2. \A d \in Callers : call'[d].buf = IF d = s THEN NULL ELSE call[d].buf
    BY <1>1, <1>2, <2>1, CallReturn
  <2>3. ASSUME NEW i \in DOMAIN work_msg_queue'
        PROVE  msg_buffer[work_msg_queue'[i]] \in Messages
    BY <1>1, <2>1, <2>3, SentElements DEF MsgContentsInv
  <2>4. \A d \in Senders : call'[d].buf # NULL => msg_buffer[call'[d].buf] \in BoardMessages
    BY <1>1, <1>2, <2>2 DEF MsgContentsInv
  <2>. QED
    BY <1>1, <2>1, <2>3, <2>4 DEF MsgContentsInv
<1>5. ASSUME NEW c \in Callers,
             \/ c \in Senders /\ SendTimeout(c)
             \/ c \in Receivers /\ ReceiveTimeout(c)
      PROVE  MsgContentsInv'
  <2>1. /\ UNCHANGED <<msg_buffer, pc, free_msg, work_msg, work_msg_queue>>
        /\ call' = [call EXCEPT ![c].result = "STD_FAILURE"]
    BY <1>5 DEF SendTimeout, ReceiveTimeout, msgQueues, buffers, locals
  <2>2. \A d \in Callers : call'[d].buf = call[d].buf
    BY <1>1, <2>1, CallFail
  <2>. QED
    BY <1>1, <1>2, <2>1, <2>2 DEF MsgContentsInv
<1>6. ASSUME NEW r \in Receivers, \/ \E t \in Texts : ReceiveTake(r, t)
                                 \/ ReceivePost(r)
      PROVE  MsgContentsInv'
  <2>1. UNCHANGED <<msg_buffer, pc, free_msg, work_msg, work_msg_queue>>
    BY <1>6 DEF ReceiveTake, ReceivePost, msgQueues, buffers, locals
  <2>2. \A d \in Senders : call'[d] = call[d]
    BY <1>1, <1>2, <1>6, CallersAssumption DEF ReceiveTake, ReceivePost, CallType
  <2>. QED
    BY <1>1, <2>1, <2>2 DEF MsgContentsInv
<1>7. ASSUME Take
      PROVE  MsgContentsInv'
  <2>. DEFINE h == Head(free_msg_queue)
  <2>1. /\ free_msg_queue # <<>> /\ free_msg' = h /\ pc = "take" /\ pc' = "post"
        /\ msg_buffer' = [msg_buffer EXCEPT ![h] = tcp_msg_buffer[work_tcp_msg]]
        /\ UNCHANGED <<work_msg_queue, call, work_msg>>
    BY <1>7 DEF Take
  <2>2. /\ h \in MsgBuf /\ \A i \in DOMAIN work_msg_queue : work_msg_queue[i] # h
        /\ \A d \in Senders : call[d].buf # h
    BY <2>1, FreeMsgUnused
  <2>. HIDE DEF h
  <2>3. msg_buffer'[h] \in Messages /\ \A b \in MsgBuf : b # h => msg_buffer'[b] = msg_buffer[b]
    BY <1>1, <2>1, <2>2 DEF TcpContentsInv
  <2>4. \A i \in DOMAIN work_msg_queue : work_msg_queue[i] \in MsgBuf
    BY <1>1
  <2>. QED
    BY <1>1, <2>1, <2>2, <2>3, <2>4 DEF MsgContentsInv
<1>8. ASSUME Post
      PROVE  MsgContentsInv'
  <2>1. /\ free_msg \in MsgBuf /\ msg_buffer[free_msg] \in Messages
        /\ work_msg_queue' = Sent(work_msg_queue, free_msg, MSG_BUFFER_SIZE)
        /\ pc' = "tcp_release" /\ UNCHANGED <<msg_buffer, call>>
    BY <1>1, <1>8 DEF Post, PostMsg, buffers, MsgContentsInv, PointersInv
  <2>2. ASSUME NEW i \in DOMAIN work_msg_queue'
        PROVE  msg_buffer[work_msg_queue'[i]] \in Messages
    BY <1>1, <2>1, <2>2, SentElements DEF MsgContentsInv
  <2>. QED
    BY <1>1, <2>1, <2>2 DEF MsgContentsInv
<1>9. ASSUME MsgReceive
      PROVE  MsgContentsInv'
  <2>1. /\ work_msg_queue # <<>> /\ work_msg_queue' = Tail(work_msg_queue)
        /\ work_msg' = Head(work_msg_queue) /\ pc' = "route"
        /\ UNCHANGED <<msg_buffer, call>>
    BY <1>9 DEF MsgReceive, buffers
  <2>2. 1 \in DOMAIN work_msg_queue /\ work_msg' = work_msg_queue[1]
    BY <1>1, <2>1
  <2>3. ASSUME NEW i \in DOMAIN work_msg_queue'
        PROVE  msg_buffer[work_msg_queue'[i]] \in Messages
    BY <1>1, <2>1, <2>3, TailElements DEF MsgContentsInv
  <2>. QED
    BY <1>1, <2>1, <2>2, <2>3 DEF MsgContentsInv
<1>10. ASSUME \/ AddWorkMsg \/ AddWorkTcpMsg \/ FillMsg \/ FillTcp \/ Select
              \/ TcpReceive \/ Parse \/ TakeTimeout \/ TcpRelease
              \/ MsgReceiveNothing \/ Route \/ MsgRelease
       PROVE  MsgContentsInv'
  <2>1. UNCHANGED <<work_msg_queue, msg_buffer, call>>
    BY <1>10 DEF AddWorkMsg, AddWorkTcpMsg, FillMsg, FillTcp, Select, TcpReceive, Parse,
                 TakeTimeout, TcpRelease, MsgReceiveNothing, Route, MsgRelease,
                 msgQueues, buffers
  <2>2. pc' \notin {"post", "route"}
    BY <1>10 DEF AddWorkMsg, AddWorkTcpMsg, FillMsg, FillTcp, Select, TcpReceive, Parse,
                 TakeTimeout, TcpRelease, MsgReceiveNothing, Route, MsgRelease
  <2>. QED
    BY <1>1, <2>1, <2>2 DEF MsgContentsInv
<1>. QED
  BY <1>2, <1>3, <1>4, <1>5, <1>6, <1>7, <1>8, <1>9, <1>10
     DEF Next, SenderStep, ReceiverStep, TaskStep

\* The same for the texts in the TCP buffers.
LEMMA TcpContentsStep ==
  ASSUME IInv, Next
  PROVE  TcpContentsInv'
<1>1. /\ TcpContentsInv /\ call \in CallType
      /\ tcp_msg_buffer \in [TcpBuf -> Texts \cup {NoMsg}]
      /\ free_tcp_msg_queue \in Seq(TcpBuf) /\ work_tcp_msg_queue \in Seq(TcpBuf)
      /\ work_tcp_msg \in TcpBuf \cup {NULL}
      /\ \A r \in Receivers : call[r].buf \in TcpBuf \cup {NULL}
      /\ PointersInv
  BY DEF IInv, ContentsInv, TypeOK, CallType
<1>2. Senders \subseteq Callers /\ Receivers \subseteq Callers /\ NULL \notin TcpBuf
  BY DEF Callers, NULL, TcpBuf
<1>3. ASSUME NEW r \in Receivers, NEW t \in Texts, ReceiveTake(r, t)
      PROVE  TcpContentsInv'
  <2>. DEFINE h == Head(free_tcp_msg_queue)
  <2>1. /\ free_tcp_msg_queue # <<>> /\ call' = [call EXCEPT ![r].buf = h]
        /\ tcp_msg_buffer' = [tcp_msg_buffer EXCEPT ![h] = t]
        /\ UNCHANGED <<work_tcp_msg_queue, pc, work_tcp_msg>>
    BY <1>3 DEF ReceiveTake, locals
  <2>2. /\ h \in TcpBuf /\ \A i \in DOMAIN work_tcp_msg_queue : work_tcp_msg_queue[i] # h
        /\ \A d \in Receivers : call[d].buf # h
        /\ work_tcp_msg # h
    BY <2>1, FreeTcpUnused
  <2>. HIDE DEF h
  <2>3. \A d \in Callers : call'[d].buf = IF d = r THEN h ELSE call[d].buf
    <3>1. h \in Nat
      BY <2>2 DEF TcpBuf
    <3>. QED
      BY <1>1, <1>2, <2>1, <3>1, CallTake
  <2>4. /\ tcp_msg_buffer'[h] \in Texts
        /\ \A b \in TcpBuf : b # h => tcp_msg_buffer'[b] = tcp_msg_buffer[b]
    BY <1>1, <2>1, <2>2
  <2>5. \A i \in DOMAIN work_tcp_msg_queue' : tcp_msg_buffer'[work_tcp_msg_queue'[i]] \in Texts
    BY <1>1, <2>1, <2>2, <2>4 DEF TcpContentsInv
  <2>6. \A d \in Receivers : call'[d].buf # NULL => tcp_msg_buffer'[call'[d].buf] \in Texts
    BY <1>1, <1>2, <2>2, <2>3, <2>4 DEF TcpContentsInv
  <2>7. /\ pc' = "parse" => tcp_msg_buffer'[work_tcp_msg'] \in Texts
        /\ pc' = "take" => tcp_msg_buffer'[work_tcp_msg'] \in Messages
    BY <1>1, <2>1, <2>2, <2>4 DEF TcpContentsInv, PointersInv
  <2>. QED
    BY <2>5, <2>6, <2>7 DEF TcpContentsInv
<1>4. ASSUME NEW r \in Receivers, ReceivePost(r)
      PROVE  TcpContentsInv'
  <2>1. /\ call[r].buf \in TcpBuf /\ tcp_msg_buffer[call[r].buf] \in Texts
        /\ work_tcp_msg_queue' = Sent(work_tcp_msg_queue, call[r].buf, TCP_MSG_BUFFER_SIZE)
        /\ call' = [call EXCEPT ![r] = [buf |-> NULL, result |-> "STD_SUCCESS"]]
        /\ UNCHANGED <<tcp_msg_buffer, pc, work_tcp_msg>>
    BY <1>1, <1>4 DEF ReceivePost, PostTcp, buffers, locals, TcpContentsInv
  <2>2. \A d \in Callers : call'[d].buf = IF d = r THEN NULL ELSE call[d].buf
    BY <1>1, <1>2, <2>1, CallReturn
  <2>3. ASSUME NEW i \in DOMAIN work_tcp_msg_queue'
        PROVE  tcp_msg_buffer[work_tcp_msg_queue'[i]] \in Texts
    BY <1>1, <2>1, <2>3, SentElements DEF TcpContentsInv
  <2>4. \A d \in Receivers : call'[d].buf # NULL => tcp_msg_buffer[call'[d].buf] \in Texts
    BY <1>1, <1>2, <2>2 DEF TcpContentsInv
  <2>. QED
    BY <1>1, <2>1, <2>3, <2>4 DEF TcpContentsInv
<1>5. ASSUME NEW c \in Callers,
             \/ c \in Senders /\ SendTimeout(c)
             \/ c \in Receivers /\ ReceiveTimeout(c)
      PROVE  TcpContentsInv'
  <2>1. /\ UNCHANGED <<tcp_msg_buffer, pc, work_tcp_msg, work_tcp_msg_queue>>
        /\ call' = [call EXCEPT ![c].result = "STD_FAILURE"]
    BY <1>5 DEF SendTimeout, ReceiveTimeout, tcpQueues, buffers, locals
  <2>2. \A d \in Callers : call'[d].buf = call[d].buf
    BY <1>1, <2>1, CallFail
  <2>. QED
    BY <1>1, <1>2, <2>1, <2>2 DEF TcpContentsInv
<1>6. ASSUME NEW s \in Senders, \/ \E m \in BoardMessages : SendTake(s, m)
                               \/ SendPost(s)
      PROVE  TcpContentsInv'
  <2>1. UNCHANGED <<tcp_msg_buffer, pc, work_tcp_msg, work_tcp_msg_queue>>
    BY <1>6 DEF SendTake, SendPost, tcpQueues, buffers, locals
  <2>2. \A d \in Receivers : call'[d] = call[d]
    BY <1>1, <1>2, <1>6, CallersAssumption DEF SendTake, SendPost, CallType
  <2>. QED
    BY <1>1, <2>1, <2>2 DEF TcpContentsInv
<1>7. ASSUME TcpReceive
      PROVE  TcpContentsInv'
  <2>1. /\ work_tcp_msg_queue # <<>> /\ work_tcp_msg_queue' = Tail(work_tcp_msg_queue)
        /\ work_tcp_msg' = Head(work_tcp_msg_queue) /\ pc' = "parse"
        /\ UNCHANGED <<tcp_msg_buffer, call>>
    BY <1>7, NotStray DEF TcpReceive, buffers
  <2>2. 1 \in DOMAIN work_tcp_msg_queue /\ work_tcp_msg' = work_tcp_msg_queue[1]
    BY <1>1, <2>1
  <2>3. ASSUME NEW i \in DOMAIN work_tcp_msg_queue'
        PROVE  tcp_msg_buffer[work_tcp_msg_queue'[i]] \in Texts
    BY <1>1, <2>1, <2>3, TailElements DEF TcpContentsInv
  <2>. QED
    BY <1>1, <2>1, <2>2, <2>3 DEF TcpContentsInv
<1>8. ASSUME Parse
      PROVE  TcpContentsInv'
  <2>1. /\ tcp_msg_buffer[work_tcp_msg] \in Texts
        /\ pc' = IF tcp_msg_buffer[work_tcp_msg] = Garbled THEN "tcp_release" ELSE "take"
        /\ UNCHANGED <<work_tcp_msg_queue, tcp_msg_buffer, call, work_tcp_msg>>
    BY <1>1, <1>8 DEF Parse, tcpQueues, buffers, locals, TcpContentsInv
  <2>. QED
    BY <1>1, <2>1 DEF TcpContentsInv, Texts
<1>9. ASSUME \/ AddWorkMsg \/ AddWorkTcpMsg \/ FillMsg \/ FillTcp \/ Select
             \/ Take \/ TakeTimeout \/ Post \/ TcpRelease \/ MsgReceive
             \/ MsgReceiveNothing \/ Route \/ MsgRelease
      PROVE  TcpContentsInv'
  <2>1. UNCHANGED <<work_tcp_msg_queue, tcp_msg_buffer, call>>
    BY <1>9 DEF AddWorkMsg, AddWorkTcpMsg, FillMsg, FillTcp, Select, Take, TakeTimeout,
                Post, TcpRelease, MsgReceive, MsgReceiveNothing, Route, MsgRelease,
                tcpQueues, buffers
  <2>2. pc' \notin {"parse", "take"}
    BY <1>9 DEF AddWorkMsg, AddWorkTcpMsg, FillMsg, FillTcp, Select, Take, TakeTimeout,
                Post, TcpRelease, MsgReceive, MsgReceiveNothing, Route, MsgRelease
  <2>. QED
    BY <1>1, <2>1, <2>2 DEF TcpContentsInv
<1>. QED
  BY <1>2, <1>3, <1>4, <1>5, <1>6, <1>7, <1>8, <1>9
     DEF Next, SenderStep, ReceiverStep, TaskStep

\* While a buffer is filled for node_task nobody else writes to it, nor to the
\* text it is filled from.
LEMMA CopyStep ==
  ASSUME IInv, Next
  PROVE  CopyInv'
<1>1. /\ CopyInv /\ PointersInv
      /\ msg_buffer \in [MsgBuf -> Messages \cup {NoMsg, Garbled}]
      /\ tcp_msg_buffer \in [TcpBuf -> Texts \cup {NoMsg}]
      /\ free_msg \in MsgBuf \cup {NULL} /\ work_tcp_msg \in TcpBuf \cup {NULL}
  BY DEF IInv, ContentsInv, TypeOK
<1>2. ASSUME NEW s \in Senders, NEW m \in BoardMessages, SendTake(s, m)
      PROVE  CopyInv'
  <2>1. /\ free_msg_queue # <<>> /\ msg_buffer' = [msg_buffer EXCEPT ![Head(free_msg_queue)] = m]
        /\ UNCHANGED <<tcp_msg_buffer, pc, free_msg, work_tcp_msg>>
    BY <1>2 DEF SendTake, locals
  <2>2. free_msg # Head(free_msg_queue)
    BY <2>1, FreeMsgUnused
  <2>. QED
    BY <1>1, <2>1, <2>2 DEF CopyInv, PointersInv
<1>3. ASSUME NEW r \in Receivers, NEW t \in Texts, ReceiveTake(r, t)
      PROVE  CopyInv'
  <2>1. /\ free_tcp_msg_queue # <<>>
        /\ tcp_msg_buffer' = [tcp_msg_buffer EXCEPT ![Head(free_tcp_msg_queue)] = t]
        /\ UNCHANGED <<msg_buffer, pc, free_msg, work_tcp_msg>>
    BY <1>3 DEF ReceiveTake, locals
  <2>2. work_tcp_msg # Head(free_tcp_msg_queue)
    BY <2>1, FreeTcpUnused
  <2>. QED
    BY <1>1, <2>1, <2>2 DEF CopyInv, PointersInv
<1>4. ASSUME Take PROVE CopyInv'
  <2>1. /\ free_msg_queue # <<>> /\ free_msg' = Head(free_msg_queue)
        /\ msg_buffer' = [msg_buffer EXCEPT ![Head(free_msg_queue)] = tcp_msg_buffer[work_tcp_msg]]
        /\ UNCHANGED <<tcp_msg_buffer, work_tcp_msg>>
    BY <1>4 DEF Take
  <2>2. Head(free_msg_queue) \in MsgBuf
    BY <2>1, FreeMsgUnused
  <2>. QED
    BY <1>1, <2>1, <2>2 DEF CopyInv
<1>5. ASSUME \/ \E s \in Senders : SendPost(s) \/ SendTimeout(s)
             \/ \E r \in Receivers : ReceivePost(r) \/ ReceiveTimeout(r)
      PROVE  CopyInv'
  BY <1>1, <1>5 DEF SendPost, SendTimeout, ReceivePost, ReceiveTimeout, buffers, locals, CopyInv
<1>6. ASSUME TaskStep, ~ Take PROVE CopyInv'
  <2>1. pc' # "post"
    BY <1>6 DEF TaskStep, AddWorkMsg, AddWorkTcpMsg, FillMsg, FillTcp, Select, TcpReceive, Parse,
                TakeTimeout, Post, TcpRelease, MsgReceive, MsgReceiveNothing, Route, MsgRelease
  <2>. QED
    BY <2>1 DEF CopyInv
<1>. QED
  BY <1>2, <1>3, <1>4, <1>5, <1>6 DEF Next, SenderStep, ReceiverStep

-----------------------------------------------------------------------------
(* The invariant.                                                          *)

\* Before the first step no buffer is in any queue or hand: all are to be filled.
LEMMA InitInv ==
  ASSUME Init
  PROVE  IInv
<1>. USE SizeAssumption, CallersAssumption
<1>1. TypeOK
  BY DEF Init, TypeOK, PCs, NULL, MsgBuf, TcpBuf, Callers, Effects
<1>2. PointersInv /\ MembersInv /\ ContentsInv
  BY DEF Init, PointersInv, MembersInv, ContentsInv, MsgContentsInv, TcpContentsInv,
         CopyInv, NULL, Callers
<1>3. HandlesInv
  <2>1. Count(<<>>, "tcp") = 0 /\ Count(<<>>, "msg") = 0
    BY CountEmpty
  <2>2. One(pc = "tcp_receive") = 0 /\ One(pc = "msg_receive") = 0
    BY DEF Init, One
  <2>. QED
    BY <2>1, <2>2 DEF Init, HandlesInv, SetSize
<1>4. ASSUME NEW b \in Nat \ {0}, NEW C \in {Senders, Receivers}
      PROVE  Cardinality(Holders(call, C, b)) = 0
  <2>1. Holders(call, C, b) = {}
    BY DEF Init, Holders, Callers, NULL
  <2>. QED
    BY <2>1, FS_EmptySet
<1>5. MsgPoolConserved
  <2>. SUFFICES ASSUME NEW b \in MsgBuf PROVE MsgOwners(b) = 1
    BY DEF MsgPoolConserved
  <2>1. Count(<<>>, b) = 0 /\ Cardinality(Holders(call, Senders, b)) = 0
    BY <1>4, CountEmpty DEF MsgBuf
  <2>2. One(free_msg = b) = 0 /\ One(work_msg = b) = 0 /\ One(MsgToFill(b)) = 1
    BY DEF Init, One, MsgToFill, NULL, MsgBuf
  <2>. QED
    BY <2>1, <2>2 DEF Init, MsgOwners
<1>6. TcpPoolConserved
  <2>. SUFFICES ASSUME NEW b \in TcpBuf PROVE TcpOwners(b) = 1
    BY DEF TcpPoolConserved
  <2>1. Count(<<>>, b) = 0 /\ Cardinality(Holders(call, Receivers, b)) = 0
    BY <1>4, CountEmpty DEF TcpBuf
  <2>2. One(work_tcp_msg = b) = 0 /\ One(TcpToFill(b)) = 1
    BY DEF Init, One, TcpToFill, NULL, TcpBuf
  <2>. QED
    BY <2>1, <2>2 DEF Init, TcpOwners
<1>. QED
  BY <1>1, <1>2, <1>3, <1>5, <1>6 DEF IInv

\* Every step of the tasks keeps the invariant.
LEMMA NextInv ==
  ASSUME IInv, [Next]_vars
  PROVE  IInv'
<1>1. CASE Next
  <2>1. TypeOK' /\ PointersInv' /\ MembersInv' /\ HandlesInv'
    BY <1>1, TypeStep, PointersStep, MembersStep, HandlesStep
  <2>2. MsgPoolConserved' /\ TcpPoolConserved'
    BY <1>1, MsgPoolStep, TcpPoolStep DEF MsgPoolConserved, TcpPoolConserved
  <2>3. ContentsInv'
    BY <1>1, MsgContentsStep, TcpContentsStep, CopyStep DEF ContentsInv
  <2>. QED
    BY <2>1, <2>2, <2>3 DEF IInv
<1>2. CASE UNCHANGED vars
  <2>. USE <1>2 DEF IInv, vars, msgQueues, tcpQueues, set, buffers, locals
  <2>1. TypeOK' /\ PointersInv' /\ MembersInv' /\ HandlesInv'
    BY DEF TypeOK, PointersInv, MembersInv, HandlesInv
  <2>2. MsgPoolConserved' /\ TcpPoolConserved'
    BY DEF MsgPoolConserved, TcpPoolConserved, MsgOwners, TcpOwners, MsgToFill, TcpToFill
  <2>3. ContentsInv'
    BY DEF ContentsInv, MsgContentsInv, TcpContentsInv, CopyInv
  <2>. QED
    BY <2>1, <2>2, <2>3
<1>. QED
  BY <1>1, <1>2

\* IInv is an invariant of node.c under every scheduling of its callers.
THEOREM Inductive == Spec => []IInv
<1>1. Init => IInv
  BY InitInv
<1>2. IInv /\ [Next]_vars => IInv'
  BY NextInv
<1>. QED
  BY <1>1, <1>2, PTL DEF Spec

\* Every variable of node.c holds a value of its type.
THEOREM TypeCorrect == Spec => []TypeOK
<1>1. IInv => TypeOK
  BY DEF IInv
<1>. QED
  BY <1>1, Inductive, PTL

\* No buffer of either pool leaks, is released twice, or has two owners.
THEOREM PoolsConserved == Spec => []BuffersConserved
<1>1. IInv => BuffersConserved
  BY DEF IInv, BuffersConserved
<1>. QED
  BY <1>1, Inductive, PTL

\* node_task never acts on a stale "tcp" handle, so it never releases a pointer
\* it has not received.
THEOREM NoPointerUninitialised == Spec => []NoStrayRelease
<1>1. ASSUME IInv PROVE NoStrayRelease
  BY <1>1, NotStray DEF NoStrayRelease
<1>. QED
  BY <1>1, Inductive, PTL

\* node_task never sleeps on the set while a node message is posted, although
\* the set may be full and lose handles.
THEOREM MessagesWakeTask == Spec => []NoMsgStranded
<1>1. ASSUME IInv PROVE NoMsgStranded
  <2>. SUFFICES ASSUME pc = "select", work_msg_queue # <<>>, msg_queue_set = <<>>
                PROVE  FALSE
    BY DEF NoMsgStranded
  <2>1. Len(work_msg_queue) <= Count(msg_queue_set, "msg") + One(pc = "msg_receive")
    BY <1>1 DEF IInv, HandlesInv
  <2>2. Count(msg_queue_set, "msg") = 0 /\ One(pc = "msg_receive") = 0
    BY CountEmpty DEF One
  <2>3. work_msg_queue \in Seq(MsgBuf)
    BY <1>1 DEF IInv, TypeOK
  <2>. QED
    BY <2>1, <2>2, <2>3
<1>. QED
  BY <1>1, Inductive, PTL

-----------------------------------------------------------------------------
(* The refinement of NodeRouter.                                           *)

\* The contents of a queue of pointers are as many as the pointers.
LEMMA ContentsType ==
  ASSUME NEW B, NEW V, NEW q \in Seq(B), NEW f, \A b \in B : f[b] \in V
  PROVE  /\ ContentsOf(q, f) \in Seq(V) /\ Len(ContentsOf(q, f)) = Len(q)
         /\ \A i \in 1..Len(q) : ContentsOf(q, f)[i] = f[q[i]]
<1>1. DOMAIN q = 1..Len(q) /\ Len(q) \in Nat /\ \A i \in 1..Len(q) : q[i] \in B
  OBVIOUS
<1>2. ContentsOf(q, f) = [i \in 1..Len(q) |-> f[q[i]]]
  BY <1>1 DEF ContentsOf
<1>. QED
  BY <1>1, <1>2

\* A pointer that is sent adds what it points to at the end.
LEMMA ContentsSent ==
  ASSUME NEW B, NEW q \in Seq(B), NEW f, NEW b \in B
  PROVE  ContentsOf(Append(q, b), f) = Append(ContentsOf(q, f), f[b])
<1>. DEFINE V == {f[x] : x \in B}
<1>0. \A x \in B : f[x] \in V
  OBVIOUS
<1>. HIDE DEF V
<1>. DEFINE s == ContentsOf(Append(q, b), f)
            t == ContentsOf(q, f)
            a == Append(q, b)
<1>1. /\ a \in Seq(B) /\ Len(a) = Len(q) + 1 /\ a[Len(q) + 1] = b
      /\ \A i \in 1..Len(q) : a[i] = q[i]
      /\ Len(q) \in Nat /\ f[b] \in V
  BY <1>0, AppendProperties
<1>2. /\ t \in Seq(V) /\ Len(t) = Len(q) /\ \A i \in 1..Len(q) : t[i] = f[q[i]]
  BY <1>0, ContentsType
<1>. HIDE DEF a
<1>3. /\ s \in Seq(V) /\ Len(s) = Len(q) + 1 /\ \A i \in 1..(Len(q) + 1) : s[i] = f[a[i]]
  <2>1. /\ ContentsOf(a, f) \in Seq(V) /\ Len(ContentsOf(a, f)) = Len(a)
        /\ \A i \in 1..Len(a) : ContentsOf(a, f)[i] = f[a[i]]
    BY <1>0, <1>1, ContentsType
  <2>. QED
    BY <1>1, <2>1 DEF a
<1>. HIDE DEF s, t
<1>4. /\ Append(t, f[b]) \in Seq(V) /\ Len(Append(t, f[b])) = Len(q) + 1
      /\ Append(t, f[b])[Len(q) + 1] = f[b]
      /\ \A i \in 1..Len(q) : Append(t, f[b])[i] = t[i]
  BY <1>1, <1>2, AppendProperties
<1>5. \A i \in 1..(Len(q) + 1) : s[i] = Append(t, f[b])[i]
  <2>. SUFFICES ASSUME NEW i \in 1..(Len(q) + 1) PROVE s[i] = Append(t, f[b])[i]
    OBVIOUS
  <2>1. CASE i \in 1..Len(q)
    BY <1>1, <1>2, <1>3, <1>4, <2>1
  <2>2. CASE i = Len(q) + 1
    BY <1>1, <1>3, <1>4, <2>2
  <2>3. i \in 1..Len(q) \/ i = Len(q) + 1
    <3>1. \A n \in Nat : \A k \in 1..(n + 1) : k \in 1..n \/ k = n + 1
      OBVIOUS
    <3>2. Len(q) \in Nat
      BY <1>1
    <3>. QED
      BY <3>1, <3>2, Zenon
  <2>. QED
    BY <2>1, <2>2, <2>3
<1>6. s = Append(t, f[b])
  BY <1>3, <1>4, <1>5, SeqEqual
<1>. QED
  BY <1>6 DEF s, t

\* A value put before a sequence is its head.
LEMMA Front ==
  ASSUME NEW V, NEW v \in V, NEW t \in Seq(V)
  PROVE  <<v>> \o t # <<>> /\ Head(<<v>> \o t) = v /\ Tail(<<v>> \o t) = t
<1>1. /\ <<v>> \in Seq(V) /\ Len(<<v>>) = 1 /\ <<v>>[1] = v
  OBVIOUS
<1>2. /\ <<v>> \o t \in Seq(V) /\ Len(<<v>> \o t) = 1 + Len(t) /\ Len(t) \in Nat
      /\ (<<v>> \o t)[1] = v /\ \A i \in 1..Len(t) : (<<v>> \o t)[i + 1] = t[i]
  BY <1>1, ConcatProperties
<1>. DEFINE s == <<v>> \o t
<1>. HIDE DEF s
<1>3. s \in Seq(V) /\ Len(s) = 1 + Len(t) /\ s[1] = v /\ \A i \in 1..Len(t) : s[i + 1] = t[i]
  BY <1>2 DEF s
<1>4. /\ s # <<>> /\ Head(s) = v /\ Tail(s) \in Seq(V) /\ Len(Tail(s)) = Len(t)
      /\ \A i \in 1..Len(t) : Tail(s)[i] = t[i]
  BY <1>2, <1>3
<1>5. Tail(s) = t
  BY <1>4, SeqEqual
<1>. QED
  BY <1>4, <1>5 DEF s

\* What is appended behind a front comes at the end of the whole.
LEMMA FrontAppend ==
  ASSUME NEW V, NEW s \in Seq(V), NEW t \in Seq(V), NEW v \in V
  PROVE  s \o Append(t, v) = Append(s \o t, v)
<1>1. /\ Append(t, v) = t \o <<v>> /\ <<v>> \in Seq(V)
      /\ s \o t \in Seq(V) /\ Append(s \o t, v) = (s \o t) \o <<v>>
  BY AppendIsConcat, ConcatProperties
<1>2. (s \o t) \o <<v>> = s \o (t \o <<v>>)
  BY <1>1, ConcatAssociative
<1>. QED
  BY <1>1, <1>2

\* A pointer that is received takes what it points to from the front.
LEMMA ContentsReceived ==
  ASSUME NEW B, NEW q \in Seq(B), NEW f, q # <<>>
  PROVE  ContentsOf(q, f) = <<f[Head(q)]>> \o ContentsOf(Tail(q), f)
<1>. DEFINE V == {f[x] : x \in B}
<1>0. \A x \in B : f[x] \in V
  OBVIOUS
<1>. HIDE DEF V
<1>. DEFINE s == ContentsOf(q, f)
            r == Tail(q)
            t == ContentsOf(r, f)
            v == f[Head(q)]
<1>1. /\ r \in Seq(B) /\ Len(q) \in Nat \ {0} /\ Len(r) = Len(q) - 1
      /\ \A i \in 1..Len(r) : r[i] = q[i + 1]
      /\ Head(q) = q[1] /\ v \in V
  BY <1>0, HeadTailProperties
<1>. HIDE DEF r
<1>2. /\ s \in Seq(V) /\ Len(s) = Len(q) /\ \A i \in 1..Len(q) : s[i] = f[q[i]]
  BY <1>0, ContentsType
<1>3. /\ t \in Seq(V) /\ Len(t) = Len(r) /\ \A i \in 1..Len(r) : t[i] = f[r[i]]
  BY <1>0, <1>1, ContentsType
<1>4. v = f[q[1]]
  BY <1>1
<1>. HIDE DEF s, t, v
<1>5. /\ <<v>> \o t \in Seq(V) /\ Len(<<v>> \o t) = 1 + Len(t)
      /\ (<<v>> \o t)[1] = v /\ \A i \in 2..(1 + Len(t)) : (<<v>> \o t)[i] = t[i - 1]
  <2>1. <<v>> \in Seq(V) /\ Len(<<v>>) = 1 /\ <<v>>[1] = v
    BY <1>1
  <2>. QED
    BY <1>3, <2>1, ConcatProperties
<1>6. \A i \in 1..Len(q) : s[i] = (<<v>> \o t)[i]
  <2>. SUFFICES ASSUME NEW i \in 1..Len(q) PROVE s[i] = (<<v>> \o t)[i]
    OBVIOUS
  <2>1. CASE i = 1
    BY <1>1, <1>2, <1>4, <1>5, <2>1
  <2>2. CASE i # 1
    <3>1. i - 1 \in 1..Len(r) /\ i \in 2..(1 + Len(t)) /\ (i - 1) + 1 = i
      BY <1>1, <1>3, <2>2
    <3>2. (<<v>> \o t)[i] = f[r[i - 1]]
      BY <1>3, <1>5, <3>1
    <3>3. r[i - 1] = q[i]
      BY <1>1, <3>1
    <3>. QED
      BY <1>2, <3>2, <3>3
  <2>. QED
    BY <2>1, <2>2
<1>7. Len(<<v>> \o t) = Len(s)
  BY <1>1, <1>2, <1>3, <1>5
<1>8. \A i \in 1..Len(s) : s[i] = (<<v>> \o t)[i]
  BY <1>2, <1>6
<1>9. s = <<v>> \o t
  <2>. DEFINE u == <<v>> \o t
  <2>1. u \in Seq(V) /\ s \in Seq(V) /\ Len(s) = Len(u) /\ \A i \in 1..Len(s) : s[i] = u[i]
    BY <1>2, <1>5, <1>7, <1>8
  <2>. HIDE DEF u
  <2>2. s = u
    BY <2>1, SeqEqual
  <2>. QED
    BY <2>2 DEF u
<1>. QED
  BY <1>9 DEF s, t, v, r

\* Writing to buffers that are not in a queue changes none of its contents.
LEMMA ContentsKept ==
  ASSUME NEW q, NEW f, NEW g, \A i \in DOMAIN q : g[q[i]] = f[q[i]]
  PROVE  ContentsOf(q, g) = ContentsOf(q, f)
BY DEF ContentsOf

\* A buffer that is held to be posted is not posted already, so there is room for it.
LEMMA HeldMsgFits ==
  ASSUME IInv, NEW b \in MsgBuf, free_msg = b \/ \E s \in Senders : call[s].buf = b
  PROVE  Sent(work_msg_queue, b, MSG_BUFFER_SIZE) = Append(work_msg_queue, b)
<1>1. /\ Count(free_msg_queue, b) \in Nat /\ Count(work_msg_queue, b) \in Nat
      /\ Cardinality(Holders(call, Senders, b)) \in Nat /\ MsgOwners(b) = 1
  BY MsgOwnersType
<1>2. CASE free_msg = b
  <2>1. Count(work_msg_queue, b) = 0
    BY <1>1, <1>2 DEF MsgOwners, One
  <2>. QED
    BY <2>1, MsgRoom DEF Sent
<1>3. CASE \E s \in Senders : call[s].buf = b
  <2>1. Holders(call, Senders, b) # {} /\ Holders(call, Senders, b) \in SUBSET Senders
    BY <1>3 DEF Holders
  <2>2. Cardinality(Holders(call, Senders, b)) # 0
    BY <2>1, CallersAssumption, FS_Subset, FS_EmptySet
  <2>3. Count(work_msg_queue, b) = 0
    BY <1>1, <2>2 DEF MsgOwners, One
  <2>. QED
    BY <2>3, MsgRoom DEF Sent
<1>. QED
  BY <1>2, <1>3

\* The same for a TCP buffer.
LEMMA HeldTcpFits ==
  ASSUME IInv, NEW b \in TcpBuf, \E r \in Receivers : call[r].buf = b
  PROVE  Sent(work_tcp_msg_queue, b, TCP_MSG_BUFFER_SIZE) = Append(work_tcp_msg_queue, b)
<1>1. /\ Count(free_tcp_msg_queue, b) \in Nat /\ Count(work_tcp_msg_queue, b) \in Nat
      /\ Cardinality(Holders(call, Receivers, b)) \in Nat /\ TcpOwners(b) = 1
  BY TcpOwnersType
<1>2. Holders(call, Receivers, b) # {} /\ Holders(call, Receivers, b) \in SUBSET Receivers
  BY DEF Holders
<1>3. Cardinality(Holders(call, Receivers, b)) # 0
  BY <1>2, CallersAssumption, FS_Subset, FS_EmptySet
<1>4. Count(work_tcp_msg_queue, b) = 0
  BY <1>1, <1>3 DEF TcpOwners, One
<1>. QED
  BY <1>4, TcpRoom DEF Sent

\* What the buffers may contain.
Contents == Messages \cup {NoMsg, Garbled}

\* The contents of both queues, and of the buffers in node_task's hands.
LEMMA ContentsTyped ==
  ASSUME IInv
  PROVE  /\ work_msg_queue \in Seq(MsgBuf) /\ msg_buffer \in [MsgBuf -> Contents]
         /\ work_tcp_msg_queue \in Seq(TcpBuf) /\ tcp_msg_buffer \in [TcpBuf -> Contents]
         /\ ContentsOf(work_msg_queue, msg_buffer) \in Seq(Contents)
         /\ ContentsOf(work_tcp_msg_queue, tcp_msg_buffer) \in Seq(Contents)
         /\ pc = "route" => work_msg \in MsgBuf
         /\ pc = "post" => free_msg \in MsgBuf
         /\ pc \in {"parse", "take", "post"} => work_tcp_msg \in TcpBuf
         /\ \A s \in Senders : call[s].buf # NULL => call[s].buf \in MsgBuf
         /\ \A r \in Receivers : call[r].buf # NULL => call[r].buf \in TcpBuf
<1>1. /\ work_msg_queue \in Seq(MsgBuf) /\ msg_buffer \in [MsgBuf -> Contents]
      /\ work_tcp_msg_queue \in Seq(TcpBuf) /\ tcp_msg_buffer \in [TcpBuf -> Contents]
  BY DEF IInv, TypeOK, Texts, Contents
<1>2. /\ ContentsOf(work_msg_queue, msg_buffer) \in Seq(Contents)
      /\ ContentsOf(work_tcp_msg_queue, tcp_msg_buffer) \in Seq(Contents)
  BY <1>1, ContentsType
<1>3. TypeOK /\ PointersInv
  BY DEF IInv
<1>. QED
  BY <1>1, <1>2, <1>3 DEF TypeOK, PointersInv

\* The agenda stays as it is when neither the queue nor what it points to changes.
LEMMA AgendaKept ==
  ASSUME work_msg_queue' = work_msg_queue, pc' = "route" <=> pc = "route",
         \A i \in DOMAIN work_msg_queue :
            msg_buffer'[work_msg_queue[i]] = msg_buffer[work_msg_queue[i]],
         pc = "route" => work_msg' = work_msg /\ msg_buffer'[work_msg] = msg_buffer[work_msg]
  PROVE  msg_pending' = msg_pending
<1>1. ContentsOf(work_msg_queue, msg_buffer') = ContentsOf(work_msg_queue, msg_buffer)
  BY ContentsKept
<1>. QED
  BY <1>1 DEF msg_pending

\* The same for the inbox.
LEMMA InboxKept ==
  ASSUME work_tcp_msg_queue' = work_tcp_msg_queue,
         pc' \in {"parse", "take", "post"} <=> pc \in {"parse", "take", "post"},
         \A i \in DOMAIN work_tcp_msg_queue :
            tcp_msg_buffer'[work_tcp_msg_queue[i]] = tcp_msg_buffer[work_tcp_msg_queue[i]],
         pc \in {"parse", "take", "post"} =>
            work_tcp_msg' = work_tcp_msg /\ tcp_msg_buffer'[work_tcp_msg] = tcp_msg_buffer[work_tcp_msg]
  PROVE  tcp_pending' = tcp_pending
<1>1. ContentsOf(work_tcp_msg_queue, tcp_msg_buffer') = ContentsOf(work_tcp_msg_queue, tcp_msg_buffer)
  BY ContentsKept
<1>. QED
  BY <1>1 DEF tcp_pending

\* A step that sees neither the queues of posted pointers nor the task's place.
LEMMA NothingRouted ==
  ASSUME UNCHANGED <<work_msg_queue, work_tcp_msg_queue, buffers, work_msg, work_tcp_msg, out>>,
         pc' = "route" <=> pc = "route",
         pc' \in {"parse", "take", "post"} <=> pc \in {"parse", "take", "post"}
  PROVE  UNCHANGED Router!rvars
<1>1. msg_pending' = msg_pending
  BY AgendaKept DEF buffers
<1>2. tcp_pending' = tcp_pending
  BY InboxKept DEF buffers
<1>. QED
  BY <1>1, <1>2 DEF Router!rvars

\* A pointer that is posted puts its message at the end of the agenda.
LEMMA AgendaGrows ==
  ASSUME IInv, NEW b \in MsgBuf, work_msg_queue' = Append(work_msg_queue, b),
         pc' = "route" <=> pc = "route", UNCHANGED <<msg_buffer, work_msg>>
  PROVE  msg_pending' = Append(msg_pending, msg_buffer[b])
<1>. DEFINE t == ContentsOf(work_msg_queue, msg_buffer)
<1>1. /\ t \in Seq(Contents) /\ msg_buffer[b] \in Contents
      /\ pc = "route" => msg_buffer[work_msg] \in Contents
  BY ContentsTyped
<1>4. ContentsOf(work_msg_queue', msg_buffer') = Append(t, msg_buffer[b])
  <2>1. work_msg_queue \in Seq(MsgBuf) /\ msg_buffer \in [MsgBuf -> Contents]
    BY ContentsTyped
  <2>2. ContentsOf(Append(work_msg_queue, b), msg_buffer) = Append(t, msg_buffer[b])
    BY <2>1, ContentsSent
  <2>. QED
    BY <2>2
<1>. DEFINE front == IF pc = "route" THEN <<msg_buffer[work_msg]>> ELSE <<>>
<1>2. front \in Seq(Contents)
  BY <1>1
<1>3. msg_pending = front \o t /\ msg_pending' = front \o Append(t, msg_buffer[b])
  BY <1>4 DEF msg_pending
<1>. HIDE DEF front, t
<1>. QED
  BY <1>1, <1>2, <1>3, FrontAppend

\* The same for the inbox.
LEMMA InboxGrows ==
  ASSUME IInv, NEW b \in TcpBuf, work_tcp_msg_queue' = Append(work_tcp_msg_queue, b),
         UNCHANGED <<pc, tcp_msg_buffer, work_tcp_msg>>
  PROVE  tcp_pending' = Append(tcp_pending, tcp_msg_buffer[b])
<1>. DEFINE t == ContentsOf(work_tcp_msg_queue, tcp_msg_buffer)
<1>1. /\ t \in Seq(Contents) /\ tcp_msg_buffer[b] \in Contents
      /\ pc \in {"parse", "take", "post"} => tcp_msg_buffer[work_tcp_msg] \in Contents
  BY ContentsTyped
<1>4. ContentsOf(work_tcp_msg_queue', tcp_msg_buffer') = Append(t, tcp_msg_buffer[b])
  <2>1. work_tcp_msg_queue \in Seq(TcpBuf) /\ tcp_msg_buffer \in [TcpBuf -> Contents]
    BY ContentsTyped
  <2>2. ContentsOf(Append(work_tcp_msg_queue, b), tcp_msg_buffer) = Append(t, tcp_msg_buffer[b])
    BY <2>1, ContentsSent
  <2>. QED
    BY <2>2
<1>. DEFINE front == IF pc \in {"parse", "take", "post"} THEN <<tcp_msg_buffer[work_tcp_msg]>> ELSE <<>>
<1>2. front \in Seq(Contents)
  BY <1>1
<1>3. tcp_pending = front \o t /\ tcp_pending' = front \o Append(t, tcp_msg_buffer[b])
  BY <1>4 DEF tcp_pending
<1>. HIDE DEF front, t
<1>. QED
  BY <1>1, <1>2, <1>3, FrontAppend

\* When node_task is done with a text, the inbox loses its head.
LEMMA InboxShrinks ==
  ASSUME IInv, pc \in {"parse", "take", "post"}, pc' \notin {"parse", "take", "post"},
         UNCHANGED <<work_tcp_msg_queue, tcp_msg_buffer>>
  PROVE  /\ tcp_pending # <<>> /\ Head(tcp_pending) = tcp_msg_buffer[work_tcp_msg]
         /\ tcp_pending' = Tail(tcp_pending)
<1>. DEFINE t == ContentsOf(work_tcp_msg_queue, tcp_msg_buffer)
            v == tcp_msg_buffer[work_tcp_msg]
<1>1. t \in Seq(Contents) /\ v \in Contents
  BY ContentsTyped
<1>2. tcp_pending = <<v>> \o t /\ tcp_pending' = <<>> \o t
  BY DEF tcp_pending
<1>. HIDE DEF t, v
<1>3. <<v>> \o t # <<>> /\ Head(<<v>> \o t) = v /\ Tail(<<v>> \o t) = t /\ <<>> \o t = t
  BY <1>1, Front, ConcatEmptySeq
<1>. QED
  BY <1>2, <1>3 DEF v

\* node_send_msg and node_receive_tcp_msg accept a message when they post it.
LEMMA CallerRoutes ==
  ASSUME IInv,
         \/ \E s \in Senders : SenderStep(s)
         \/ \E r \in Receivers : ReceiverStep(r)
  PROVE  [Router!RNext]_(Router!rvars)
<1>1. ASSUME NEW s \in Senders, NEW m \in BoardMessages, SendTake(s, m)
      PROVE  UNCHANGED Router!rvars
  <2>. DEFINE h == Head(free_msg_queue)
  <2>1. /\ free_msg_queue # <<>> /\ msg_buffer' = [msg_buffer EXCEPT ![h] = m]
        /\ UNCHANGED <<work_msg_queue, work_tcp_msg_queue, tcp_msg_buffer, pc,
                       work_msg, work_tcp_msg, out>>
    BY <1>1 DEF SendTake, tcpQueues, locals
  <2>2. /\ \A i \in DOMAIN work_msg_queue : work_msg_queue[i] # h
        /\ work_msg # h
    BY <2>1, FreeMsgUnused
  <2>3. \A b \in MsgBuf : b # h => msg_buffer'[b] = msg_buffer[b]
    BY <2>1, ContentsTyped
  <2>. HIDE DEF h
  <2>4. /\ \A i \in DOMAIN work_msg_queue : work_msg_queue[i] \in MsgBuf
        /\ pc = "route" => work_msg \in MsgBuf
    BY ContentsTyped
  <2>5. msg_pending' = msg_pending
    BY <2>1, <2>2, <2>3, <2>4, AgendaKept
  <2>6. tcp_pending' = tcp_pending
    BY <2>1, InboxKept
  <2>. QED
    BY <2>1, <2>5, <2>6 DEF Router!rvars
<1>2. ASSUME NEW s \in Senders, SendPost(s)
      PROVE  Router!RNext
  <2>. DEFINE b == call[s].buf
  <2>1. /\ b # NULL /\ work_msg_queue' = Sent(work_msg_queue, b, MSG_BUFFER_SIZE)
        /\ UNCHANGED <<work_tcp_msg_queue, buffers, pc, work_msg, work_tcp_msg, out>>
    BY <1>2 DEF SendPost, PostMsg, tcpQueues, locals
  <2>2. b \in MsgBuf /\ msg_buffer[b] \in BoardMessages
    BY <2>1, ContentsTyped DEF IInv, ContentsInv, MsgContentsInv
  <2>. HIDE DEF b
  <2>3. work_msg_queue' = Append(work_msg_queue, b)
    BY <2>1, <2>2, HeldMsgFits DEF b
  <2>4. msg_pending' = Append(msg_pending, msg_buffer[b])
    BY <2>1, <2>2, <2>3, AgendaGrows DEF buffers
  <2>5. tcp_pending' = tcp_pending
    BY <2>1, InboxKept DEF buffers
  <2>6. Router!AcceptBoard(msg_buffer[b])
    BY <2>1, <2>4, <2>5 DEF Router!AcceptBoard
  <2>. QED
    BY <2>2, <2>6 DEF Router!RNext, Router!BoardMessages, BoardMessages
<1>3. ASSUME NEW r \in Receivers, NEW t \in Texts, ReceiveTake(r, t)
      PROVE  UNCHANGED Router!rvars
  <2>. DEFINE h == Head(free_tcp_msg_queue)
  <2>1. /\ free_tcp_msg_queue # <<>> /\ tcp_msg_buffer' = [tcp_msg_buffer EXCEPT ![h] = t]
        /\ UNCHANGED <<work_msg_queue, work_tcp_msg_queue, msg_buffer, pc,
                       work_msg, work_tcp_msg, out>>
    BY <1>3 DEF ReceiveTake, msgQueues, locals
  <2>2. /\ \A i \in DOMAIN work_tcp_msg_queue : work_tcp_msg_queue[i] # h
        /\ work_tcp_msg # h
    BY <2>1, FreeTcpUnused
  <2>3. \A b \in TcpBuf : b # h => tcp_msg_buffer'[b] = tcp_msg_buffer[b]
    BY <2>1, ContentsTyped
  <2>. HIDE DEF h
  <2>4. /\ \A i \in DOMAIN work_tcp_msg_queue : work_tcp_msg_queue[i] \in TcpBuf
        /\ pc \in {"parse", "take", "post"} => work_tcp_msg \in TcpBuf
    BY ContentsTyped
  <2>5. tcp_pending' = tcp_pending
    BY <2>1, <2>2, <2>3, <2>4, InboxKept
  <2>6. msg_pending' = msg_pending
    BY <2>1, AgendaKept
  <2>. QED
    BY <2>1, <2>5, <2>6 DEF Router!rvars
<1>4. ASSUME NEW r \in Receivers, ReceivePost(r)
      PROVE  Router!RNext
  <2>. DEFINE b == call[r].buf
  <2>1. /\ b # NULL /\ work_tcp_msg_queue' = Sent(work_tcp_msg_queue, b, TCP_MSG_BUFFER_SIZE)
        /\ UNCHANGED <<work_msg_queue, buffers, pc, work_msg, work_tcp_msg, out>>
    BY <1>4 DEF ReceivePost, PostTcp, msgQueues, locals
  <2>2. b \in TcpBuf /\ tcp_msg_buffer[b] \in Texts
    BY <2>1, ContentsTyped DEF IInv, ContentsInv, TcpContentsInv
  <2>. HIDE DEF b
  <2>3. work_tcp_msg_queue' = Append(work_tcp_msg_queue, b)
    BY <2>1, <2>2, HeldTcpFits DEF b
  <2>4. tcp_pending' = Append(tcp_pending, tcp_msg_buffer[b])
    BY <2>1, <2>2, <2>3, InboxGrows DEF buffers
  <2>5. msg_pending' = msg_pending
    BY <2>1, AgendaKept DEF buffers
  <2>6. Router!AcceptTcp(tcp_msg_buffer[b])
    BY <2>1, <2>4, <2>5 DEF Router!AcceptTcp
  <2>. QED
    BY <2>2, <2>6 DEF Router!RNext, Router!Texts, Texts
<1>5. ASSUME \/ \E s \in Senders : SendTimeout(s)
             \/ \E r \in Receivers : ReceiveTimeout(r)
      PROVE  UNCHANGED Router!rvars
  <2>1. UNCHANGED <<work_msg_queue, work_tcp_msg_queue, buffers, work_msg, work_tcp_msg, out, pc>>
    BY <1>5 DEF SendTimeout, ReceiveTimeout, msgQueues, tcpQueues, locals
  <2>. QED
    BY <2>1, NothingRouted
<1>. QED
  BY <1>1, <1>2, <1>3, <1>4, <1>5 DEF SenderStep, ReceiverStep

\* A step of node_task forwards or discards the text it holds, routes the message
\* it holds, or is of no concern to the router.
LEMMA TaskRoutes ==
  ASSUME IInv, TaskStep
  PROVE  [Router!RNext]_(Router!rvars)
<1>1. ASSUME \/ AddWorkMsg \/ AddWorkTcpMsg \/ FillMsg \/ FillTcp \/ Select
             \/ MsgReceiveNothing
      PROVE  UNCHANGED Router!rvars
  <2>1. /\ UNCHANGED <<work_msg_queue, work_tcp_msg_queue, buffers, work_msg, work_tcp_msg, out>>
        /\ pc \notin {"route", "parse", "take", "post"}
        /\ pc' \notin {"route", "parse", "take", "post"}
    BY <1>1 DEF AddWorkMsg, AddWorkTcpMsg, FillMsg, FillTcp, Select, MsgReceiveNothing,
                msgQueues, tcpQueues, locals
  <2>. QED
    BY <2>1, NothingRouted
<1>2. ASSUME TcpReceive
      PROVE  UNCHANGED Router!rvars
  <2>1. /\ work_tcp_msg_queue # <<>> /\ work_tcp_msg' = Head(work_tcp_msg_queue)
        /\ work_tcp_msg_queue' = Tail(work_tcp_msg_queue)
        /\ pc = "tcp_receive" /\ pc' = "parse"
        /\ UNCHANGED <<work_msg_queue, buffers, work_msg, out>>
    BY <1>2, NotStray DEF TcpReceive, msgQueues
  <2>2. /\ work_tcp_msg_queue \in Seq(TcpBuf) /\ tcp_msg_buffer \in [TcpBuf -> Contents]
        /\ ContentsOf(work_tcp_msg_queue, tcp_msg_buffer) \in Seq(Contents)
    BY ContentsTyped
  <2>3. ContentsOf(work_tcp_msg_queue, tcp_msg_buffer)
          = <<tcp_msg_buffer[Head(work_tcp_msg_queue)]>> \o ContentsOf(Tail(work_tcp_msg_queue), tcp_msg_buffer)
    BY <2>1, <2>2, ContentsReceived
  <2>4. tcp_pending = ContentsOf(work_tcp_msg_queue, tcp_msg_buffer)
    BY <2>1, <2>2, ConcatEmptySeq DEF tcp_pending
  <2>5. tcp_pending' = tcp_pending
    BY <2>1, <2>3, <2>4 DEF tcp_pending, buffers
  <2>6. msg_pending' = msg_pending
    BY <2>1, AgendaKept DEF buffers
  <2>. QED
    BY <2>1, <2>5, <2>6 DEF Router!rvars
<1>3. ASSUME \/ Parse /\ tcp_msg_buffer[work_tcp_msg] = Garbled
             \/ TakeTimeout
      PROVE  Router!RNext
  <2>1. /\ UNCHANGED <<work_msg_queue, work_tcp_msg_queue, buffers, work_msg, out>>
        /\ pc \in {"parse", "take"} /\ pc' = "tcp_release"
    BY <1>3 DEF Parse, TakeTimeout, msgQueues, tcpQueues, locals
  <2>2. tcp_pending # <<>> /\ tcp_pending' = Tail(tcp_pending)
    BY <2>1, InboxShrinks DEF buffers
  <2>3. msg_pending' = msg_pending
    BY <2>1, AgendaKept DEF buffers
  <2>4. Router!Discard
    BY <2>1, <2>2, <2>3 DEF Router!Discard
  <2>. QED
    BY <2>4 DEF Router!RNext
<1>4. ASSUME Parse, tcp_msg_buffer[work_tcp_msg] # Garbled
      PROVE  UNCHANGED Router!rvars
  <2>1. /\ UNCHANGED <<work_msg_queue, work_tcp_msg_queue, buffers, work_msg, work_tcp_msg, out>>
        /\ pc = "parse" /\ pc' = "take"
    BY <1>4 DEF Parse, msgQueues, tcpQueues, locals
  <2>. QED
    BY <2>1, NothingRouted
<1>5. ASSUME Take
      PROVE  UNCHANGED Router!rvars
  <2>. DEFINE h == Head(free_msg_queue)
  <2>1. /\ free_msg_queue # <<>> /\ pc = "take" /\ pc' = "post"
        /\ msg_buffer' = [msg_buffer EXCEPT ![h] = tcp_msg_buffer[work_tcp_msg]]
        /\ UNCHANGED <<work_msg_queue, work_tcp_msg_queue, tcp_msg_buffer, work_msg, work_tcp_msg, out>>
    BY <1>5 DEF Take, tcpQueues
  <2>2. \A i \in DOMAIN work_msg_queue : work_msg_queue[i] # h
    BY <2>1, FreeMsgUnused
  <2>3. \A b \in MsgBuf : b # h => msg_buffer'[b] = msg_buffer[b]
    BY <2>1, ContentsTyped
  <2>. HIDE DEF h
  <2>4. \A i \in DOMAIN work_msg_queue : work_msg_queue[i] \in MsgBuf
    BY ContentsTyped
  <2>5. msg_pending' = msg_pending
    BY <2>1, <2>2, <2>3, <2>4, AgendaKept
  <2>6. tcp_pending' = tcp_pending
    BY <2>1, InboxKept
  <2>. QED
    BY <2>1, <2>5, <2>6 DEF Router!rvars
<1>6. ASSUME Post
      PROVE  Router!RNext
  <2>1. /\ pc = "post" /\ pc' = "tcp_release"
        /\ work_msg_queue' = Sent(work_msg_queue, free_msg, MSG_BUFFER_SIZE)
        /\ UNCHANGED <<work_tcp_msg_queue, buffers, work_tcp_msg, work_msg, out>>
    BY <1>6 DEF Post, PostMsg, tcpQueues
  <2>2. /\ free_msg \in MsgBuf /\ msg_buffer[free_msg] \in Messages
        /\ msg_buffer[free_msg] = tcp_msg_buffer[work_tcp_msg]
    BY <2>1, ContentsTyped DEF IInv, ContentsInv, MsgContentsInv, CopyInv
  <2>3. work_msg_queue' = Append(work_msg_queue, free_msg)
    BY <2>1, <2>2, HeldMsgFits
  <2>4. msg_pending' = Append(msg_pending, msg_buffer[free_msg])
    BY <2>1, <2>2, <2>3, AgendaGrows DEF buffers
  <2>5. /\ tcp_pending # <<>> /\ Head(tcp_pending) = tcp_msg_buffer[work_tcp_msg]
        /\ tcp_pending' = Tail(tcp_pending)
    BY <2>1, InboxShrinks DEF buffers
  <2>6. Head(tcp_pending) # Garbled
    BY <2>2, <2>5, MessagesAssumption
  <2>7. Router!Forward
    BY <2>1, <2>2, <2>4, <2>5, <2>6 DEF Router!Forward
  <2>. QED
    BY <2>7 DEF Router!RNext
<1>7. ASSUME TcpRelease \/ MsgRelease
      PROVE  UNCHANGED Router!rvars
  <2>1. /\ UNCHANGED <<work_msg_queue, work_tcp_msg_queue, buffers, out>>
        /\ pc \notin {"route", "parse", "take", "post"}
        /\ pc' \notin {"route", "parse", "take", "post"}
    BY <1>7 DEF TcpRelease, MsgRelease, msgQueues, tcpQueues
  <2>2. msg_pending' = msg_pending
    BY <2>1, AgendaKept DEF buffers
  <2>3. tcp_pending' = tcp_pending
    BY <2>1, InboxKept DEF buffers
  <2>. QED
    BY <2>1, <2>2, <2>3 DEF Router!rvars
<1>8. ASSUME MsgReceive
      PROVE  UNCHANGED Router!rvars
  <2>1. /\ work_msg_queue # <<>> /\ work_msg' = Head(work_msg_queue)
        /\ work_msg_queue' = Tail(work_msg_queue)
        /\ pc = "msg_receive" /\ pc' = "route"
        /\ UNCHANGED <<work_tcp_msg_queue, buffers, work_tcp_msg, out>>
    BY <1>8 DEF MsgReceive, tcpQueues
  <2>2. /\ work_msg_queue \in Seq(MsgBuf) /\ msg_buffer \in [MsgBuf -> Contents]
        /\ ContentsOf(work_msg_queue, msg_buffer) \in Seq(Contents)
    BY ContentsTyped
  <2>3. ContentsOf(work_msg_queue, msg_buffer)
          = <<msg_buffer[Head(work_msg_queue)]>> \o ContentsOf(Tail(work_msg_queue), msg_buffer)
    BY <2>1, <2>2, ContentsReceived
  <2>4. msg_pending = ContentsOf(work_msg_queue, msg_buffer)
    BY <2>1, <2>2, ConcatEmptySeq DEF msg_pending
  <2>5. msg_pending' = msg_pending
    BY <2>1, <2>3, <2>4 DEF msg_pending, buffers
  <2>6. tcp_pending' = tcp_pending
    BY <2>1, InboxKept DEF buffers
  <2>. QED
    BY <2>1, <2>5, <2>6 DEF Router!rvars
<1>9. ASSUME Route
      PROVE  Router!RNext
  <2>. DEFINE t == ContentsOf(work_msg_queue, msg_buffer)
              v == msg_buffer[work_msg]
  <2>1. /\ pc = "route" /\ pc' = "msg_release" /\ out' = Effect(v)
        /\ UNCHANGED <<work_msg_queue, work_tcp_msg_queue, buffers, work_msg, work_tcp_msg>>
    BY <1>9 DEF Route, msgQueues, tcpQueues, locals
  <2>2. t \in Seq(Contents) /\ v \in Contents
    BY <2>1, ContentsTyped
  <2>3. msg_pending = <<v>> \o t /\ msg_pending' = <<>> \o t
    BY <2>1 DEF msg_pending, buffers
  <2>4. tcp_pending' = tcp_pending
    BY <2>1, InboxKept DEF buffers
  <2>. HIDE DEF t, v
  <2>5. <<v>> \o t # <<>> /\ Head(<<v>> \o t) = v /\ Tail(<<v>> \o t) = t /\ <<>> \o t = t
    BY <2>2, Front, ConcatEmptySeq
  <2>6. msg_pending # <<>> /\ Head(msg_pending) = v /\ msg_pending' = Tail(msg_pending)
    BY <2>3, <2>5
  <2>7. Router!Route
    BY <2>1, <2>4, <2>6 DEF Router!Route, Router!Effect, Router!ToServer, Router!ToBoard,
                            Router!VersionResponse, Effect, ToServer, ToBoard, VersionResponse
  <2>. QED
    BY <2>7 DEF Router!RNext
<1>. QED
  BY <1>1, <1>2, <1>3, <1>4, <1>5, <1>6, <1>7, <1>8, <1>9 DEF TaskStep

\* Nothing is pending at the start.
LEMMA RouterStart ==
  ASSUME Init PROVE Router!RInit
<1>1. ContentsOf(<<>>, msg_buffer) = <<>> /\ ContentsOf(<<>>, tcp_msg_buffer) = <<>>
  BY DEF ContentsOf
<1>2. <<>> \o <<>> = <<>>
  BY ConcatEmptySeq
<1>. QED
  BY <1>1, <1>2 DEF Init, Router!RInit, tcp_pending, msg_pending

\* Each step is a step of the router, or leaves it alone.
LEMMA RouterStep ==
  ASSUME IInv, [Next]_vars
  PROVE  [Router!RNext]_(Router!rvars)
<1>1. CASE UNCHANGED vars
  BY <1>1, NothingRouted DEF vars, msgQueues, tcpQueues, locals
<1>. QED
  BY <1>1, CallerRoutes, TaskRoutes DEF Next

\* The dispatcher implements NodeRouter: whatever the order of calls and timeouts,
\* messages are routed first in first out, once each and unaltered.
THEOREM RoutesInOrder == Spec => ImplementsRouter
<1>1. Init => Router!RInit
  BY RouterStart
<1>2. IInv /\ [Next]_vars => [Router!RNext]_(Router!rvars)
  BY RouterStep
<1>. QED
  BY <1>1, <1>2, Inductive, PTL DEF Spec, ImplementsRouter, Router!RouterSpec

\* The fixed priorities of the tasks only exclude schedules, so what holds under
\* every schedule holds under theirs.
THEOREM UnderPriorities == PrioritySpec => []IInv /\ ImplementsRouter
<1>1. [PriorityNext]_vars => [Next]_vars
  BY DEF PriorityNext, PriorityTaskStep, Next
<1>2. Init => IInv /\ Router!RInit
  BY InitInv, RouterStart
<1>3. IInv /\ [Next]_vars => IInv' /\ [Router!RNext]_(Router!rvars)
  BY NextInv, RouterStep
<1>. QED
  BY <1>1, <1>2, <1>3, PTL DEF PrioritySpec, ImplementsRouter, Router!RouterSpec
=============================================================================
