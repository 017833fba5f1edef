SPECIFICATION Spec
CONSTANTS
  NodeId = "T01"
  Garbled = Garbled
  NoMsg = NoMsg
  Nowhere = Nowhere
  MSG_BUFFER_SIZE = 2
  TCP_MSG_BUFFER_SIZE = 1
  Senders = {board}
  Receivers = {tcp_client}
  Messages <- AllKinds
INVARIANTS BuffersConserved NoStrayRelease NoMsgStranded
PROPERTIES ImplementsRouter EveryMsgRouted
