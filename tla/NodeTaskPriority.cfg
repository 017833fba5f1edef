SPECIFICATION PrioritySpec
CONSTANTS
  NodeId = "T01"
  Garbled = Garbled
  NoMsg = NoMsg
  Nowhere = Nowhere
  MSG_BUFFER_SIZE = 2
  TCP_MSG_BUFFER_SIZE = 2
  Senders = {board}
  Receivers = {tcp_client}
  Messages <- WithUpdate
PROPERTIES NotedTcpParsed EveryTcpNoted
