SPECIFICATION FairSpec
CONSTANTS
  Server = Server
  Admin = Admin
  NoMsg = NoMsg
  Limit <- FewOfEach
INVARIANTS EndpointReached SentOnce InterruptLineHeard
PROPERTIES LastMessageTried AdminReached
CHECK_DEADLOCK FALSE
