SPECIFICATION FairSpec
CONSTANTS
  Server = Server
  Admin = Admin
  NoMsg = NoMsg
  Limit <- PeerOnly
PROPERTY Reconnects
