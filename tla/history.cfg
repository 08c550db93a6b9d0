SPECIFICATION Spec
CONSTANTS
  Text <- MCText
  Peer <- MCPeer
  Device <- MCDevice
  Cron <- MCCron
  NoPeer = NoPeer
  Peers <- MCPeer
  DefaultDevice = "wifi"
  Lines <- MCLines
  MaxLen = 12
INVARIANTS
  TypeOK
PROPERTIES
  IsFrameStack
