SPECIFICATION FairSpec
CONSTANTS
  Peers <- MCPeers
  Lens = {0, 2}
  Kinds = {"whole", "head", "body", "cut", "noise", "empty"}
  MaxLog = 3
CHECK_DEADLOCK FALSE
INVARIANTS
  TypeOK
  OnlyWhole
  WholeIsHanded
  OnceInOrder
  SenderIsKnown
PROPERTIES
  EveryDatagramIsRead
