SPECIFICATION FairSpec
CONSTANTS
  MaxInit = 2
  MaxPost = 1
  CallbackQuits = TRUE
INVARIANTS
  TypeOK
  NothingLost
  QuietAfterQuit
  OneCallback
  FaultsExplained
PROPERTIES
  QuitReturns
  PostedIsHanded
CHECK_DEADLOCK FALSE
