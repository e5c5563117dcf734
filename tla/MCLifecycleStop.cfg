SPECIFICATION FairSpec
CONSTANTS
  MaxInit = 1
  MaxPost = 1
  CallbackQuits = FALSE
PROPERTIES
  StopIsObeyed
CHECK_DEADLOCK FALSE
