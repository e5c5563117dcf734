SPECIFICATION FairSpec
CONSTANTS
  Servers = {s1, s2}
  NoServer = NoServer
  Codes = {c1, c2}
  NoCode = NoCode
  LOGIN_TICKS = 2
  MAX_ACTIVE_NOACK_TIMES = 2
  MaxInFlight = 2
INVARIANTS
  TypeOK
  RetryArmed
  SessionOfService
PROPERTIES
  SilenceNoticed
  LoginRetried
