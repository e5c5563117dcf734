SPECIFICATION Spec
CONSTANTS
  Cmds = {"query", "commit", "delete", "modify", "store", "qrget", "list", "ps",
          "login", "active"}
  MaxCmds = 3
  MsgBuf = 64
CHECK_DEADLOCK FALSE
INVARIANTS
  TypeOK
  RoundTrip
  Reported
