SPECIFICATION Spec
CONSTANTS
  Total = 2
  RCV_WND = 2
  BYTE_BITS = 2
  SWD_BYTES = 3
  RETRY_TOTAL_TIMES = 3
  SEND_DELAY_TIMES = 2
  ACK_RETRY_TIMES = 2
  MaxInFlight = 2
INVARIANTS
  RejectMeansReceived
CHECK_DEADLOCK FALSE
