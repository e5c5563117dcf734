SPECIFICATION FairSpec
CONSTANTS
  Total = 3
  RCV_WND = 2
  BYTE_BITS = 2
  SWD_BYTES = 3
  RETRY_TOTAL_TIMES = 3
  SEND_DELAY_TIMES = 2
  ACK_RETRY_TIMES = 2
  MaxInFlight = 2
INVARIANTS
  TypeOK
  SenderNotAhead
  DeliveredComplete
  NotifiedDelivered
  DeliveredOnce
PROPERTIES
  Promise
  EventuallyResolved
CHECK_DEADLOCK FALSE
