SPECIFICATION MCSpec
CONSTANTS
  b1 = b1
  b2 = b2
  Byte <- MCByte
  CoreBytes <- MCByte
  Requests <- MCRequests
  RX_DEPTH = 3
  TX_DEPTH = 3
  RX_HEADROOM = 2
  RX_HYSTERESIS = 1
  FRAME = 3
INVARIANTS NoOverflow
PROPERTIES UpStream DownStream CoreResumes UpDelivers DownDelivers
