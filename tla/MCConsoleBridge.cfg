SPECIFICATION BridgeSpec
CONSTANTS
  b1 = b1
  b2 = b2
  Byte <- MCByte
  Requests <- MCRequests
  RX_DEPTH = 5
  TX_DEPTH = 3
  RX_HEADROOM = 1
  RX_HYSTERESIS = 2
INVARIANTS SnapshotIsAtomic PopTakesWhatWasRead RoomSeenIsRoom
PROPERTIES NoOscillation
