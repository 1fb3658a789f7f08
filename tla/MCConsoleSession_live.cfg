SPECIFICATION FairSpec
CONSTANTS
  TX_DEPTH = 1
  DRAIN_MAX_BYTES = 2
  FULL_POLLS = 1
  TRIES = 2
  Scenarios <- OneOfEach
PROPERTY SessionDelivers
