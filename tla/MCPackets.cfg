SPECIFICATION PacketsSpec
CONSTANTS
  K = 3
  Words <- MCWords
  MaxLen = 6
  Addresses = 2
  MaxRecords = 2
  OPT_PAD = 0
  OPT_MSG_TYPE = 1
  OPT_SERVER_ID = 2
  OPT_LEASE_TIME = 3
  OPT_END = 4
  Bytes <- MCBytes
  MaxBytes = 5
  Wide = 2
  MaxOptions = 3
INVARIANTS ReadsInside ReplyFits RequestsExact LastWins
CHECK_DEADLOCK FALSE
