SPECIFICATION Spec
CONSTANTS
  TX_DEPTH = 2
  DRAIN_MAX_BYTES = 2
  FULL_POLLS = 1
  TRIES = 3
  Scenarios <- All
INVARIANTS SessionTypeOK QuietTranscript QuietWrites NothingMissing TypedAtMostOnce TranscriptInOrder FaultsReported
