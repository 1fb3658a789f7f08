CONSTANTS
  Char <- MCChars
  BANNER_PREFIX <- MCPrefix
  Banner <- MCBanner
  HELP_COMMAND <- MCCommand
  HELP_MARKER <- MCMarker
  Help <- MCHelp
  Backlog <- MCBacklog
  Patterns <- MCPatterns
  W = 5
  Bytes = {1, 2}
  MaxLen = 4
  IdWords = 4
SPECIFICATION HostSpec
INVARIANTS PassIsEvidence FailureHasCause HelpersAgree
CHECK_DEADLOCK FALSE
