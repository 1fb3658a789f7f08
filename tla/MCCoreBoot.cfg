CONSTANTS
  POR_COUNT = 4
  POR_CYCLES = 8
  AUTO_START = 5
  RESTART = 5
  BOOT_WAIT = 16
  BOOT_WRAP = 32
  States = 5
  MaxResets = 3
SPECIFICATION LiveSpec
INVARIANTS ConsoleBeforeCore NoStaleCore
PROPERTIES NeverStopped MonitorUndisturbed Boots
