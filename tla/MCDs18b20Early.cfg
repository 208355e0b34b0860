CONSTANTS
  DsTick = 2
  DsWait = 3
  DsMod = 12
  DsMailbox = 2
SPECIFICATION DsSpec
INVARIANT NeverReadEarly
