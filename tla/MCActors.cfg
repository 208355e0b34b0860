CONSTANTS
  LineCount = 3
  RingCapacity = 2
  PageCount = 2
  Width = 2
  Pixels <- MCPixels
  Blank = 0
  TextPlaces <- MCTextPlaces
  Scenes <- MCScenes
  PowerOnGlass <- MCPowerOnGlass
  RetryDelay = 2
  MaxFaults = 2
  MaxRestarts = 1
  DsTick = 2
  DsWait = 3
  DsMod = 12
  DsMailbox = 2
  BhWait = 2
  BhInitial = 1
  BhLimit = 10
  BhCount = 5
  BhMod = 26
  RtcStarts <- MCStarts
  RtcFallback = 2
  RtcSpan = 4
  BtButtons = {b1, b2}
  BtLeds = {l1}
  BtDebounce = 1
  BtLong = 2
  BtMailbox = 2
  SvHardware = {"d1", "d2", "d3"}
  SvConfigs <- MCConfigs
  SvMailbox = 4
  SvSettle = 1
  CmdMessages <- MCMessages
  CmdToken <- MCToken
  CmdCaps = {"led", "display", "sleep"}
  CmdWindow = 2
  CmdInterval = 1
  CmdNonceMax = 3
  CmdTextMax = 3
  CmdMaxSleep = 30
  CmdU32 = 42
  CmdDigits = 2
  CmdMod = 6
  DmSlots = 2
  DmMailbox = 2
  DmMasks <- MCMasks
  DmColumns = 2
  DmPages = 1
  DmMod = 2
SPECIFICATION Spec
INVARIANTS
  NoSampleSleptOver
  FailureRestores
  ReadyShowsFramebuffer
  PendingIsShown
  EarlyByLagOnly
  TimeIsFresh
  ButtonsAgree
  ReadinessIsTold
  SlotsAreQueued
  PanelTellsTruth
PROPERTIES
  BackoffIsKept
  SleepIsConfirmed
