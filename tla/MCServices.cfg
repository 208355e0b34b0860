CONSTANTS
  SlotCount = 2
  GenMod = 3
  TimeMod = 11
  Delays = {0, 1, 3}
  MaxLate = 2
  StartClock = 6
  MaxClock = 12
  MaxTimers = 3
  NpSlotCount = 2
  NpGenMod = 3
  NpRing = 2
  NpMailbox = 2
  TlKinds = {"temp", "light"}
  TlInterval = 1
  TlMod = 4
  TlMessages = 3
  I2cPulses = 3
  I2cPayload = 2
  QuItems = {"x", "y"}
  QuCapacity = 3
  QuSeqMod = 6
  ObLimit <- MCLimit
  ObDropOldest = {"latest"}
  FbKeys = {"k1", "k2", "k3"}
  FbCapacity = 2
  FbEmits = 4
  WdDomains = {"fast", "slow"}
  WdMod = 7
  WdCallMod = 3
  WdBurst = 2
SPECIFICATION Spec
INVARIANTS
  DueIsExact
  NextDeadlineExact
  CancelHitsOwn
  PayloadIsHeld
  BusIsReturned
  QueuesConserve
  FedMeansAlive
PROPERTIES
  TelemetryTellsTruth
