CONSTANTS
  Lines = {1, 2}
  IrqCapacity = 2
  NetCapacity = 1
  QueueCapacity = 2
  Timers = {1, 2}
  MaxDue <- MCMaxDue
  Reserved = 1
  MaxSamples = 2
  MaxTurns = 2
  MaxMessages = 3
  TurnBudget = 2
  TurnMessages = 3
  NetRingCapacity = 2
  Window = 2
  Prompt = FALSE
SPECIFICATION Spec
INVARIANTS
  NoMissedWakeup
  OkMeansDone
  FlagsTellTruth
  ConnectionIsSeen
PROPERTIES
  PollsEnd
  NetServed
  Recovers
