CONSTANTS
  NetRingCapacity = 2
  Window = 2
  Prompt = TRUE
SPECIFICATION NetFairSpec
PROPERTIES
  Recovers
