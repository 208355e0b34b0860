CONSTANTS
  LineCount = 2
  RingCapacity = 2
SPECIFICATION SleepSpec
PROPERTY RejectionKeepsSamples
