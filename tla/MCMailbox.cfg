CONSTANTS
  RingCapacity = 2
  Events <- MCEvents
  EventKind <- MCEventKind
  EventQos <- MCEventQos
  Payloads = {x1, x2}
  ZeroEvent = "tick"
  Producers = {p1}
  MaxPushes = 3
SYMMETRY Perms
SPECIFICATION Spec
INVARIANTS
  RefsConserved
PROPERTIES
  PushTellsTruth
  ImplementsQueue
