CONSTANTS
  ActorCount = 3
  Events = {"tick", "cmd", "lone"}
  Routes <- MCRoutes
  Policy <- MCPolicy
  Missing = {2}
  Publishers = {0, 1}
  Runtime = 1
  FaultCapacity = 2
  RingCapacity = 1
  MaxPosts = 2
SPECIFICATION Spec
INVARIANTS
  TableMatchesActors
  CountersReconcile
PROPERTIES
  ResultTellsTruth
