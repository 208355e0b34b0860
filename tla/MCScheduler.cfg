CONSTANTS
  ActorCount = 4
  DomainCount = 3
  DomainOf <- MCDomainOf
  DrainBudget <- MCDrainBudget
  BoundActors = {0, 1, 2, 3}
  BoundDomains = {1, 2}
  TurnBudget = 2
  MailboxDepth = 2
SPECIFICATION Spec
PROPERTIES
  ReportTellsTruth
  EveryoneServed
  NoStarvation
