CONSTANTS
  SlotCount = 2
  Sizes <- MCSizes
  GenMod = 3
  Clients = {c1, c2}
  Msgs = {m1, m2}
  MaxAcquires = 4
  MaxRetains = 3
  MaxStale = 1
SYMMETRY Perms
SPECIFICATION Spec
INVARIANTS
  RefcountIsShares
  PayloadNotRecycled
  LiveMeansCurrent
  OwnersAreLive
