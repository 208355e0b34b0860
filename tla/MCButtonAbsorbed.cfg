CONSTANTS
  BtButtons = {b1, b2}
  BtLeds = {l1}
  BtDebounce = 1
  BtLong = 2
  BtMailbox = 2
SPECIFICATION BtSpec
INVARIANT ChangesAreTold
