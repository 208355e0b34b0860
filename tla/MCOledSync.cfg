CONSTANTS
  PageCount = 2
  Width = 2
  Pixels <- MCPixels
  Blank = 0
  TextPlaces <- MCTextPlaces
  Scenes <- MCScenes
  PowerOnGlass <- MCPowerOnGlass
  RetryDelay = 2
  MaxFaults = 2
  MaxRestarts = 1
SPECIFICATION OledSpec
PROPERTY FailureMovesToError
