SPECIFICATION Spec
CONSTANTS
  Dated = FALSE
  BufLen = 3
  MaxSize = 4
  FooterLen = 1
  Lengths = {1, 2}
  MidnightInCalls = FALSE
  MaxDay = 2
  MaxGiven = 12
  MaxFaults = 0
PROPERTIES RotatedFilesStopGrowing
CHECK_DEADLOCK FALSE
