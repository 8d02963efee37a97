SPECIFICATION FairSpec
CONSTANTS
  Stops = {s1}
  Contracts = {FALSE}
  MaxBoots = 1
  MaxEvents = 6
  MaxForeign = 0
PROPERTY StopAlwaysSettles
CHECK_DEADLOCK FALSE
