SPECIFICATION FairSpec
CONSTANTS
  Stops = {s1}
  Contracts = {TRUE, FALSE}
  MaxBoots = 3
  MaxEvents = 5
  MaxForeign = 4
PROPERTY RunsSettle
CHECK_DEADLOCK FALSE
