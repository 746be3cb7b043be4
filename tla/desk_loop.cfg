SPECIFICATION FairSpec
CONSTANTS
  Services = {s1}
  Clients = {c1, c2}
  Workers = {w1}
  Actors = {"staff"}
  Ops = {"transition"}
  Faults = {}
  MaxReq = 1
  MaxTime = 0
  Null = Null
PROPERTIES
  EveryRequestEnds
CHECK_DEADLOCK FALSE
