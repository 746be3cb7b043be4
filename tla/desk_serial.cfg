SPECIFICATION FairSpec
CONSTANTS
  Services = {s1}
  Clients = {c1}
  Workers = {w1}
  Actors = {"staff"}
  Ops = {"transition", "items"}
  Faults = {}
  MaxReq = 5
  MaxTime = 2
  Null = Null
INVARIANTS
  TypeOK
  StampsMatchStatus
  PauseLedger
PROPERTIES
  TerminalIsFinal
  ImplementsLifecycle
  EveryRequestEnds
CHECK_DEADLOCK FALSE
