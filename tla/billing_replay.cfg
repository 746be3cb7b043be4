SPECIFICATION Spec
CONSTANTS
  short = short
  long = long
  Centers = {center1}
  Plans = {short, long}
  Duration <- Durations
  Null = Null
  Payments = {p1}
  Refs = {r1}
  Handlers = {h1, h2}
  Faults = {}
  MaxCalls = 1
  MaxTime = 1
INVARIANTS
  NotifiedOnce
CHECK_DEADLOCK FALSE
