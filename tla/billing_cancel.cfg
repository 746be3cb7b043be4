SPECIFICATION Spec
CONSTANTS
  short = short
  long = long
  Centers = {center1}
  Plans = {short, long}
  Duration <- Durations
  Null = Null
  Payments = {p1}
  Refs = {r1}
  Handlers = {h1}
  Faults = {}
  MaxCalls = 2
  MaxTime = 1
INVARIANTS
  AnswerIsStatus
CHECK_DEADLOCK FALSE
