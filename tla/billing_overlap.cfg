SPECIFICATION Spec
CONSTANTS
  short = short
  long = long
  Centers = {center1}
  Plans = {short, long}
  Duration <- Durations
  Null = Null
  Payments = {p1, p2}
  Refs = {r1, r2}
  Handlers = {h1, h2}
  Faults = {"database", "worker", "owner"}
  MaxCalls = 2
  MaxTime = 1
INVARIANTS
  TypeOK
  
  PaidIsNoticed
  AnsweredPaidIsRecorded
  
PROPERTIES
  PaidYieldsToStaleRead
  RefYieldsToStaleRead
SYMMETRY Symmetric
CHECK_DEADLOCK FALSE
