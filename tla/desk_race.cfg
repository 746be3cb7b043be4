SPECIFICATION Spec
CONSTANTS
  Services = {s1}
  Clients = {c1, c2}
  Workers = {w1, w2}
  Actors = {"staff"}
  Ops = {"transition"}
  Faults = {}
  MaxReq = 2
  MaxTime = 0
  Null = Null
SYMMETRY ClientSymmetry
PROPERTIES
  TerminalIsFinal
CHECK_DEADLOCK FALSE
