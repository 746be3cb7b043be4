SPECIFICATION Spec
CONSTANTS
  Services = {s1}
  Clients = {c1, c2}
  Workers = {w1, w2}
  Actors = {"staff", "mechanic"}
  Ops = {"transition", "fields"}
  Faults = {"redis", "database", "worker"}
  MaxReq = 2
  MaxTime = 0
  Null = Null
SYMMETRY ClientSymmetry
INVARIANTS
  HopsAllowed
  StatusIsLastHop
  OneNoticePerHop
  FailureLeavesNoTrace
CHECK_DEADLOCK FALSE
