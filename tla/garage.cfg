SPECIFICATION Spec
CONSTANTS
  p1 = p1
  p2 = p2
  owner = owner
  admin = admin
  roster = roster
  z1 = z1
  v1 = v1
  Cars = {k1, k2}
  Trips = {t1, t2}
  Centers = {z1, z2, z3}
  Mechanics = {m1, m2}
  Customers = {u1, u2}
  Staff = {owner, admin, roster}
  Role <- Roles
  Home <- Homes
  Plates = {p1, p2}
  Shape <- Shapes
  Vins = {v1}
  Logins = {l1, l2}
  Clients = {c1, c2}
  Scenes <- AllScenes
  CarBodies <- Bodies
  CarPatches <- Patches
  MaxKm = 2
  MaxBatch = 2
  MaxReq = 3
  Null = Null
  Deleted = Deleted
INVARIANTS
  TypeOK
  ReferencesAgree
  KeysAreUnique
  OdometerTopsHistory
  FinishedTripIsCounted
  ListsAreAnswered
PROPERTIES
  OdometerFallsOnStaleRead
SYMMETRY Symmetric
CHECK_DEADLOCK FALSE
