SPECIFICATION Spec
CONSTANTS
  Phones = {p1, p2}
  Slugs = {g1}
  DeviceTokens = {d1}
  Sockets = {b1}
  Clients = {c1, c2}
  Scenes <- AllScenes
  MaxAttempts = 2
  MaxReq = 3
  Null = Null
INVARIANTS
  TypeOK
  CodeAdmitsOnce
  WrongGuessesAreCounted
  OtpRecordIsWhole
  
  DisabledAccountsGetNoSession
  AuditTellsColumn
  RowsHaveUniqueKeys
PROPERTIES
  EditsReachReaders
  EventsArriveOrSocketCloses
CHECK_DEADLOCK FALSE
