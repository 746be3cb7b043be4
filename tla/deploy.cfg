SPECIFICATION Spec
CONSTANTS
  Operators = {o1, o2}
  Scenes <- AllScenes
  Goals = {0, 5, 6, 8}
  MaxJobs = 3
  None = None
INVARIANTS
  TypeOK
  SchemaIsAtRevision
  OnlyOneStepIsRefused
  HeadIsDeclared
  RerunChangesNothing
PROPERTIES
  DuplicatesNeedStaleLook
SYMMETRY Symmetric
CHECK_DEADLOCK FALSE
