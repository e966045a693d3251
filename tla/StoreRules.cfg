SPECIFICATION Spec
CONSTANTS
  Targets <- MCTargets
  NamespaceOf <- MCNamespaceOf
  Values = {"v1", "v2"}
  Retired = {"plan"}
  Reserved = {"taskloom"}
  Seed <- MCSeed
  Harps = {"h1"}
  Procs = {"a", "b"}
  Requests <- MCRequests
  MaxCalls <- TwoEach
  OldSchemas <- MCOldSchemas
  Files <- MCFiles
  MaxEdits = 1
  EditsBesideImport = FALSE
  TagsHeld <- MCTagsHeld
INVARIANTS
  TypeOK
  OneValuePerScalar
  MovedKept
PROPERTIES
  ImplementsRuleBook
  JudgedWithinCall
CHECK_DEADLOCK FALSE
