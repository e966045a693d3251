SPECIFICATION Spec
CONSTANTS
  Harps <- MCHarps
  HarpRank <- MCHarpRank
  Projects <- MCProjects
  ProjectRank <- MCProjectRank
  Statuses <- MCStatuses
  ReservedStatuses = {}
  Triggers = {"after v2"}
  Texts <- MCTexts
  TagNames <- MCTagNames
  Defers = "Deferred"
  Initial = "To Do"
  TagOf <- MCTagOf
  TagOrder <- MCTagOrder
  NumberOf <- MCNumberOf
  EnumOf <- MCEnumOf
  ExploitedInWild = "wild"
  Scale = 6
  Terms = {"ship"}
  Mentioning <- MCMentioning
  DeclaredIn <- MCDeclaredIn
  DefaultStatuses <- MCDefaultStatuses
  Finished = {"Done"}
  Commands <- MCCommands
  HeldAtFirst <- MCHeldAtFirst
  Now = 2
  Asked <- MCAsked
  WorkRoot = "<no project>"
  Rootless = TRUE
  SeedFormulas <- MCSeedFormulas
  Watched = "p"
  ViewQuery <- MCViewQuery
  CeilingTicks = 2
  NewerAt = {"h2"}
  NewerPurges = FALSE
  MaxWrites = 4
  MaxReads = 1
  MaxFails = 1
INVARIANTS
  TypeOK
  ListingComplete
  QuietIsCurrent
PROPERTIES
  ImplementsLiveTasks
  ViewCatchesUp
CHECK_DEADLOCK FALSE
