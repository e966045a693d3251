SPECIFICATION Spec
CONSTANTS
  Harps <- MCHarps
  Statuses <- MCStatuses
  ReservedStatuses = {}
  Triggers <- MCTriggers
  Texts <- MCTexts
  TagNames <- MCTagNames
  Defers = "Deferred"
  Initial = "To Do"
  Spellings <- MCSpellings
  TagOf <- MCTagOf
  MaxTs = 3
  Importers = {i, j}
  Projects <- MCProjects
  LogsAtFirst <- MCLogsAtFirst
  ProjectOrder <- MCProjectOrder
  UserCommands <- MCUserCommands
  UserAt = 3
  MaxImports = 2
  MaxUses = 1
  MaxFails = 1
SYMMETRY ImportersAlike
INVARIANTS
  TypeOK
  ImportedAsLogged
  NothingLeftBehind
  ForeignKept
PROPERTIES
  ImportedOnce
CHECK_DEADLOCK FALSE
