SPECIFICATION Spec
CONSTANTS
  Harps <- MCHarps
  Statuses <- MCStatuses
  ReservedStatuses = {}
  Triggers <- MCTriggers
  Texts <- MCTexts
  TagNames <- MCTagNames
  Defers = "Deferred"
  Initial = "To Do"
  Spellings <- MCSpellings
  TagOf <- MCTagOf
  MaxTs = 3
  Importers = {i}
  Projects <- MCProjects
  LogsAtFirst <- AgainLogs
  ProjectOrder <- MCProjectOrder
  UserCommands <- AgainCommands
  UserAt = 3
  MaxImports = 2
  MaxUses = 2
  MaxFails = 0
PROPERTIES
  ImportedOnce
CHECK_DEADLOCK FALSE
