SPECIFICATION Spec
CONSTANTS
  Plans = {p1, p2}
  Tasks <- MCTasks
  Texts <- MCTexts
  WorkRoot <- MCWorkRoot
  PlanNames <- MCPlanNames
  NameOf <- MCNameOf
  Clients = {"writer", "reader"}
  Calls <- MCCalls
  Elsewhere <- MCElsewhere
  Edits <- MCEdits
  FilesAtFirst <- MCFilesAtFirst
  TagsAtFirst <- MCTagsAtFirst
  MaxCalls <- MCMaxCalls
  MaxBeside = 1
  MaxFails = 1
SYMMETRY PlansAlike
INVARIANTS
  TypeOK
  FileOnePlan
  TagOrLink
  ListAgrees
CHECK_DEADLOCK FALSE
