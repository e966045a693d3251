SPECIFICATION Spec
CONSTANTS
  Harps <- MCHarps
  Statuses <- MCStatuses
  ReservedStatuses = {}
  Triggers = {"after v2"}
  Texts = {"Ship it"}
  TagNames = {}
  Defers = "Deferred"
  Initial = "To Do"
  Clients = {"a", "p", "q"}
  Keys <- MCKeys
  ProbeOrder <- MCProbeOrder
  Sends <- PrunesSend
  OldTasks <- OldDone
  PruneStatuses = {"Done"}
  Cut = 2
  Mints = 2
  Attempts = 2
  MaxCalls <- PrunesCalls
INVARIANTS
  OneTaskPerRequest
PROPERTIES
  FinishesUnpurged
  OwnAnswer
CHECK_DEADLOCK FALSE
