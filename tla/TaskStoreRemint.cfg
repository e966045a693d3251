SPECIFICATION Spec
CONSTANTS
  Harps <- MCHarps
  Statuses <- MCStatuses
  ReservedStatuses = {}
  Triggers = {"after v2"}
  Texts = {"Ship it"}
  TagNames = {}
  Defers = "Deferred"
  Initial = "To Do"
  Clients = {"b", "p", "q"}
  Keys <- MCKeys
  ProbeOrder <- MCProbeOrder
  Sends <- RemintSend
  OldTasks <- OldDone
  PruneStatuses = {"Done"}
  Cut = 1
  Mints = 2
  Attempts = 2
  MaxCalls <- RemintCalls
PROPERTIES
  PurgesOnlyRemoved
CHECK_DEADLOCK FALSE
