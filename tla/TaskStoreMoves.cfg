SPECIFICATION Spec
CONSTANTS
  Harps <- MCHarps
  Statuses <- MCStatuses
  ReservedStatuses = {}
  Triggers = {"after v2"}
  Texts = {"Ship it"}
  TagNames = {}
  Defers = "Deferred"
  Initial = "To Do"
  Clients = {"b", "p"}
  Keys <- MCKeys
  ProbeOrder <- MCProbeOrder
  Sends <- MovesSend
  OldTasks <- OldDone
  PruneStatuses = {"Done"}
  Cut = 1
  Mints = 2
  Attempts = 2
  MaxCalls <- MovesCalls
PROPERTIES
  PrunesAsRead
  EveryCallEnds
CHECK_DEADLOCK FALSE
