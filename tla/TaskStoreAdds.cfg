SPECIFICATION Spec
CONSTANTS
  Harps <- MCHarps
  Statuses <- MCStatuses
  ReservedStatuses = {}
  Triggers = {"after v2"}
  Texts = {"Ship it"}
  TagNames = {}
  Defers = "Deferred"
  Initial = "To Do"
  Clients = {"a1", "a2", "b"}
  Keys <- MCKeys
  ProbeOrder <- MCProbeOrder
  Sends <- AttemptsSend
  OldTasks <- OldDone
  PruneStatuses = {"Done"}
  Cut = 1
  Mints = 2
  Attempts = 2
  MaxCalls <- AttemptsCalls
INVARIANTS
  TypeOK
  NeverMerged
  OneEffectPerRequest
PROPERTIES
  ImplementsRequestBook
CHECK_DEADLOCK FALSE
