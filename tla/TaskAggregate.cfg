SPECIFICATION Spec
CONSTANTS
  Harps <- MCHarps
  Statuses <- MCStatuses
  ReservedStatuses <- MCReserved
  Triggers <- MCTriggers
  Texts <- MCTexts
  TagNames <- MCTags
  Defers = "Deferred"
  Initial = "To Do"
  Instants <- MCInstants
  Commands <- MCCommands
  LegacyAdds <- MCLegacyAdds
  MaxEvents = 4
INVARIANTS
  TypeOK
  DeferralHeldWhole
  ReturnsToStatusLeft
  DeferredSinceLastDeferral
