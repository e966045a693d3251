SPECIFICATION Spec
CONSTANTS
  Plans = {p, q, r}
  Clients = {"a", "b"}
  MaxCalls <- TwoAtOnce
SYMMETRY PlansAlike
INVARIANTS
  SupersededByOne
PROPERTIES
  CyclesOnlyRaced
  LinksEndWhole
CHECK_DEADLOCK FALSE
