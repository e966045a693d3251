--------------------------- MODULE MCTaskAggregate ---------------------------
(* TaskAggregate on a small taxonomy: every shape of add and status change,  *)
(* one edit, one tag put on and off, both removals.                          *)
EXTENDS TaskAggregate

MCHarps == {"swift-amber"}
MCStatuses == {"To Do", "In Progress", "Deferred"}
MCReserved == {"@open"}
MCTriggers == {"after v2", "after v3"}
MCTexts == {"Ship it"}
MCTags == {"red"}
MCInstants == {0, 1}

MCAdds ==
  [type: {"AddTask"}, harp_id: MCHarps, text: MCTexts,
   status: {Absent, "In Progress", "Deferred"}, trigger: {Absent, "after v2"}, tags: {{}}]
MCSets ==
  [type: {"SetStatus"}, status: {Absent, "To Do", "In Progress", "Deferred"},
   trigger: {Absent, Empty, "after v2", "after v3"}]
\* One of each way a field is refused on its own.
MCMalformed ==
  [type: {"AddTask"}, harp_id: MCHarps, text: {Blank}, status: {Absent}, trigger: {Absent},
   tags: {{}}]
    \cup [type: {"SetStatus"}, status: {Blank, "@open"}, trigger: {Absent}]
    \cup [type: {"SetStatus"}, status: {Absent}, trigger: {Blank}]
MCCommands ==
  MCMalformed \cup MCAdds \cup MCSets
    \cup [type: {"EditText"}, text: {"Ship it"}]
    \cup [type: {"Retag"}, add: {{}, {"red"}}, remove: {{"red"}}]
    \cup RemoveTaskCommands

LegacyAdd(status, trigger, at, since, prior) ==
  [type |-> "TaskAdded", harp_id |-> "swift-amber", text |-> "Ship it", status |-> status,
   trigger |-> trigger, tags |-> {}, at |-> at, deferred_since |-> since,
   prior_status |-> prior]
MCLegacyAdds ==
  {LegacyAdd("To Do", Empty, 0, Never, Empty), LegacyAdd("Deferred", "after v2", 0, 0, "To Do")}
=============================================================================
