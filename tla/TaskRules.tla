------------------------------ MODULE TaskRules ------------------------------
(***************************************************************************)
(* The rules of the tasks domain: what one command to one task decides     *)
(* (`decide`, the task_added .. task_removed functions) and what one event *)
(* does to the task (`apply`).  No variables: TaskAggregate runs these     *)
(* rules on one stream, TaskStore on every stream of a store.              *)
(*                                                                         *)
(* A command's optional field is Absent, given empty (Empty), given blank  *)
(* (Blank) or given.  An optional instant left out is Never.  Tags are     *)
(* sets: `normalized` leaves one of each spelling, in a fixed order.       *)
(* The origin session and the tags' components are left out: no rule       *)
(* reads them.                                                             *)
(***************************************************************************)
EXTENDS Integers

CONSTANTS
  Harps,        \* the harp ids (a task's name, and its stream's key)
  Statuses,     \* the status names a command may give
  ReservedStatuses, \* names starting with the status-class sigil
  Triggers,     \* revive triggers
  Texts,        \* non-blank texts
  TagNames,     \* tags
  Defers,       \* the deferring status every command carries
  Initial       \* the initial status every command carries

Absent == "<absent>"    \* an optional field left out (None)
Empty  == ""            \* a string held empty, or a field given empty
Blank  == " "           \* a field given, but nothing once trimmed
Never  == -1            \* an optional instant left out

(***************************************************************************)
(* The application sends one taxonomy (view::DEFERS and view::INITIAL),    *)
(* two different statuses; no name is empty or blank, none is reserved.    *)
(***************************************************************************)
ASSUME TaxonomyAssumption ==
  /\ Defers \in Statuses
  /\ Initial \in Statuses
  /\ Defers # Initial

ASSUME NamesAssumption ==
  /\ Statuses \cap ReservedStatuses = {}
  /\ \A n \in Statuses \cup ReservedStatuses \cup Triggers \cup Texts \cup Harps :
       n \notin {Absent, Empty, Blank}

Reasons == {"Removed", "Pruned"}
Optional(S) == S \cup {Absent, Empty, Blank}

------------------------------------------------------------------------------
(* Commands, events and the task. *)

AddTaskCommands ==
  [type: {"AddTask"}, harp_id: Harps, text: Texts \cup {Blank},
   status: Optional(Statuses \cup ReservedStatuses), trigger: Optional(Triggers),
   tags: SUBSET TagNames]
SetStatusCommands ==
  [type: {"SetStatus"}, status: Optional(Statuses \cup ReservedStatuses),
   trigger: Optional(Triggers)]
EditTextCommands   == [type: {"EditText"}, text: Texts \cup {Blank}]
RetagCommands      == [type: {"Retag"}, add: SUBSET TagNames, remove: SUBSET TagNames]
RemoveTaskCommands == [type: {"RemoveTask"}, reason: Reasons]

TaskStates ==
  [harp_id: Harps \cup {Empty}, text: Texts \cup {Empty}, status: Statuses \cup {Empty},
   trigger: Triggers \cup {Empty}, tags: SUBSET TagNames, created_at: Int,
   status_set_at: Int, deferred_since: Int, removed: BOOLEAN,
   prior_status: Statuses \cup {Empty}]

\* The task of a stream with no history (TaskState::default).
NoTask ==
  [harp_id |-> Empty, text |-> Empty, status |-> Empty, trigger |-> Empty, tags |-> {},
   created_at |-> 0, status_set_at |-> 0, deferred_since |-> Never, removed |-> FALSE,
   prior_status |-> Empty]

TaskAddedEvents ==
  [type: {"TaskAdded"}, harp_id: Harps, text: Texts, status: Statuses,
   trigger: Triggers \cup {Empty}, tags: SUBSET TagNames, at: Int, deferred_since: Int,
   prior_status: Statuses \cup {Empty}]
StatusChangedEvents ==
  [type: {"StatusChanged"}, status: Statuses, trigger: Triggers \cup {Empty}, at: Int,
   deferred_since: Int, prior_status: Statuses \cup {Empty}]
TextEditedEvents  == [type: {"TextEdited"}, text: Texts]
RetaggedEvents    == [type: {"Retagged"}, tags: SUBSET TagNames]
TaskRemovedEvents == [type: {"TaskRemoved"}, reason: Reasons]

TaskEvents ==
  TaskAddedEvents \cup StatusChangedEvents \cup TextEditedEvents
    \cup RetaggedEvents \cup TaskRemovedEvents

------------------------------------------------------------------------------
(* Apply: one event, recorded at an instant, folded into the task. *)

\* An event's instant: the one an old event wrote, else its page's.
InstantOf(written, recorded_at) == IF written # Never THEN written ELSE recorded_at

\* Mutant of DeferredSince: a change that leaves no trigger forgets the instant.
DeferredSinceForgotten(written, trigger, at, held) ==
  IF written # Never THEN written
  ELSE IF trigger # Empty THEN at
  ELSE Never

DeferredSince(written, trigger, at, held) ==
  IF written # Never THEN written
  ELSE IF trigger # Empty THEN at
  ELSE held

ApplyAdded(task, e, recorded_at) ==
  LET at == InstantOf(e.at, recorded_at) IN
  [task EXCEPT !.harp_id = e.harp_id, !.text = e.text, !.status = e.status,
               !.trigger = e.trigger, !.tags = e.tags, !.created_at = at,
               !.status_set_at = at,
               !.deferred_since = DeferredSince(e.deferred_since, e.trigger, at, Never),
               !.prior_status = e.prior_status]

ApplyStatusChanged(task, e, recorded_at) ==
  LET at == InstantOf(e.at, recorded_at) IN
  [task EXCEPT !.status = e.status, !.trigger = e.trigger, !.status_set_at = at,
               !.deferred_since =
                  DeferredSince(e.deferred_since, e.trigger, at, task.deferred_since),
               !.prior_status = e.prior_status]

Apply(task, e, recorded_at) ==
  CASE e.type = "TaskAdded"     -> ApplyAdded(task, e, recorded_at)
    [] e.type = "StatusChanged" -> ApplyStatusChanged(task, e, recorded_at)
    [] e.type = "TextEdited"    -> [task EXCEPT !.text = e.text]
    [] e.type = "Retagged"      -> [task EXCEPT !.tags = e.tags]
    [] e.type = "TaskRemoved"   -> [task EXCEPT !.removed = TRUE]

------------------------------------------------------------------------------
(* What a command is held to by what it carries alone (tasks::check), and  *)
(* by the task it finds.  A refusal is named by its code; Sound is none.   *)

Sound == "sound"

\* A field given must hold something (present); absent is left out.
GivenBlank(field) == field \in {Empty, Blank}

TextRefusal(text) == IF text = Blank THEN "TextRequired" ELSE Sound

StatusRefusal(status) ==
  IF GivenBlank(status) THEN "Blank"
  ELSE IF status \in ReservedStatuses THEN "StatusReserved"
  ELSE Sound

\* The status an add takes: given, or the one its trigger, or its lack, implies.
AddedStatus(c) ==
  IF c.status # Absent THEN c.status
  ELSE IF c.trigger # Absent THEN Defers ELSE Initial

AddRefusal(c) ==
  IF TextRefusal(c.text) # Sound THEN TextRefusal(c.text)
  ELSE IF StatusRefusal(c.status) # Sound THEN StatusRefusal(c.status)
  ELSE IF GivenBlank(c.trigger) THEN "Blank"
  ELSE IF c.trigger # Absent /\ AddedStatus(c) # Defers THEN "TriggerWithStatus"
  ELSE IF c.trigger = Absent /\ AddedStatus(c) = Defers THEN "TriggerRequired"
  ELSE Sound

\* SetStatus's trigger given empty is its clearing, so only Blank is refused.
ChangeRefusal(c) ==
  IF StatusRefusal(c.status) # Sound THEN StatusRefusal(c.status)
  ELSE IF c.trigger = Blank THEN "Blank"
  ELSE IF c.status = Absent /\ c.trigger = Absent THEN "StatusRequired"
  ELSE IF c.status \notin {Absent, Defers} /\ c.trigger \in Triggers THEN "TriggerWithStatus"
  ELSE IF c.status = Defers /\ c.trigger = Empty THEN "TriggerRequired"
  ELSE Sound

RetagRefusal(c) == IF c.add = {} /\ c.remove = {} THEN "TagRequired" ELSE Sound

\* The rules a caller runs before anything is bound, created or written.
CheckRefusal(c) ==
  CASE c.type = "AddTask"    -> AddRefusal(c)
    [] c.type = "SetStatus"  -> ChangeRefusal(c)
    [] c.type = "EditText"   -> TextRefusal(c.text)
    [] c.type = "Retag"      -> RetagRefusal(c)
    [] c.type = "RemoveTask" -> Sound

\* Mutant of LiveRefusal: a removed task still takes changes.
RemovedTakesChanges(held) == IF held.harp_id = Empty THEN "NoTask" ELSE Sound

\* A change needs a task that is there and not removed (live).
LiveRefusal(held) ==
  IF held.harp_id = Empty THEN "NoTask"
  ELSE IF held.removed THEN "Removed"
  ELSE Sound

------------------------------------------------------------------------------
(* Decide: what a command records.  A decision is a refusal, an event, or  *)
(* nothing at all (`Ok(None)`: the command changes nothing).               *)

NoEvent == [type |-> "none"]
Refused(code) == [refusal |-> code, event |-> NoEvent]
Unchanged == [refusal |-> Sound, event |-> NoEvent]
Recorded(e) == [refusal |-> Sound, event |-> e]
Records(d) == d.event.type # "none"

\* Mutants of TaskAddedOf: a trigger left out is kept as such; a task added
\* deferred has no status to return to.
AddedTriggerAsGiven(c) ==
  [type |-> "TaskAdded", harp_id |-> c.harp_id, text |-> c.text, status |-> AddedStatus(c),
   trigger |-> c.trigger, tags |-> c.tags, at |-> Never, deferred_since |-> Never,
   prior_status |-> IF AddedStatus(c) = Defers THEN Initial ELSE Empty]
AddedWithoutPrior(c) ==
  [type |-> "TaskAdded", harp_id |-> c.harp_id, text |-> c.text, status |-> AddedStatus(c),
   trigger |-> IF c.trigger = Absent THEN Empty ELSE c.trigger,
   tags |-> c.tags, at |-> Never, deferred_since |-> Never, prior_status |-> Empty]

TaskAddedOf(c) ==
  LET deferred == AddedStatus(c) = Defers IN
  [type |-> "TaskAdded", harp_id |-> c.harp_id, text |-> c.text, status |-> AddedStatus(c),
   trigger |-> IF c.trigger = Absent THEN Empty ELSE c.trigger,
   tags |-> c.tags, at |-> Never, deferred_since |-> Never,
   prior_status |-> IF deferred THEN Initial ELSE Empty]

\* Mutant of DecideAdd: a harp that holds a task is added to again.
AddMerges(taken, c) ==
  IF AddRefusal(c) # Sound THEN Refused(AddRefusal(c)) ELSE Recorded(TaskAddedOf(c))

DecideAdd(taken, c) ==
  IF taken THEN Refused("TaskExists")
  ELSE IF AddRefusal(c) # Sound THEN Refused(AddRefusal(c))
  ELSE Recorded(TaskAddedOf(c))

\* Mutant of Deferring: deferring a deferred task again forgets the status it
\* was first deferred from.
DeferringAfresh(held, trigger) ==
  [type |-> "StatusChanged", status |-> Defers, trigger |-> trigger, at |-> Never,
   deferred_since |-> Never,
   prior_status |-> IF held.status = Defers THEN Initial ELSE held.status]

\* A task deferred now returns to the status it was deferred from, kept while
\* it stays deferred.
Deferring(held, trigger) ==
  [type |-> "StatusChanged", status |-> Defers, trigger |-> trigger, at |-> Never,
   deferred_since |-> Never,
   prior_status |-> IF held.status = Defers THEN held.prior_status ELSE held.status]

Resting(status) ==
  [type |-> "StatusChanged", status |-> status, trigger |-> Empty, at |-> Never,
   deferred_since |-> Never, prior_status |-> Empty]

\* Mutant of Moved: clearing a trigger always returns to the initial status.
ClearsToInitial(held, c) ==
  IF c.trigger \in Triggers THEN Recorded(Deferring(held, c.trigger))
  ELSE IF c.trigger = Empty
       THEN IF held.trigger = Empty /\ c.status = Absent THEN Unchanged
            ELSE Recorded(Resting(IF c.status = Absent THEN Initial ELSE c.status))
  ELSE IF c.status # Defers THEN Recorded(Resting(c.status))
  ELSE IF held.trigger = Empty THEN Refused("TriggerRequired")
  ELSE Recorded(Deferring(held, held.trigger))

Moved(held, c) ==
  IF c.trigger \in Triggers THEN Recorded(Deferring(held, c.trigger))
  ELSE IF c.trigger = Empty
       THEN IF c.status # Absent THEN Recorded(Resting(c.status))
            ELSE IF held.trigger = Empty THEN Unchanged
            ELSE Recorded(Resting(held.prior_status))
  ELSE IF c.status # Defers THEN Recorded(Resting(c.status))
  ELSE IF held.trigger = Empty THEN Refused("TriggerRequired")
  ELSE Recorded(Deferring(held, held.trigger))

DecideSetStatus(held, c) ==
  IF LiveRefusal(held) # Sound THEN Refused(LiveRefusal(held))
  ELSE IF ChangeRefusal(c) # Sound THEN Refused(ChangeRefusal(c))
  ELSE Moved(held, c)

DecideEdit(held, c) ==
  IF LiveRefusal(held) # Sound THEN Refused(LiveRefusal(held))
  ELSE IF TextRefusal(c.text) # Sound THEN Refused(TextRefusal(c.text))
  ELSE Recorded([type |-> "TextEdited", text |-> c.text])

\* The adds first, then the removes: a tag named in both ends up removed.
DecideRetag(held, c) ==
  LET after == (held.tags \cup c.add) \ c.remove IN
  IF LiveRefusal(held) # Sound THEN Refused(LiveRefusal(held))
  ELSE IF RetagRefusal(c) # Sound THEN Refused(RetagRefusal(c))
  ELSE IF after = held.tags THEN Unchanged
  ELSE Recorded([type |-> "Retagged", tags |-> after])

DecideRemove(held, c) ==
  IF LiveRefusal(held) # Sound THEN Refused(LiveRefusal(held))
  ELSE Recorded([type |-> "TaskRemoved", reason |-> c.reason])

\* What command c decides of the task `held`; `taken`: its stream has history.
Decide(held, taken, c) ==
  CASE c.type = "AddTask"    -> DecideAdd(taken, c)
    [] c.type = "SetStatus"  -> DecideSetStatus(held, c)
    [] c.type = "EditText"   -> DecideEdit(held, c)
    [] c.type = "Retag"      -> DecideRetag(held, c)
    [] c.type = "RemoveTask" -> DecideRemove(held, c)

------------------------------------------------------------------------------
(* What the rules keep of a task: it has a status, and the deferral it     *)
(* holds is whole: a trigger, and a status to return to, exactly while     *)
(* Deferred; the status it returns to is never Deferred itself; and it     *)
(* knows when it was deferred.                                             *)
DeferralWhole(task) ==
  /\ task.status # Empty
  /\ (task.trigger # Empty) <=> (task.status = Defers)
  /\ (task.prior_status # Empty) <=> (task.status = Defers)
  /\ task.prior_status # Defers
  /\ task.status = Defers => task.deferred_since # Never
=============================================================================
