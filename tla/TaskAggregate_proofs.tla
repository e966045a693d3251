------------------------- MODULE TaskAggregate_proofs -------------------------
(***************************************************************************)
(* For every taxonomy, every set of commands and every clock: the folded   *)
(* task keeps its type, its deferral is whole, and nothing is recorded     *)
(* after a removal.  None is inductive alone: an add decides without       *)
(* reading the task, so it needs the task of an empty stream to be the     *)
(* default one (EmptyStreamHoldsNoTask), and a change reads only the task, *)
(* so it needs a removal on the stream to show there (RemovalShows).       *)
(*                                                                         *)
(* And what the task holds of its deferral agrees with its whole stream:   *)
(* the invariant that says the task is whole at each moment is joined by   *)
(* what ties it to the stream, that the task's status and trigger are      *)
(* those of the last event that set them (LastStatusHeld).                 *)
(***************************************************************************)
EXTENDS TaskAggregate, TLAPS

\* A stream with no event folds to the default task, and one with any holds
\* a task.
EmptyStreamHoldsNoTask ==
  \/ log = <<>> /\ task = NoTask
  \/ log # <<>> /\ task.harp_id # Empty

\* A removal on the stream is its last event, and the task folded is removed.
RemovalShows ==
  \A i \in DOMAIN log :
    log[i].event.type = "TaskRemoved" => i = Len(log) /\ task.removed

IInv ==
  /\ TypeOK
  /\ EmptyStreamHoldsNoTask
  /\ DeferralHeldWhole
  /\ RemovalShows

\* What an event that sets the status must carry for the task to be whole.
EventWhole(e) ==
  /\ (e.trigger # Empty) <=> (e.status = Defers)
  /\ (e.prior_status # Empty) <=> (e.status = Defers)
  /\ e.prior_status # Defers

------------------------------------------------------------------------------
(* An add decides a whole event of its type. *)
LEMMA DecideAddWhole ==
  ASSUME NEW c \in AddTaskCommands, NEW taken \in BOOLEAN, Records(DecideAdd(taken, c))
  PROVE  /\ DecideAdd(taken, c).event \in TaskAddedEvents
         /\ EventWhole(DecideAdd(taken, c).event)
         /\ ~taken
         /\ DecideAdd(taken, c).event.type = "TaskAdded"
<1>1. DecideAdd(taken, c) = Recorded(TaskAddedOf(c)) /\ ~taken /\ AddRefusal(c) = Sound
  BY DEF DecideAdd, Records, Refused, NoEvent
<1>2. c.text \in Texts
  BY <1>1 DEF AddRefusal, TextRefusal, Sound, AddTaskCommands
<1>3. c.status = Absent \/ c.status \in Statuses
  BY <1>1 DEF AddRefusal, StatusRefusal, GivenBlank, Sound, AddTaskCommands, Optional
<1>4. c.trigger = Absent \/ c.trigger \in Triggers
  BY <1>1 DEF AddRefusal, StatusRefusal, GivenBlank, Sound, AddTaskCommands, Optional
<1>5. AddedStatus(c) \in Statuses
  BY <1>3, TaxonomyAssumption DEF AddedStatus
<1>6. (c.trigger # Absent) <=> (AddedStatus(c) = Defers)
  BY <1>1 DEF AddRefusal, Sound
<1>7. TaskAddedOf(c) \in TaskAddedEvents
  BY <1>2, <1>4, <1>5, TaxonomyAssumption
  DEF TaskAddedOf, TaskAddedEvents, AddTaskCommands, Never
<1>8. EventWhole(TaskAddedOf(c))
  BY <1>4, <1>6, TaxonomyAssumption, NamesAssumption DEF EventWhole, TaskAddedOf
<1> QED
  BY <1>1, <1>7, <1>8 DEF Recorded, TaskAddedOf

(* A status change of a whole task decides a whole event. *)
LEMMA DecideSetStatusWhole ==
  ASSUME NEW c \in SetStatusCommands, NEW held \in TaskStates, DeferralWhole(held),
         Records(DecideSetStatus(held, c))
  PROVE  /\ DecideSetStatus(held, c).event \in StatusChangedEvents
         /\ EventWhole(DecideSetStatus(held, c).event)
<1> DEFINE e == DecideSetStatus(held, c).event
<1>1. DecideSetStatus(held, c) = Moved(held, c) /\ ChangeRefusal(c) = Sound
  BY DEF DecideSetStatus, Records, Refused, NoEvent
<1>2. c.status = Absent \/ c.status \in Statuses
  BY <1>1 DEF ChangeRefusal, StatusRefusal, GivenBlank, Sound, SetStatusCommands, Optional
<1>3. c.trigger \in {Absent, Empty} \cup Triggers
  BY <1>1 DEF ChangeRefusal, StatusRefusal, Sound, SetStatusCommands, Optional
<1>4. ASSUME NEW t \in Triggers, t # Empty
      PROVE  /\ Deferring(held, t) \in StatusChangedEvents
             /\ EventWhole(Deferring(held, t))
  <2> DEFINE prior == IF held.status = Defers THEN held.prior_status ELSE held.status
  <2>1. prior \in Statuses /\ prior # Empty /\ prior # Defers
    BY TaxonomyAssumption DEF TaskStates, DeferralWhole
  <2>2. Deferring(held, t) =
          [type |-> "StatusChanged", status |-> Defers, trigger |-> t, at |-> Never,
           deferred_since |-> Never, prior_status |-> prior]
    BY DEF Deferring
  <2> HIDE DEF prior
  <2> QED
    BY <1>4, <2>1, <2>2, TaxonomyAssumption DEF StatusChangedEvents, EventWhole, Never
<1>5. ASSUME NEW s \in Statuses, s # Defers
      PROVE  /\ Resting(s) \in StatusChangedEvents
             /\ EventWhole(Resting(s))
  BY <1>5, TaxonomyAssumption, NamesAssumption
  DEF Resting, StatusChangedEvents, EventWhole, Never
<1>6. CASE c.trigger \in Triggers
  BY <1>1, <1>4, <1>6, NamesAssumption DEF Moved, Recorded
<1>7. CASE c.trigger = Empty
  <2>1. c.status # Absent => c.status \in Statuses /\ c.status # Defers
    BY <1>1, <1>2, <1>7 DEF ChangeRefusal, Sound
  <2>2. held.trigger # Empty => held.prior_status \in Statuses /\ held.prior_status # Defers
    BY DEF DeferralWhole, TaskStates
  <2>3. DecideSetStatus(held, c).event =
          IF c.status # Absent THEN Resting(c.status) ELSE Resting(held.prior_status)
    BY <1>1, <1>7, NamesAssumption DEF Moved, Recorded, Records, Unchanged, NoEvent
  <2>4. c.status # Absent \/ held.trigger # Empty
    BY <1>1, <1>7, NamesAssumption DEF Moved, Records, Unchanged, NoEvent
  <2> QED
    BY <1>5, <2>1, <2>2, <2>3, <2>4
<1>8. CASE c.trigger = Absent
  <2>1. c.status \in Statuses
    BY <1>1, <1>2, <1>8, TaxonomyAssumption DEF ChangeRefusal, Sound
  <2>2. c.trigger \notin Triggers /\ c.trigger # Empty
    BY <1>8, NamesAssumption DEF Absent, Empty
  <2>3. CASE c.status # Defers
    <3>1. DecideSetStatus(held, c).event = Resting(c.status)
      BY <1>1, <2>2, <2>3 DEF Moved, Recorded
    <3> QED
      BY <1>5, <2>1, <2>3, <3>1
  <2>4. CASE c.status = Defers
    <3>1. held.trigger # Empty
      BY <1>1, <2>2, <2>4 DEF Moved, Records, Refused, NoEvent
    <3>2. held.trigger \in Triggers
      BY <3>1 DEF TaskStates
    <3>3. DecideSetStatus(held, c).event = Deferring(held, held.trigger)
      BY <1>1, <2>2, <2>4, <3>1 DEF Moved, Recorded
    <3> QED
      BY <1>4, <3>1, <3>2, <3>3
  <2> QED
    BY <2>3, <2>4
<1> QED
  BY <1>3, <1>6, <1>7, <1>8

------------------------------------------------------------------------------
(* Folding a whole event into a task leaves a whole task. *)
LEMMA ApplyAddedWhole ==
  ASSUME NEW e \in TaskAddedEvents, EventWhole(e), NEW at \in Nat
  PROVE  /\ Apply(NoTask, e, at) \in TaskStates
         /\ DeferralWhole(Apply(NoTask, e, at))
         /\ Apply(NoTask, e, at).harp_id # Empty
<1> DEFINE i == InstantOf(e.at, at)
<1> DEFINE d == DeferredSince(e.deferred_since, e.trigger, i, Never)
<1>1. i \in Int /\ i # Never
  BY DEF InstantOf, TaskAddedEvents, Never
<1>2. d \in Int /\ (e.trigger # Empty => d # Never)
  BY <1>1 DEF DeferredSince, TaskAddedEvents, Never
<1>3. e.type = "TaskAdded"
  BY DEF TaskAddedEvents
<1>4. Apply(NoTask, e, at) =
        [harp_id |-> e.harp_id, text |-> e.text, status |-> e.status, trigger |-> e.trigger,
         tags |-> e.tags, created_at |-> i, status_set_at |-> i, deferred_since |-> d,
         removed |-> FALSE, prior_status |-> e.prior_status]
  BY <1>3 DEF Apply, ApplyAdded, NoTask
<1> HIDE DEF i, d
<1>5. Apply(NoTask, e, at) \in TaskStates
  BY <1>1, <1>2, <1>4 DEF TaskStates, TaskAddedEvents
<1>6. e.status # Empty /\ e.harp_id # Empty
  BY NamesAssumption DEF TaskAddedEvents
<1> QED
  BY <1>2, <1>4, <1>5, <1>6 DEF DeferralWhole, EventWhole

LEMMA ApplyStatusWhole ==
  ASSUME NEW held \in TaskStates, held.harp_id # Empty, NEW e \in StatusChangedEvents,
         EventWhole(e), NEW at \in Nat
  PROVE  /\ Apply(held, e, at) \in TaskStates
         /\ DeferralWhole(Apply(held, e, at))
         /\ Apply(held, e, at).harp_id # Empty
<1> DEFINE i == InstantOf(e.at, at)
<1> DEFINE d == DeferredSince(e.deferred_since, e.trigger, i, held.deferred_since)
<1>1. i \in Int /\ i # Never
  BY DEF InstantOf, StatusChangedEvents, Never
<1>2. d \in Int /\ (e.trigger # Empty => d # Never)
  BY <1>1 DEF DeferredSince, StatusChangedEvents, TaskStates, Never
<1>3. e.type = "StatusChanged"
  BY DEF StatusChangedEvents
<1>4. Apply(held, e, at) =
        [held EXCEPT !.status = e.status, !.trigger = e.trigger, !.status_set_at = i,
                     !.deferred_since = d, !.prior_status = e.prior_status]
  BY <1>3 DEF Apply, ApplyStatusChanged
<1> HIDE DEF i, d
<1>5. Apply(held, e, at) \in TaskStates
  BY <1>1, <1>2, <1>4 DEF TaskStates, StatusChangedEvents
<1>6. e.status # Empty
  BY NamesAssumption DEF StatusChangedEvents
<1> QED
  BY <1>2, <1>4, <1>5, <1>6 DEF DeferralWhole, EventWhole, TaskStates

------------------------------------------------------------------------------
(* The invariant holds initially and every step keeps it. *)

LEMMA NoTaskTyped == NoTask \in TaskStates /\ NoTask.harp_id = Empty
  BY DEF NoTask, TaskStates, Never

LEMMA InitIInv == Init => IInv
<1> SUFFICES ASSUME Init PROVE IInv
  OBVIOUS
<1>1. CASE log = <<>> /\ task = NoTask
  BY <1>1, NoTaskTyped
  DEF IInv, TypeOK, EmptyStreamHoldsNoTask, DeferralHeldWhole, RemovalShows
<1>2. ASSUME NEW e \in LegacyAdds, NEW at \in Instants,
             log = <<[event |-> e, recorded_at |-> at]>>, task = Apply(NoTask, e, at)
      PROVE  IInv
  <2>1. e \in TaskAddedEvents /\ at \in Nat
    BY <1>2, LegacyAssumption, InstantsAssumption
  <2>2. EventWhole(e)
    BY <1>2, LegacyAssumption, TaxonomyAssumption, NamesAssumption DEF EventWhole
  <2>3. [event |-> e, recorded_at |-> at] \in Pages
    BY <2>1 DEF Pages, TaskEvents
  <2>4. log \in Seq(Pages) /\ log # <<>>
    BY <1>2, <2>3
  <2>5. RemovalShows
    BY <1>2, <2>1 DEF RemovalShows, TaskAddedEvents
  <2> QED
    BY <1>2, <2>1, <2>2, <2>4, <2>5, ApplyAddedWhole
    DEF IInv, TypeOK, EmptyStreamHoldsNoTask, DeferralHeldWhole
<1> QED
  BY <1>1, <1>2 DEF Init

(* What is left to show of a step that records an event: nothing is        *)
(* recorded on a removed task's stream, and a removal leaves it removed.   *)
LEMMA RecordedKeepsIInv ==
  ASSUME IInv, NEW e \in TaskEvents, NEW at \in Instants,
         log' = Append(log, [event |-> e, recorded_at |-> at]),
         task' \in TaskStates, task'.harp_id # Empty, DeferralWhole(task'),
         log = <<>> \/ ~task.removed, e.type = "TaskRemoved" => task'.removed
  PROVE  IInv'
<1>1. [event |-> e, recorded_at |-> at] \in Pages
  BY DEF Pages
<1>2. log' \in Seq(Pages) /\ log' # <<>>
  BY <1>1 DEF IInv, TypeOK
<1>3. \A i \in DOMAIN log : log[i].event.type # "TaskRemoved"
  BY DEF IInv, RemovalShows
<1>4. /\ DOMAIN log' = DOMAIN log \cup {Len(log')}
      /\ \A i \in DOMAIN log : log'[i] = log[i]
      /\ log'[Len(log')].event = e
  BY <1>1 DEF IInv, TypeOK
<1>5. RemovalShows'
  BY <1>3, <1>4 DEF RemovalShows
<1> QED
  BY <1>2, <1>5 DEF IInv, TypeOK, EmptyStreamHoldsNoTask, DeferralHeldWhole

LEMMA UnchangedKeepsIInv == IInv /\ UNCHANGED vars => IInv'
  BY DEF IInv, TypeOK, EmptyStreamHoldsNoTask, DeferralHeldWhole, RemovalShows, vars

LEMMA NextIInv == IInv /\ [Next]_vars => IInv'
<1> SUFFICES ASSUME IInv, Next PROVE IInv'
  BY UnchangedKeepsIInv
<1>1. CASE Purge
  BY <1>1, NoTaskTyped
  DEF Purge, IInv, TypeOK, EmptyStreamHoldsNoTask, DeferralHeldWhole, RemovalShows
<1>2. ASSUME NEW c \in Commands, NEW at \in Instants,
             \/ AddTask(c, at) \/ SetStatus(c, at) \/ EditText(c, at)
             \/ Retag(c, at) \/ RemoveTask(c, at)
      PROVE  IInv'
  <2> at \in Nat
    BY InstantsAssumption
  <2> c \in AddTaskCommands \cup SetStatusCommands \cup EditTextCommands
             \cup RetagCommands \cup RemoveTaskCommands
    BY CommandsAssumption
  <2> task \in TaskStates
    BY DEF IInv, TypeOK
  <2>1. CASE AddTask(c, at)
    <3> DEFINE d == DecideAdd(log # <<>>, c)
    <3>1. CASE UNCHANGED vars
      BY <3>1, UnchangedKeepsIInv
    <3>2. CASE Records(d) /\ log' = Append(log, [event |-> d.event, recorded_at |-> at])
               /\ task' = Apply(task, d.event, at)
      <4>1. c \in AddTaskCommands
        BY <2>1 DEF AddTask, AddTaskCommands, SetStatusCommands, EditTextCommands,
                    RetagCommands, RemoveTaskCommands
      <4>2. d.event \in TaskAddedEvents /\ EventWhole(d.event) /\ log = <<>>
        BY <3>2, <4>1, DecideAddWhole
      <4>3. task = NoTask
        BY <4>2 DEF IInv, EmptyStreamHoldsNoTask
      <4>4. /\ task' \in TaskStates
            /\ DeferralWhole(task')
            /\ task'.harp_id # Empty
        BY <3>2, <4>2, <4>3, ApplyAddedWhole
      <4>5. d.event \in TaskEvents /\ d.event.type # "TaskRemoved"
        BY <4>2 DEF TaskEvents, TaskAddedEvents
      <4> HIDE DEF d
      <4> QED
        BY <3>2, <4>2, <4>4, <4>5, RecordedKeepsIInv
    <3> QED
      BY <2>1, <3>1, <3>2 DEF AddTask, Settle
  <2>2. CASE SetStatus(c, at)
    <3> DEFINE d == DecideSetStatus(task, c)
    <3>1. CASE UNCHANGED vars
      BY <3>1, UnchangedKeepsIInv
    <3>2. CASE Records(d) /\ log' = Append(log, [event |-> d.event, recorded_at |-> at])
               /\ task' = Apply(task, d.event, at)
      <4>1. c \in SetStatusCommands
        BY <2>2 DEF SetStatus, AddTaskCommands, SetStatusCommands, EditTextCommands,
                    RetagCommands, RemoveTaskCommands
      <4>2. task.harp_id # Empty /\ ~task.removed
        BY <3>2 DEF DecideSetStatus, LiveRefusal, Records, Refused, NoEvent, Sound
      <4>3. DeferralWhole(task)
        BY <4>2 DEF IInv, DeferralHeldWhole
      <4>4. d.event \in StatusChangedEvents /\ EventWhole(d.event)
        BY <3>2, <4>1, <4>3, DecideSetStatusWhole
      <4>5. /\ task' \in TaskStates
            /\ DeferralWhole(task')
            /\ task'.harp_id # Empty
        BY <3>2, <4>2, <4>4, ApplyStatusWhole
      <4>6. d.event \in TaskEvents /\ d.event.type # "TaskRemoved"
        BY <4>4 DEF TaskEvents, StatusChangedEvents
      <4> HIDE DEF d
      <4> QED
        BY <3>2, <4>2, <4>5, <4>6, RecordedKeepsIInv
    <3> QED
      BY <2>2, <3>1, <3>2 DEF SetStatus, Settle
  <2>3. CASE EditText(c, at)
    <3> DEFINE d == DecideEdit(task, c)
    <3>1. CASE UNCHANGED vars
      BY <3>1, UnchangedKeepsIInv
    <3>2. CASE Records(d) /\ log' = Append(log, [event |-> d.event, recorded_at |-> at])
               /\ task' = Apply(task, d.event, at)
      <4>1. c \in EditTextCommands
        BY <2>3 DEF EditText, AddTaskCommands, SetStatusCommands, EditTextCommands,
                    RetagCommands, RemoveTaskCommands
      <4>2. /\ d.event = [type |-> "TextEdited", text |-> c.text]
            /\ task.harp_id # Empty /\ ~task.removed
            /\ c.text \in Texts
        BY <3>2, <4>1 DEF DecideEdit, LiveRefusal, TextRefusal, Records, Refused, Recorded,
                          NoEvent, Sound, EditTextCommands
      <4>3. task' = [task EXCEPT !.text = c.text]
        BY <3>2, <4>2 DEF Apply
      <4>4. task' \in TaskStates /\ task'.harp_id # Empty
        BY <4>2, <4>3 DEF TaskStates
      <4>5. DeferralWhole(task')
        BY <4>2, <4>3 DEF IInv, DeferralHeldWhole, DeferralWhole, TaskStates
      <4>6. d.event \in TaskEvents
        BY <4>2 DEF TaskEvents, TextEditedEvents
      <4> HIDE DEF d
      <4> QED
        BY <3>2, <4>2, <4>3, <4>4, <4>5, <4>6, RecordedKeepsIInv
    <3> QED
      BY <2>3, <3>1, <3>2 DEF EditText, Settle
  <2>4. CASE Retag(c, at)
    <3> DEFINE d == DecideRetag(task, c)
    <3> DEFINE after == (task.tags \cup c.add) \ c.remove
    <3>1. CASE UNCHANGED vars
      BY <3>1, UnchangedKeepsIInv
    <3>2. CASE Records(d) /\ log' = Append(log, [event |-> d.event, recorded_at |-> at])
               /\ task' = Apply(task, d.event, at)
      <4>1. c \in RetagCommands
        BY <2>4 DEF Retag, AddTaskCommands, SetStatusCommands, EditTextCommands,
                    RetagCommands, RemoveTaskCommands
      <4>2. /\ d.event = [type |-> "Retagged", tags |-> after]
            /\ task.harp_id # Empty /\ ~task.removed
        BY <3>2 DEF DecideRetag, LiveRefusal, Records, Refused, Recorded, Unchanged,
                    NoEvent, Sound
      <4>3. after \in SUBSET TagNames
        BY <4>1 DEF RetagCommands, TaskStates
      <4>4. task' = [task EXCEPT !.tags = after]
        BY <3>2, <4>2 DEF Apply
      <4> HIDE DEF after
      <4>5. task' \in TaskStates /\ task'.harp_id # Empty
        BY <4>2, <4>3, <4>4 DEF TaskStates
      <4>6. DeferralWhole(task')
        BY <4>2, <4>4 DEF IInv, DeferralHeldWhole, DeferralWhole, TaskStates
      <4>7. d.event \in TaskEvents
        BY <4>2, <4>3 DEF TaskEvents, RetaggedEvents
      <4> HIDE DEF d
      <4> QED
        BY <3>2, <4>2, <4>5, <4>6, <4>7, RecordedKeepsIInv
    <3> QED
      BY <2>4, <3>1, <3>2 DEF Retag, Settle
  <2>5. CASE RemoveTask(c, at)
    <3> DEFINE d == DecideRemove(task, c)
    <3>1. CASE UNCHANGED vars
      BY <3>1, UnchangedKeepsIInv
    <3>2. CASE Records(d) /\ log' = Append(log, [event |-> d.event, recorded_at |-> at])
               /\ task' = Apply(task, d.event, at)
      <4>1. c \in RemoveTaskCommands
        BY <2>5 DEF RemoveTask, AddTaskCommands, SetStatusCommands, EditTextCommands,
                    RetagCommands, RemoveTaskCommands
      <4>2. /\ d.event = [type |-> "TaskRemoved", reason |-> c.reason]
            /\ task.harp_id # Empty /\ ~task.removed
        BY <3>2 DEF DecideRemove, LiveRefusal, Records, Refused, Recorded, NoEvent, Sound
      <4>3. task' = [task EXCEPT !.removed = TRUE]
        BY <3>2, <4>2 DEF Apply
      <4>4. task' \in TaskStates /\ task'.harp_id # Empty /\ task'.removed
        BY <4>2, <4>3 DEF TaskStates
      <4>5. DeferralWhole(task')
        BY <4>2, <4>3 DEF IInv, DeferralHeldWhole, DeferralWhole, TaskStates
      <4>6. d.event \in TaskEvents
        BY <4>1, <4>2 DEF TaskEvents, TaskRemovedEvents, RemoveTaskCommands
      <4> HIDE DEF d
      <4> QED
        BY <3>2, <4>2, <4>3, <4>4, <4>5, <4>6, RecordedKeepsIInv
    <3> QED
      BY <2>5, <3>1, <3>2 DEF RemoveTask, Settle
  <2> QED
    BY <1>2, <2>1, <2>2, <2>3, <2>4, <2>5
<1> QED
  BY <1>1, <1>2 DEF Next

LEMMA SpecIInv == Spec => []IInv
  BY InitIInv, NextIInv, PTL DEF Spec

------------------------------------------------------------------------------
\* The folded task and its stream keep their types, for every taxonomy,
\* command set and clock (TaskState, lib.rs apply).
THEOREM TypeCorrect == Spec => []TypeOK
<1>1. IInv => TypeOK
  BY DEF IInv
<1> QED
  BY <1>1, SpecIInv, PTL

\* A task holds a trigger, a status to return to and the instant it was
\* deferred exactly while its status defers, for every sequence of commands
\* (tasks.proto TaskState.trigger and prior_status).
THEOREM DeferralAlwaysWhole == Spec => []DeferralHeldWhole
<1>1. IInv => DeferralHeldWhole
  BY DEF IInv
<1> QED
  BY <1>1, SpecIInv, PTL

\* Once a task is removed its stream takes no event until it is purged, for
\* every sequence of commands (lib.rs live; add_task refuses a stream with
\* history).
THEOREM RemovalAlwaysEnds == Spec => []RemovalEndsStream
<1>1. IInv => RemovalEndsStream
  BY DEF IInv, RemovalShows, RemovalEndsStream
<1> QED
  BY <1>1, SpecIInv, PTL

------------------------------------------------------------------------------
(* The task and its stream.                                                *)


\* A task's status and trigger are the ones its stream set last.
LastStatusHeld ==
  log # <<>> =>
    \E last \in StatusPages :
      /\ \A j \in StatusPages : j <= last
      /\ task.status = log[last].event.status
      /\ task.trigger = log[last].event.trigger

HInv ==
  /\ IInv
  /\ LastStatusHeld
  /\ DeferredSinceLastDeferral
  /\ ReturnsToStatusLeft

------------------------------------------------------------------------------
(* What a step does to the stream: an add begins it, a change of status or *)
(* any other event is added to it.                                         *)

Appended(e, at) == log' = Append(log, [event |-> e, recorded_at |-> at])

Begun(e, at) ==
  /\ log = <<>>
  /\ e \in TaskAddedEvents
  /\ EventWhole(e)
  /\ e.deferred_since = Never
  /\ e.prior_status \in {Empty, Initial}
  /\ Appended(e, at)
  /\ task' = Apply(NoTask, e, at)

StatusMoved(e, at) ==
  /\ log # <<>>
  /\ e \in StatusChangedEvents
  /\ EventWhole(e)
  /\ e.deferred_since = Never
  /\ e.trigger # Empty =>
       e.prior_status = IF task.status = Defers THEN task.prior_status ELSE task.status
  /\ Appended(e, at)
  /\ task' = Apply(task, e, at)

StatusKept(e, at) ==
  /\ log # <<>>
  /\ e \in TaskEvents
  /\ e.type \notin {"TaskAdded", "StatusChanged"}
  /\ Appended(e, at)
  /\ task'.status = task.status
  /\ task'.trigger = task.trigger
  /\ task'.prior_status = task.prior_status
  /\ task'.deferred_since = task.deferred_since

Shaped ==
  \E e \in TaskEvents, at \in Instants : Begun(e, at) \/ StatusMoved(e, at) \/ StatusKept(e, at)

(* Decisions that record carry no instant of their own. *)
LEMMA MovedShape ==
  ASSUME NEW c \in SetStatusCommands, NEW held \in TaskStates, DeferralWhole(held),
         Records(DecideSetStatus(held, c))
  PROVE  LET e == DecideSetStatus(held, c).event IN
         /\ e.deferred_since = Never
         /\ e.trigger # Empty =>
              e.prior_status = IF held.status = Defers THEN held.prior_status ELSE held.status
<1>1. DecideSetStatus(held, c) = Moved(held, c)
  BY DEF DecideSetStatus, Records, Refused, NoEvent
<1>2. DecideSetStatus(held, c).event \in
        {Deferring(held, c.trigger), Deferring(held, held.trigger),
         Resting(c.status), Resting(held.prior_status)}
  BY <1>1 DEF Moved, Recorded, Records, Refused, Unchanged, NoEvent
<1> QED
  BY <1>2 DEF Deferring, Resting

LEMMA NextShaped == ASSUME IInv, Next PROVE UNCHANGED vars \/ Purge \/ Shaped
<1>1. ASSUME NEW c \in Commands, NEW at \in Instants,
             \/ AddTask(c, at) \/ SetStatus(c, at) \/ EditText(c, at)
             \/ Retag(c, at) \/ RemoveTask(c, at),
             ~ UNCHANGED vars
      PROVE  Shaped
  <2> c \in AddTaskCommands \cup SetStatusCommands \cup EditTextCommands
             \cup RetagCommands \cup RemoveTaskCommands
    BY CommandsAssumption
  <2> task \in TaskStates
    BY DEF IInv, TypeOK
  <2>1. CASE AddTask(c, at)
    <3> DEFINE d == DecideAdd(log # <<>>, c)
    <3>1. Records(d) /\ Appended(d.event, at) /\ task' = Apply(task, d.event, at)
      BY <1>1, <2>1 DEF AddTask, Settle, Appended
    <3>2. c \in AddTaskCommands
      BY <2>1 DEF AddTask, AddTaskCommands, SetStatusCommands, EditTextCommands,
                  RetagCommands, RemoveTaskCommands
    <3>3. d.event \in TaskAddedEvents /\ EventWhole(d.event) /\ log = <<>>
      BY <3>1, <3>2, DecideAddWhole
    <3>4. d.event = TaskAddedOf(c)
      BY <3>1 DEF DecideAdd, Records, Refused, Recorded, NoEvent
    <3>5. d.event.deferred_since = Never /\ d.event.prior_status \in {Empty, Initial}
      BY <3>4 DEF TaskAddedOf
    <3>6. task = NoTask
      BY <3>3 DEF IInv, EmptyStreamHoldsNoTask
    <3>7. d.event \in TaskEvents
      BY <3>3 DEF TaskEvents
    <3> HIDE DEF d
    <3>8. Begun(d.event, at)
      BY <3>1, <3>3, <3>5, <3>6 DEF Begun
    <3> QED
      BY <3>7, <3>8 DEF Shaped
  <2>2. CASE SetStatus(c, at)
    <3> DEFINE d == DecideSetStatus(task, c)
    <3>1. Records(d) /\ Appended(d.event, at) /\ task' = Apply(task, d.event, at)
      BY <1>1, <2>2 DEF SetStatus, Settle, Appended
    <3>2. c \in SetStatusCommands
      BY <2>2 DEF SetStatus, AddTaskCommands, SetStatusCommands, EditTextCommands,
                  RetagCommands, RemoveTaskCommands
    <3>3. task.harp_id # Empty
      BY <3>1 DEF DecideSetStatus, LiveRefusal, Records, Refused, NoEvent, Sound
    <3>4. DeferralWhole(task) /\ log # <<>>
      BY <3>3, NoTaskTyped DEF IInv, DeferralHeldWhole, EmptyStreamHoldsNoTask
    <3>5. d.event \in StatusChangedEvents /\ EventWhole(d.event)
      BY <3>1, <3>2, <3>4, DecideSetStatusWhole
    <3>6. /\ d.event.deferred_since = Never
          /\ d.event.trigger # Empty =>
               d.event.prior_status =
                 IF task.status = Defers THEN task.prior_status ELSE task.status
      BY <3>1, <3>2, <3>4, MovedShape
    <3>7. d.event \in TaskEvents
      BY <3>5 DEF TaskEvents
    <3> HIDE DEF d
    <3>8. StatusMoved(d.event, at)
      BY <3>1, <3>4, <3>5, <3>6 DEF StatusMoved
    <3> QED
      BY <3>7, <3>8 DEF Shaped
  <2>3. CASE EditText(c, at)
    <3> DEFINE d == DecideEdit(task, c)
    <3>1. Records(d) /\ Appended(d.event, at) /\ task' = Apply(task, d.event, at)
      BY <1>1, <2>3 DEF EditText, Settle, Appended
    <3>2. c \in EditTextCommands
      BY <2>3 DEF EditText, AddTaskCommands, SetStatusCommands, EditTextCommands,
                  RetagCommands, RemoveTaskCommands
    <3>3. /\ d.event = [type |-> "TextEdited", text |-> c.text]
          /\ task.harp_id # Empty
          /\ c.text \in Texts
      BY <3>1, <3>2 DEF DecideEdit, LiveRefusal, TextRefusal, Records, Refused, Recorded,
                        NoEvent, Sound, EditTextCommands
    <3>4. log # <<>>
      BY <3>3, NoTaskTyped DEF IInv, EmptyStreamHoldsNoTask
    <3>5. task' = [task EXCEPT !.text = c.text]
      BY <3>1, <3>3 DEF Apply
    <3>6. d.event \in TaskEvents /\ d.event.type = "TextEdited"
      BY <3>3 DEF TaskEvents, TextEditedEvents
    <3> HIDE DEF d
    <3>7. StatusKept(d.event, at)
      BY <3>1, <3>4, <3>5, <3>6 DEF StatusKept, TaskStates
    <3> QED
      BY <3>6, <3>7 DEF Shaped
  <2>4. CASE Retag(c, at)
    <3> DEFINE d == DecideRetag(task, c)
    <3> DEFINE after == (task.tags \cup c.add) \ c.remove
    <3>1. Records(d) /\ Appended(d.event, at) /\ task' = Apply(task, d.event, at)
      BY <1>1, <2>4 DEF Retag, Settle, Appended
    <3>2. c \in RetagCommands
      BY <2>4 DEF Retag, AddTaskCommands, SetStatusCommands, EditTextCommands,
                  RetagCommands, RemoveTaskCommands
    <3>3. /\ d.event = [type |-> "Retagged", tags |-> after]
          /\ task.harp_id # Empty
      BY <3>1 DEF DecideRetag, LiveRefusal, Records, Refused, Recorded, Unchanged,
                  NoEvent, Sound
    <3>4. log # <<>>
      BY <3>3, NoTaskTyped DEF IInv, EmptyStreamHoldsNoTask
    <3>5. after \in SUBSET TagNames
      BY <3>2 DEF RetagCommands, TaskStates
    <3> HIDE DEF after
    <3>6. task' = [task EXCEPT !.tags = after]
      BY <3>1, <3>3 DEF Apply
    <3>7. d.event \in TaskEvents /\ d.event.type = "Retagged"
      BY <3>3, <3>5 DEF TaskEvents, RetaggedEvents
    <3> HIDE DEF d
    <3>8. StatusKept(d.event, at)
      BY <3>1, <3>4, <3>6, <3>7 DEF StatusKept, TaskStates
    <3> QED
      BY <3>7, <3>8 DEF Shaped
  <2>5. CASE RemoveTask(c, at)
    <3> DEFINE d == DecideRemove(task, c)
    <3>1. Records(d) /\ Appended(d.event, at) /\ task' = Apply(task, d.event, at)
      BY <1>1, <2>5 DEF RemoveTask, Settle, Appended
    <3>2. c \in RemoveTaskCommands
      BY <2>5 DEF RemoveTask, AddTaskCommands, SetStatusCommands, EditTextCommands,
                  RetagCommands, RemoveTaskCommands
    <3>3. /\ d.event = [type |-> "TaskRemoved", reason |-> c.reason]
          /\ task.harp_id # Empty
      BY <3>1 DEF DecideRemove, LiveRefusal, Records, Refused, Recorded, NoEvent, Sound
    <3>4. log # <<>>
      BY <3>3, NoTaskTyped DEF IInv, EmptyStreamHoldsNoTask
    <3>5. task' = [task EXCEPT !.removed = TRUE]
      BY <3>1, <3>3 DEF Apply
    <3>6. d.event \in TaskEvents /\ d.event.type = "TaskRemoved"
      BY <3>2, <3>3 DEF TaskEvents, TaskRemovedEvents, RemoveTaskCommands
    <3> HIDE DEF d
    <3>7. StatusKept(d.event, at)
      BY <3>1, <3>4, <3>5, <3>6 DEF StatusKept, TaskStates
    <3> QED
      BY <3>6, <3>7 DEF Shaped
  <2> QED
    BY <1>1, <2>1, <2>2, <2>3, <2>4, <2>5
<1> QED
  BY <1>1 DEF Next

------------------------------------------------------------------------------
(* The stream after a step that adds an event to it. *)

LEMMA AppendShape ==
  ASSUME IInv, NEW e \in TaskEvents, NEW at \in Instants, Appended(e, at),
         NEW n, n = Len(log) + 1
  PROVE  /\ n \in Nat /\ log' # <<>>
         /\ \A i \in StatusPages : i \in Nat /\ i < n /\ log'[i] = log[i]
         /\ log'[n] = [event |-> e, recorded_at |-> at]
         /\ e.type \in {"TaskAdded", "StatusChanged"} => StatusPages' = StatusPages \cup {n}
         /\ e.type \notin {"TaskAdded", "StatusChanged"} => StatusPages' = StatusPages
<1>1. log \in Seq(Pages) /\ [event |-> e, recorded_at |-> at] \in Pages
  BY DEF IInv, TypeOK, Pages
<1>2. n \in Nat /\ log' # <<>> /\ n \notin DOMAIN log
  BY <1>1 DEF Appended
<1>3. DOMAIN log' = DOMAIN log \cup {n}
  BY <1>1 DEF Appended
<1>4. \A i \in DOMAIN log : i \in Nat /\ i < n /\ log'[i] = log[i]
  BY <1>1 DEF Appended
<1>5. log'[n] = [event |-> e, recorded_at |-> at]
  BY <1>1 DEF Appended
<1>6. log'[n].event = e
  BY <1>5
<1> QED
  BY <1>2, <1>3, <1>4, <1>5, <1>6 DEF StatusPages

(* An event that sets no status leaves the account as it was. *)
LEMMA KeptKeepsHistory ==
  ASSUME HInv, NEW e \in TaskEvents, NEW at \in Instants, StatusKept(e, at)
  PROVE  LastStatusHeld' /\ DeferredSinceLastDeferral' /\ ReturnsToStatusLeft'
<1>1. IInv /\ Appended(e, at)
  BY DEF HInv, StatusKept
<1>2. StatusPages' = StatusPages /\ \A i \in StatusPages : log'[i] = log[i]
  BY <1>1, AppendShape DEF StatusKept
<1>3. \A i \in StatusPages : (LeavesDeferred(i)' <=> LeavesDeferred(i))
                               /\ InstantAt(i)' = InstantAt(i)
  BY <1>2 DEF LeavesDeferred, InstantAt
<1>4. LastStatusHeld'
  BY <1>2 DEF HInv, LastStatusHeld, StatusKept
<1>5. DeferredSinceLastDeferral'
  BY <1>2, <1>3 DEF HInv, DeferredSinceLastDeferral, StatusKept
<1>6. ReturnsToStatusLeft'
  BY <1>2, <1>3 DEF HInv, ReturnsToStatusLeft, StatusKept
<1> QED
  BY <1>4, <1>5, <1>6

(* An add begins the account. *)
LEMMA BegunKeepsHistory ==
  ASSUME HInv, NEW e \in TaskEvents, NEW at \in Instants, Begun(e, at)
  PROVE  LastStatusHeld' /\ DeferredSinceLastDeferral' /\ ReturnsToStatusLeft'
<1>1. /\ StatusPages' = {1}
      /\ log'[1] = [event |-> e, recorded_at |-> at]
  <2>1. Len(log) + 1 = 1 /\ StatusPages = {} /\ e.type = "TaskAdded"
    BY DEF Begun, StatusPages, TaskAddedEvents
  <2> QED
    BY <2>1, AppendShape DEF HInv, Begun
<1>2. /\ LeavesDeferred(1)' <=> e.trigger # Empty
      /\ InstantAt(1)' = InstantOf(e.at, at)
  BY <1>1 DEF LeavesDeferred, InstantAt
<1>3. /\ task'.status = e.status
      /\ task'.trigger = e.trigger
      /\ task'.prior_status = e.prior_status
      /\ task'.deferred_since = IF e.trigger # Empty THEN InstantOf(e.at, at) ELSE Never
  BY DEF Begun, Apply, ApplyAdded, NoTask, DeferredSince, TaskAddedEvents
<1>4. LastStatusHeld'
  BY <1>1, <1>3 DEF LastStatusHeld
<1>5. DeferredSinceLastDeferral'
  BY <1>1, <1>2, <1>3 DEF DeferredSinceLastDeferral
<1>6. LeavesDeferred(1)' => task'.prior_status = Initial
  BY <1>2, <1>3 DEF Begun, EventWhole
<1>7. ReturnsToStatusLeft'
  BY <1>1, <1>6 DEF ReturnsToStatusLeft
<1> QED
  BY <1>4, <1>5, <1>7

(* A change of status continues it. *)
LEMMA MovedKeepsHistory ==
  ASSUME HInv, NEW e \in TaskEvents, NEW at \in Instants, StatusMoved(e, at)
  PROVE  LastStatusHeld' /\ DeferredSinceLastDeferral' /\ ReturnsToStatusLeft'
<1>1. PICK n \in Nat :
        /\ StatusPages' = StatusPages \cup {n}
        /\ \A i \in StatusPages : i \in Nat /\ i < n /\ log'[i] = log[i]
        /\ log'[n] = [event |-> e, recorded_at |-> at]
  BY AppendShape DEF HInv, StatusMoved, StatusChangedEvents
<1>2. \A i \in StatusPages : (LeavesDeferred(i)' <=> LeavesDeferred(i))
                               /\ InstantAt(i)' = InstantAt(i)
  BY <1>1 DEF LeavesDeferred, InstantAt
<1>3. /\ LeavesDeferred(n)' <=> e.trigger # Empty
      /\ InstantAt(n)' = InstantOf(e.at, at)
      /\ log'[n].event = e
  BY <1>1 DEF LeavesDeferred, InstantAt
<1>4. task \in TaskStates
  BY DEF HInv, IInv, TypeOK
<1>5. /\ task'.status = e.status
      /\ task'.trigger = e.trigger
      /\ task'.prior_status = e.prior_status
      /\ task'.deferred_since =
           IF e.trigger # Empty THEN InstantOf(e.at, at) ELSE task.deferred_since
  BY <1>4 DEF StatusMoved, Apply, ApplyStatusChanged, DeferredSince, StatusChangedEvents,
             TaskStates
<1>6. PICK last \in StatusPages :
        /\ \A j \in StatusPages : j <= last
        /\ task.status = log[last].event.status
        /\ task.trigger = log[last].event.trigger
  BY DEF HInv, LastStatusHeld, StatusMoved
<1>7. DeferralWhole(task)
  BY DEF HInv, IInv, DeferralHeldWhole, EmptyStreamHoldsNoTask, StatusMoved
<1>8. LastStatusHeld'
  BY <1>1, <1>3, <1>5 DEF LastStatusHeld
<1>9. DeferredSinceLastDeferral'
  <2>1. CASE e.trigger # Empty
    <3>1. \A j \in StatusPages' : ~(j > n)
      BY <1>1
    <3> QED
      BY <1>1, <1>3, <1>5, <2>1, <3>1 DEF DeferredSinceLastDeferral
  <2>2. CASE e.trigger = Empty
    <3>1. ~LeavesDeferred(n)' /\ task'.deferred_since = task.deferred_since
      BY <1>3, <1>5, <2>2
    <3>2. CASE task.deferred_since = Never /\ \A i \in StatusPages : ~LeavesDeferred(i)
      BY <1>1, <1>2, <3>1, <3>2 DEF DeferredSinceLastDeferral
    <3>3. ASSUME NEW i \in StatusPages, LeavesDeferred(i),
                 \A j \in StatusPages : j > i => ~LeavesDeferred(j),
                 task.deferred_since = InstantAt(i)
          PROVE  DeferredSinceLastDeferral'
      BY <1>1, <1>2, <3>1, <3>3 DEF DeferredSinceLastDeferral
    <3> QED
      BY <3>2, <3>3 DEF HInv, DeferredSinceLastDeferral
  <2> QED
    BY <2>1, <2>2
<1>10. ReturnsToStatusLeft'
  <2> DEFINE Left == \/ /\ task'.prior_status = Initial
                        /\ \A j \in StatusPages' : LeavesDeferred(j)'
                     \/ \E left \in StatusPages' :
                          /\ ~LeavesDeferred(left)'
                          /\ \A j \in StatusPages' : j > left => LeavesDeferred(j)'
                          /\ task'.prior_status = log'[left].event.status
  <2>1. SUFFICES ASSUME e.trigger # Empty PROVE Left
    <3>1. \A i \in StatusPages' : (\A j \in StatusPages' : j <= i) => i = n
      BY <1>1
    <3> QED
      BY <1>3, <3>1, <2>1 DEF ReturnsToStatusLeft
  <2>2. CASE task.status = Defers
    <3>1. LeavesDeferred(last) /\ task'.prior_status = task.prior_status
      BY <1>5, <1>6, <1>7, <2>1, <2>2 DEF DeferralWhole, LeavesDeferred, StatusMoved
    <3>2. CASE task.prior_status = Initial /\ \A j \in StatusPages : LeavesDeferred(j)
      BY <1>1, <1>2, <1>3, <2>1, <3>1, <3>2
    <3>3. ASSUME NEW left \in StatusPages, ~LeavesDeferred(left),
                 \A j \in StatusPages : j > left => LeavesDeferred(j),
                 task.prior_status = log[left].event.status
          PROVE  Left
      BY <1>1, <1>2, <1>3, <2>1, <3>1, <3>3
    <3> QED
      BY <1>6, <3>1, <3>2, <3>3 DEF HInv, ReturnsToStatusLeft
  <2>3. CASE task.status # Defers
    <3>1. ~LeavesDeferred(last) /\ task'.prior_status = log[last].event.status
      BY <1>5, <1>6, <1>7, <2>1, <2>3 DEF DeferralWhole, LeavesDeferred, StatusMoved
    <3>2. \A j \in StatusPages' : j > last => j = n
      BY <1>1, <1>6
    <3> QED
      BY <1>1, <1>2, <1>3, <2>1, <3>1, <3>2
  <2> QED
    BY <2>2, <2>3
<1> QED
  BY <1>8, <1>9, <1>10

------------------------------------------------------------------------------
LEMMA EmptyHistory ==
  ASSUME log = <<>>, task = NoTask
  PROVE  LastStatusHeld /\ DeferredSinceLastDeferral /\ ReturnsToStatusLeft
<1>1. StatusPages = {} /\ task.deferred_since = Never
  BY DEF StatusPages, NoTask
<1> QED
  BY <1>1 DEF LastStatusHeld, DeferredSinceLastDeferral, ReturnsToStatusLeft

LEMMA InitHInv == Init => HInv
<1> SUFFICES ASSUME Init PROVE HInv
  OBVIOUS
<1>1. IInv
  BY InitIInv
<1>2. CASE log = <<>> /\ task = NoTask
  BY <1>1, <1>2, EmptyHistory DEF HInv
<1>3. ASSUME NEW e \in LegacyAdds, NEW at \in Instants,
             log = <<[event |-> e, recorded_at |-> at]>>, task = Apply(NoTask, e, at)
      PROVE  HInv
  <2>1. /\ e \in TaskAddedEvents
        /\ e.at \in Nat
        /\ e.deferred_since = IF e.trigger # Empty THEN e.at ELSE Never
        /\ e.trigger # Empty => e.prior_status = Initial
    BY <1>3, LegacyAssumption, InstantsAssumption
  <2>2. log[1] = [event |-> e, recorded_at |-> at] /\ DOMAIN log = {1}
    BY <1>3
  <2>3. StatusPages = {1} /\ log[1].event = e
    BY <2>1, <2>2 DEF StatusPages, TaskAddedEvents
  <2>4. (LeavesDeferred(1) <=> e.trigger # Empty) /\ InstantAt(1) = e.at
    BY <2>1, <2>2, <2>3 DEF LeavesDeferred, InstantAt, InstantOf, Never
  <2>5. /\ task.status = e.status
        /\ task.trigger = e.trigger
        /\ task.prior_status = e.prior_status
        /\ task.deferred_since = IF e.trigger # Empty THEN e.at ELSE Never
    BY <1>3, <2>1 DEF Apply, ApplyAdded, NoTask, DeferredSince, InstantOf, TaskAddedEvents, Never
  <2>6. LastStatusHeld
    BY <2>3, <2>5 DEF LastStatusHeld
  <2>7. DeferredSinceLastDeferral
    BY <2>3, <2>4, <2>5 DEF DeferredSinceLastDeferral
  <2>8. ReturnsToStatusLeft
    BY <2>1, <2>3, <2>4, <2>5 DEF ReturnsToStatusLeft
  <2> QED
    BY <1>1, <2>6, <2>7, <2>8 DEF HInv
<1> QED
  BY <1>2, <1>3 DEF Init

LEMMA NextHInv == HInv /\ [Next]_vars => HInv'
<1> SUFFICES ASSUME HInv, [Next]_vars PROVE HInv'
  OBVIOUS
<1>1. IInv'
  BY NextIInv DEF HInv
<1>2. CASE UNCHANGED vars
  BY <1>1, <1>2
  DEF HInv, vars, LastStatusHeld, DeferredSinceLastDeferral, ReturnsToStatusLeft,
      StatusPages, LeavesDeferred, InstantAt
<1>3. CASE Next /\ Purge
  <2>1. log' = <<>> /\ task' = NoTask
    BY <1>3 DEF Purge
  <2>2. StatusPages' = {} /\ task'.deferred_since = Never
    BY <2>1 DEF StatusPages, NoTask
  <2> QED
    BY <1>1, <2>1, <2>2
    DEF HInv, LastStatusHeld, DeferredSinceLastDeferral, ReturnsToStatusLeft
<1>4. CASE Next /\ Shaped
  BY <1>1, <1>4, KeptKeepsHistory, BegunKeepsHistory, MovedKeepsHistory DEF Shaped, HInv
<1> QED
  BY <1>2, <1>3, <1>4, NextShaped DEF HInv

LEMMA SpecHInv == Spec => []HInv
  BY InitHInv, NextHInv, PTL DEF Spec

------------------------------------------------------------------------------
\* deferred_since is the instant of the last event that left the task holding a
\* trigger, whatever the clock did (lib.rs deferred_since).
THEOREM DeferredSinceAlwaysLast == Spec => []DeferredSinceLastDeferral
<1>1. HInv => DeferredSinceLastDeferral
  BY DEF HInv
<1> QED
  BY <1>1, SpecHInv, PTL

\* A deferred task returns to the status it held before the run of deferrals it
\* is in, however long (tasks.proto SetStatus; lib.rs moved).
THEOREM ReturnsAlwaysToStatusLeft == Spec => []ReturnsToStatusLeft
<1>1. HInv => ReturnsToStatusLeft
  BY DEF HInv
<1> QED
  BY <1>1, SpecHInv, PTL

\* Clearing a trigger, naming no status, always revives the task to the status
\* it was deferred from (lib.rs moved).
THEOREM ClearingAlwaysRevives == Spec => ClearingRevives
<1>1. ASSUME IInv, NEW c \in Clearings, NEW at \in Instants, SetStatus(c, at), log' # log
      PROVE  /\ task.status = Defers
             /\ task'.status = task.prior_status
             /\ task'.status \in Statuses \ {Defers}
  <2> DEFINE d == DecideSetStatus(task, c)
  <2>1. Records(d) /\ task' = Apply(task, d.event, at)
    BY <1>1 DEF SetStatus, Settle, vars
  <2>2. c.status = Absent /\ c.trigger = Empty /\ task \in TaskStates
    BY <1>1 DEF Clearings, IInv, TypeOK
  <2>3. task.harp_id # Empty
    BY <2>1 DEF DecideSetStatus, LiveRefusal, Records, Refused, NoEvent, Sound
  <2>4. DeferralWhole(task)
    BY <1>1, <2>3 DEF IInv, DeferralHeldWhole
  <2>5. task.trigger # Empty /\ d.event = Resting(task.prior_status)
    <3>1. d = Moved(task, c) /\ c.trigger \notin Triggers
      BY <2>1, <2>2, NamesAssumption DEF DecideSetStatus, Records, Refused, NoEvent
    <3> QED
      BY <2>1, <2>2, <3>1 DEF Moved, Records, Recorded, Unchanged, NoEvent
  <2>6. task.status = Defers /\ task.prior_status \in Statuses \ {Defers}
    BY <2>2, <2>4, <2>5 DEF DeferralWhole, TaskStates
  <2> HIDE DEF d
  <2>7. task'.status = task.prior_status
    <3>1. task' = ApplyStatusChanged(task, Resting(task.prior_status), at)
      BY <2>1, <2>5 DEF Apply, Resting
    <3> QED
      BY <2>2, <3>1 DEF ApplyStatusChanged, Resting, TaskStates
  <2> QED
    BY <2>6, <2>7
<1>2. IInv /\ [Next]_vars =>
        [\A c \in Clearings, at \in Instants :
           SetStatus(c, at) /\ log' # log
             => /\ task.status = Defers
                /\ task'.status = task.prior_status
                /\ task'.status \in Statuses \ {Defers}]_vars
  BY <1>1
<1> QED
  BY <1>2, SpecIInv, PTL DEF Spec, ClearingRevives
==============================================================================
