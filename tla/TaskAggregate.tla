---------------------------- MODULE TaskAggregate ----------------------------
(***************************************************************************)
(* One task: the tasks aggregate on its event stream.  A command is decided *)
(* on the task folded from the stream; what it records is appended and     *)
(* folded in at the instant the kernel stamps it with.  The wall clock may *)
(* step back, so an instant is any of Instants.  A stream an older version *)
(* wrote may begin with an add carrying its own instants.  A prune purges  *)
(* the stream of a removed task, which frees its harp for another add.     *)
(***************************************************************************)
EXTENDS TaskRules, Sequences

CONSTANTS
  Instants,   \* what the clock may read
  Commands,   \* the commands sent to the stream
  LegacyAdds, \* adds an older version recorded, their instants written
  MaxEvents   \* bound: the events of one stream

ASSUME InstantsAssumption == Instants \subseteq Nat

ASSUME CommandsAssumption ==
  Commands \subseteq AddTaskCommands \cup SetStatusCommands \cup EditTextCommands
                       \cup RetagCommands \cup RemoveTaskCommands

\* An old add recorded its instant, and the same as deferred_since when it
\* was added deferred (and only then).
ASSUME LegacyAssumption ==
  \A e \in LegacyAdds :
    /\ e \in TaskAddedEvents
    /\ e.at \in Instants
    /\ e.deferred_since = IF e.trigger # Empty THEN e.at ELSE Never
    /\ (e.trigger # Empty) <=> (e.status = Defers)
    /\ e.prior_status = IF e.status = Defers THEN Initial ELSE Empty

VARIABLES
  log,    \* the stream: its events, each with the instant it was recorded at
  task    \* the task the stream folds to

vars == <<log, task>>

Pages == [event: TaskEvents, recorded_at: Instants]

TypeOK ==
  /\ log \in Seq(Pages)
  /\ task \in TaskStates

Init ==
  \/ /\ log = <<>>
     /\ task = NoTask
  \/ \E e \in LegacyAdds, at \in Instants :
       /\ log = <<[event |-> e, recorded_at |-> at]>>
       /\ task = Apply(NoTask, e, at)

\* What a decision does: recorded at `at` and folded in, or only answered (a
\* refusal, or a command that changes nothing).
Settle(d, at) ==
  \/ /\ ~Records(d)
     /\ UNCHANGED vars
  \/ /\ Records(d)
     /\ Len(log) < MaxEvents
     /\ log' = Append(log, [event |-> d.event, recorded_at |-> at])
     /\ task' = Apply(task, d.event, at)

AddTask(c, at) ==
  /\ c.type = "AddTask"
  /\ Settle(DecideAdd(log # <<>>, c), at)

SetStatus(c, at) ==
  /\ c.type = "SetStatus"
  /\ Settle(DecideSetStatus(task, c), at)

EditText(c, at) ==
  /\ c.type = "EditText"
  /\ Settle(DecideEdit(task, c), at)

Retag(c, at) ==
  /\ c.type = "Retag"
  /\ Settle(DecideRetag(task, c), at)

RemoveTask(c, at) ==
  /\ c.type = "RemoveTask"
  /\ Settle(DecideRemove(task, c), at)

\* A prune's purge: the whole stream of a task removed, at the head read.
Purge ==
  /\ task.removed
  /\ log' = <<>>
  /\ task' = NoTask

Next ==
  \/ Purge
  \/ \E c \in Commands, at \in Instants :
       \/ AddTask(c, at)
       \/ SetStatus(c, at)
       \/ EditText(c, at)
       \/ Retag(c, at)
       \/ RemoveTask(c, at)

Spec == Init /\ [][Next]_vars

------------------------------------------------------------------------------
(* Properties. *)

\* A task holds a trigger, a status to return to and the instant it was
\* deferred exactly as its status says (tasks.proto TaskState.trigger,
\* prior_status): decide's branches must agree on it, whatever the order of
\* deferring, re-deferring, moving, clearing and purging.
DeferralHeldWhole == task.harp_id # Empty => DeferralWhole(task)

\* The events of the stream that set the status (an add's included).
StatusPages == {i \in DOMAIN log : log[i].event.type \in {"TaskAdded", "StatusChanged"}}
LeavesDeferred(i) == log[i].event.trigger # Empty
InstantAt(i) == InstantOf(log[i].event.at, log[i].recorded_at)

\* The status a deferred task returns to is the one it held just before the
\* unbroken run of deferrals it is in, or the initial status when it was added
\* deferred (SetStatus in tasks.proto: "the status it held is kept to return
\* to (a Deferred task keeps the one it has)").  Stated over the stream, not
\* over the folded state.
ReturnsToStatusLeft ==
  \A last \in StatusPages :
    (LeavesDeferred(last) /\ \A j \in StatusPages : j <= last) =>
      \/ /\ task.prior_status = Initial
         /\ \A j \in StatusPages : LeavesDeferred(j)
      \/ \E left \in StatusPages :
           /\ ~LeavesDeferred(left)
           /\ \A j \in StatusPages : j > left => LeavesDeferred(j)
           /\ task.prior_status = log[left].event.status

\* deferred_since is the instant of the last event that left the task holding
\* a trigger, and Never when none did: an edit, a retag, a revival or a
\* removal keeps it (lib.rs, apply's doc).
DeferredSinceLastDeferral ==
  \/ /\ task.deferred_since = Never
     /\ \A i \in StatusPages : ~LeavesDeferred(i)
  \/ \E i \in StatusPages :
       /\ LeavesDeferred(i)
       /\ \A j \in StatusPages : j > i => ~LeavesDeferred(j)
       /\ task.deferred_since = InstantAt(i)

\* Nothing is recorded after a removal but by starting the stream again: a
\* removed task's stream ends with its removal until it is purged.
RemovalEndsStream ==
  \A i \in DOMAIN log : log[i].event.type = "TaskRemoved" => i = Len(log)

\* The status changes that only clear the trigger.
Clearings == {c \in Commands : c.type = "SetStatus" /\ c.status = Absent /\ c.trigger = Empty}

\* A clearing that names no status undoes the deferral: whatever was done to
\* the task between, it returns to the status it held before it was deferred,
\* and never to none.
ClearingRevives ==
  [][\A c \in Clearings, at \in Instants :
       SetStatus(c, at) /\ log' # log
         => /\ task.status = Defers
            /\ task'.status = task.prior_status
            /\ task'.status \in Statuses \ {Defers}]_vars
=============================================================================
