---------------------------- MODULE MCTaskStore ----------------------------
(* TaskStore with two harps, two request keys that probe both, and who sends *)
(* what given by each run.                                                  *)
EXTENDS TaskStore

MCHarps == {"h1", "h2"}
MCStatuses == {"To Do", "Done", "Deferred"}
MCKeys == {"k", "j"}
MCProbeOrder == [k \in MCKeys |-> IF k = "k" THEN <<"h1", "h2">> ELSE <<"h2", "h1">>]

AddOf(status) ==
  [type |-> "AddTask", harp_id |-> "h1", text |-> "Ship it", status |-> status,
   trigger |-> Absent, tags |-> {}]
ChangeTo(status) == [type |-> "SetStatus", status |-> status, trigger |-> Absent]
Add(key, status) == [op |-> "add", key |-> key, harp |-> NoHarp, command |-> AddOf(status)]
Change(key, h, status) ==
  [op |-> "set_status", key |-> key, harp |-> h, command |-> ChangeTo(status)]
Prune ==
  [op |-> "prune", key |-> NoKey, harp |-> NoHarp,
   command |-> [type |-> "RemoveTask", reason |-> "Pruned"]]

OldDone == {AddOf("Done")}

\* Attempts of one add in flight at once, and of one change, beside others.
AttemptsSend ==
  [c \in {"a1", "a2", "b"} |->
     IF c = "b" THEN {Add("j", Absent), Change("j", "h1", "To Do")}
     ELSE {Add("k", Absent), Change("k", "h1", "Done")}]
AttemptsCalls == [c \in {"a1", "a2", "b"} |-> IF c = "a1" THEN 2 ELSE 1]

\* One caller retrying its add, beside two prunes that take what it added, and
\* an add of another's on the harps they free.
PrunesSend ==
  [c \in {"a", "p", "q"} |->
     CASE c = "a" -> {Add("k", "Done")}
       [] c = "p" -> {Prune}
       [] c = "q" -> {Prune, Add("j", "Done")}]
PrunesCalls == [c \in {"a", "p", "q"} |-> IF c = "a" THEN 2 ELSE 1]

\* A caller pruning beside one that prunes too, moves tasks, and mints on the
\* harps freed.
MovesSend ==
  [c \in {"b", "p"} |->
     IF c = "p" THEN {Prune}
     ELSE {Prune, Add(NoKey, "Done"), Change(NoKey, "h1", "To Do"),
           Change(NoKey, "h1", "Done")}]
MovesCalls == [c \in {"b", "p"} |-> IF c = "b" THEN 2 ELSE 1]

\* Two prunes, beside a caller that mints on the harp freed and moves the task.
RemintSend ==
  [c \in {"b", "p", "q"} |->
     IF c = "b" THEN {Add("k", Absent), Change(NoKey, "h1", "Done")} ELSE {Prune}]
RemintCalls == [c \in {"b", "p", "q"} |-> IF c = "b" THEN 2 ELSE 1]
=============================================================================
