------------------------------ MODULE MCReaders ------------------------------
(* Readers with two projects of two harps each, the commands that make the   *)
(* cases, and queries of every kind.                                         *)
EXTENDS Readers

MCHarps == {"h1", "h2"}
MCHarpRank == [h \in MCHarps |-> IF h = "h1" THEN 1 ELSE 2]
MCProjects == {"p", "q"}
MCProjectRank == [p \in MCProjects |-> IF p = "p" THEN 1 ELSE 2]
MCStatuses == {"To Do", "In Progress", "Done", "Deferred"}
MCDefaultStatuses == <<"In Progress", "To Do", "Deferred", "Done", "Archived">>
MCTexts == {"Ship it"}
MCMentioning == [t \in {"ship"} |-> {"Ship it"}]
MCTagNames == {"level=1", "wild"}
MCTagOf ==
  [t \in MCTagNames |->
     IF t = "wild" THEN [target |-> "wild", value |-> Bare]
     ELSE [target |-> "level", value |-> "1"]]
MCTagOrder == <<"level=1", "wild">>
MCNumberOf == [v \in {"1"} |-> 1]
MCEnumOf == [t \in {"level", "wild"} |-> {"1", "2"}]

\* p scores by level and age, a deferred task not aging; q has no formula.
MCDeclaredIn ==
  [p \in MCProjects |->
     IF p = "q" THEN [priority |-> {}, decay |-> {}]
     ELSE [priority |-> {[target |-> "level", result |-> "sum",
                          reads |-> <<[target |-> "level", value |-> Bare],
                                      [builtin |-> "age_factor"]>>]},
           decay |-> {[target |-> "level", result |-> "sum",
                       reads |-> <<[builtin |-> "age_days"]>>]}]]

MCSeedFormulas == MCDeclaredIn["p"]

AddOf(status, tags) ==
  [type |-> "AddTask", harp_id |-> "h1", text |-> "Ship it", status |-> status,
   trigger |-> Absent, tags |-> tags]
Removed(reason) == [type |-> "RemoveTask", reason |-> reason]

MCCommands ==
  {[project |-> "p", harp |-> c[1], command |-> c[2], at |-> c[3], here |-> c[1] = "h2"] :
     c \in {<<"h1", AddOf(Absent, {}), 2>>, <<"h1", Removed("Pruned"), 2>>,
            <<"h2", AddOf(Absent, {"level=1"}), 1>>}}

\* p has no store at first; q holds a task live and one done.
Page(command, at) == [event |-> TaskAddedOf(command), recorded_at |-> at]
MCHeldAtFirst ==
  [p \in MCProjects |-> [h \in MCHarps |->
     IF p = "p" THEN <<>>
     ELSE IF h = "h1" THEN <<Page(AddOf(Absent, {}), 1)>>
     ELSE <<Page([AddOf("Done", {"wild"}) EXCEPT !.harp_id = h], 2)>>]]

Q ==
  [kind |-> "list", project |-> NoProject, global |-> FALSE, statuses |-> {}, all |-> FALSE,
   tag_query |-> <<Absent>>, term |-> Absent, limit |-> Unlimited, sort |-> Absent,
   harp_ids |-> <<>>]
MCViewQuery == [Q EXCEPT !.all = TRUE, !.project = "p"]
MCAsked ==
  {[Q EXCEPT !.sort = "priority", !.limit = 1],
   [Q EXCEPT !.project = "p", !.sort = "priority", !.statuses = {"To Do"}, !.term = "ship",
             !.tag_query = <<"level=1", "not">>],
   [Q EXCEPT !.kind = "show", !.global = TRUE, !.harp_ids = <<"h1">>],
   [Q EXCEPT !.kind = "tags", !.project = "q", !.tag_query = <<"level=1", "wild", "or">>],
   [Q EXCEPT !.kind = "summary", !.project = "q"],
   [Q EXCEPT !.kind = "statuses", !.project = "q"],
   [Q EXCEPT !.kind = "lint", !.project = "p"],
   [Q EXCEPT !.limit = 0],
   [Q EXCEPT !.tag_query = <<"and">>]}
=============================================================================
