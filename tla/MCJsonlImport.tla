---------------------------- MODULE MCJsonlImport -----------------------------
(* JsonlImport with logs that hold the cases the fold tells apart: a harp     *)
(* minted twice, with and without a repair; two spellings of one tag, and one *)
(* that is no tag; a trigger held from a status that does not defer; a line   *)
(* repeated; records at one instant; records to removed and unknown tasks; an *)
(* add refused.                                                               *)
EXTENDS LoggedTasks

ImportersAlike == Permutations(Importers)

MCHarps == {"h1", "h2"}
MCProjects == {"p", "q"}
MCProjectOrder == <<"p", "q">>
MCStatuses == {"To Do", "Done", "Deferred"}
MCTexts == {"A", "B"}
MCTriggers == {"after v2"}
MCTagNames == {"k=v"}
MCSpellings == {"k=v", "k='v'", "not"}
MCTagOf == [s \in MCSpellings |-> IF s = "not" THEN RefusedTag ELSE "k=v"]

R(op, task, ts) ==
  [op |-> op, task |-> task, text |-> IF op = "add" THEN "A" ELSE Blank, status |-> Empty,
   trigger |-> Empty, tags |-> {}, repair_of |-> [task |-> NoKey], ts |-> ts]

First == [R("add", "h1", 1) EXCEPT !.trigger = "after v2", !.tags = {"k=v", "not"}]
Displaced == [R("add", "h1", 1) EXCEPT !.text = "B"]
Repair == [R("add", "h2", 2) EXCEPT !.text = "B", !.repair_of = AnomalyKey(Displaced)]
Deferral == [R("status", "h1", 2) EXCEPT !.status = "Deferred"]

\* A task deferred on a trigger it held before, its tag spelled twice.
LogOfTags ==
  <<First, Deferral, First, [R("tag", "h1", 2) EXCEPT !.tags = {"k='v'"}],
    [R("untag", "h1", 2) EXCEPT !.tags = {"k=v"}],
    BlankLine, [R("untag", "h1", 3) EXCEPT !.tags = {"k='v'"}],
    [R("status", "h1", 3) EXCEPT !.status = "Done", !.trigger = Blank]>>

\* A harp minted twice, repaired out of order; then removed and written to.
LogOfRepair ==
  <<R("status", "h2", 1), [First EXCEPT !.tags = {}], Repair, Displaced,
    [R("text", "h2", 2) EXCEPT !.text = "A"],
    [R("status", "h1", 2) EXCEPT !.status = "Done"], R("remove", "h1", 3),
    [R("status", "h1", 3) EXCEPT !.status = "To Do"]>>

\* A displaced add nobody repaired, and an add the tasks domain refuses.
LogOfLosses ==
  <<[R("add", "h2", 1) EXCEPT !.text = Blank], First, Displaced,
    [R("status", "h1", 2) EXCEPT !.status = "Deferred", !.trigger = Blank],
    [R("text", "h2", 3) EXCEPT !.text = "A"]>>

LogOfOneLoss == <<[First EXCEPT !.tags = {}], Displaced>>

MCLogsAtFirst ==
  {[p |-> [lines |-> l[1], written |-> l[2]], q |-> [lines |-> l[3], written |-> l[4]]] :
     l \in {<<LogOfTags, 6, NoLog, 0>>, <<LogOfTags, 8, <<BlankLine, First>>, 1>>,
            <<LogOfRepair, 6, NoLog, 0>>, <<LogOfRepair, 8, <<First, Malformed>>, 1>>,
            <<LogOfLosses, 5, LogOfOneLoss, 1>>}}

MCUserCommands ==
  {[project |-> u[1], harp |-> u[2], command |-> u[3]] :
     u \in {<<"p", "h1", [type |-> "AddTask", harp_id |-> "h1", text |-> "B",
                          status |-> Absent, trigger |-> Absent, tags |-> {}]>>,
            <<"p", "h1", [type |-> "SetStatus", status |-> "To Do", trigger |-> Absent]>>,
            <<"p", "h2", [type |-> "RemoveTask", reason |-> "Removed"]>>}}

(* A log whose tag a user gives the task too, and takes away. *)
AgainLogs ==
  {[p |-> [lines |-> <<[First EXCEPT !.tags = {}], [R("tag", "h1", 2) EXCEPT !.tags = {"k=v"}]>>,
           written |-> 2],
    q |-> [lines |-> NoLog, written |-> 0]]}
AgainCommands ==
  {[project |-> "p", harp |-> "h1", command |-> [type |-> "Retag", add |-> a, remove |-> r]] :
     <<a, r>> \in {<<{"k=v"}, {}>>, <<{}, {"k=v"}>>}}

(* What ImportsAsLogged assumes of the logs is so of these.                   *)
ASSUME LogsSuited == LoggedInOrder /\ DeferralsAlike
===============================================================================
