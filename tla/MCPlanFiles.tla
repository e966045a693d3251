----------------------------- MODULE MCPlanFiles ------------------------------
(* PlanFiles with one process that changes plans and one that reads them: a   *)
(* plan file inside the work root, named three ways, and one outside it; a    *)
(* tag that names no file, and one that names no plan file.                   *)
EXTENDS PlanFiles

MCTasks == {"t1", "t2"}
MCTexts == {"x", "y", "z"}
MCWorkRoot == <<"home", "w">>
MCPlanNames == {"a.plan.md"} \cup Plans
MCNameOf == [p \in Plans |-> p]   \* a plan's file is named by its harp
PlansAlike == Permutations(Plans)

Rel(parts) == [absolute |-> FALSE, parts |-> parts]
Abs(parts) == [absolute |-> TRUE, parts |-> parts]

Here == Rel(<<"docs", "a.plan.md">>)
Around == Rel(<<".", "docs", "..", "docs", "a.plan.md">>)
HereAbsolute == Abs(<<"home", "w", "docs", "a.plan.md">>)
Away == Rel(<<"..", "a.plan.md">>)
AwayAbsolute == Abs(<<"..", "home", "", "a.plan.md">>)
Gone == Rel(<<"gone.plan.md">>)
Notes == Rel(<<"docs", "notes.md">>)

MCFilesAtFirst ==
  [path \in {Located(Here), Located(Away), Located(Notes)} |->
     IF path = Located(Away) THEN "z" ELSE "x"]
MCTagsAtFirst ==
  [t \in MCTasks |-> IF t = "t1" THEN {Around, Away} ELSE {HereAbsolute, AwayAbsolute, Gone, Notes}]

MCEdits ==
  {[path |-> Located(Here), text |-> x] : x \in {"y", NoFile}}
    \cup {[path |-> Located(Rel(<<".taskloom", "plans", "a.plan.md">>)), text |-> "y"]}
    \cup {[path |-> DefaultPath(p), text |-> x] : p \in Plans, x \in {"x", NoFile}}

Call(op) ==
  [op |-> op, plan |-> NoPlan, tasks |-> {}, title |-> "titled", status |-> "draft",
   given |-> NoPath, text |-> "y", link |-> TRUE, dry |-> FALSE]

AddingAt(given) == [Call("add") EXCEPT !.given = given]
Writes ==
  {[Call("add") EXCEPT !.tasks = {"t1", "t2"}], [AddingAt(HereAbsolute) EXCEPT !.tasks = {"t2"}],
   AddingAt(Away), AddingAt(Notes), AddingAt(Gone), AddingAt(Rel(<<>>)),
   [Call("add") EXCEPT !.title = Blank], [Call("add") EXCEPT !.status = "done"],
   Call("import"), [Call("import") EXCEPT !.dry = TRUE]}
    \cup {[Call("link") EXCEPT !.plan = p, !.tasks = {"t1"}, !.link = l] :
             p \in Plans, l \in BOOLEAN}
Reads ==
  {[Call("read") EXCEPT !.plan = p] : p \in Plans} \cup {[Call("read") EXCEPT !.given = Around],
   [Call("read") EXCEPT !.given = Away], [Call("read") EXCEPT !.tasks = {"t1"}],
   [Call("governing") EXCEPT !.tasks = {"t1", "t2"}], Call("check")}
MCCalls == [c \in {"writer", "reader"} |-> IF c = "writer" THEN Writes ELSE Reads]
MCMaxCalls == [c \in {"writer", "reader"} |-> IF c = "writer" THEN 2 ELSE 1]

MCElsewhere ==
  {[plan |-> p, command |-> [type |-> "SetStatus", to |-> s]] :
     p \in Plans, s \in {"active", "done"}}
===============================================================================
