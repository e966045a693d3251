------------------------------ MODULE PlanRules ------------------------------
(***************************************************************************)
(* The plans domain's rules, the plan list's fold, and where a path names  *)
(* a file.  What one command to one plan decides, what one event does to   *)
(* the plan as its stream folds it, and what it does to the list, which    *)
(* also keeps the reverse of `governs`.                                    *)
(*                                                                         *)
(* A text stands for its sha-256, and a path for its components.  Titles   *)
(* are given or Blank; the origin session and a file's frontmatter are     *)
(* left out: no rule reads them.                                           *)
(***************************************************************************)
EXTENDS Integers, FiniteSets, Sequences, SequencesExt

CONSTANTS
  Plans,        \* the plans' harp ids
  Tasks,        \* the tasks' harp ids
  Texts,        \* the texts plan files hold
  WorkRoot,     \* the work root's components
  PlanNames,    \* the file names that end `.plan.md`
  NameOf        \* plan -> the name its file is given by default

NoPlan == "<no plan>"
Blank == " "
BadHash == "<malformed>"
Statuses == {"draft", "active", "superseded", "done", "abandoned"}

ASSUME PlanNamesAssumption ==
  /\ IsFiniteSet(Plans)
  /\ NoPlan \notin Plans
  /\ BadHash \notin Texts
  /\ NameOf \in [Plans -> PlanNames]
  /\ \A p, q \in Plans : NameOf[p] = NameOf[q] => p = q

\* A path's components are names.  The work root is canonical
\* (project-registry lib.rs:93), and a plan file's name ends `.plan.md`.
Unnamed == {"", ".", ".."}
IsPath(parts) == parts \in Seq(ToSet(parts))

ASSUME NamesAssumption ==
  /\ IsPath(WorkRoot) /\ ToSet(WorkRoot) \cap Unnamed = {}
  /\ PlanNames \cap Unnamed = {}

------------------------------------------------------------------------------
(* Paths. *)

\* An absolute path's components, `.` and empty ones dropped and `..` taken;
\* past the root, `..` stays there.
Normalized(parts) ==
  LET upTo[n \in 0..Len(parts)] ==
        IF n = 0 THEN <<>>
        ELSE IF parts[n] \in {"", "."} THEN upTo[n-1]
        ELSE IF parts[n] = ".." THEN IF upTo[n-1] = <<>> THEN <<>> ELSE Front(upTo[n-1])
        ELSE Append(upTo[n-1], parts[n])
  IN upTo[Len(parts)]

\* A path given, absolute or under the work root, as inside it or outside.
Located(given) ==
  LET absolute == Normalized(IF given.absolute THEN given.parts ELSE WorkRoot \o given.parts)
      n == Len(WorkRoot) IN
  IF Len(absolute) > n /\ SubSeq(absolute, 1, n) = WorkRoot
    THEN [outside |-> FALSE, parts |-> SubSeq(absolute, n + 1, Len(absolute))]
    ELSE [outside |-> TRUE, parts |-> absolute]

\* A path as it is written when it is located.
Canonical(path) == path = Located([absolute |-> path.outside, parts |-> path.parts])

IsPlanFile(path) == path.parts # <<>> /\ Last(path.parts) \in PlanNames

\* Mutant of PathRefusal: a path outside the work root is taken.
PathRefusalAnywhere(given) ==
  IF given.parts = <<>> THEN "Empty"
  ELSE IF ~IsPlanFile(Located(given)) THEN "NotAPlanFile"
  ELSE "sound"

\* Why `plan add --path` refuses a path given.
PathRefusal(given) ==
  IF given.parts = <<>> THEN "Empty"
  ELSE IF Located(given).outside THEN "OutsideWorkRoot"
  ELSE IF ~IsPlanFile(Located(given)) THEN "NotAPlanFile"
  ELSE "sound"

PlansDir == <<".taskloom", "plans">>
DefaultPath(p) == [outside |-> FALSE, parts |-> Append(PlansDir, NameOf[p])]
UnderPlansDir(path) ==
  ~path.outside /\ Len(path.parts) > 2 /\ SubSeq(path.parts, 1, 2) = PlansDir
InPlansDir(path) == UnderPlansDir(path) /\ Len(path.parts) = 3

------------------------------------------------------------------------------
(* The plan. *)

NoPath == [outside |-> TRUE, parts |-> <<>>]
NotAdded ==
  [added |-> FALSE, status |-> "draft", path |-> NoPath, hash |-> BadHash, governs |-> {},
   supersedes |-> {}, superseded_by |-> NoPlan]

\* What an add carries: a title, a status a plan starts in, a sha-256.
AddRefusal(c) ==
  IF c.title = Blank THEN "EmptyTitle"
  ELSE IF c.status \notin {"draft", "active"} THEN "InitialStatus"
  ELSE IF c.hash = BadHash THEN "BadHash" ELSE "sound"

MayBecome(from, to) ==
  \/ from = "draft" /\ to \in {"active", "abandoned"}
  \/ from = "active" /\ to \in {"done", "abandoned"}
  \/ from \in {"done", "abandoned"} /\ to = "active"

StatusRefusal(from, to) ==
  IF to = "superseded" THEN "SupersededBySupersedeOnly"
  ELSE IF to = from THEN "StatusUnchanged"
  ELSE IF ~MayBecome(from, to) THEN "Transition" ELSE "sound"

\* Why the plan `held` of harp p refuses command c; sound if it does not.
Refusal(held, p, c) ==
  IF c.type = "Add" THEN IF held.added THEN "AlreadyAdded" ELSE AddRefusal(c)
  ELSE IF ~held.added THEN "NoSuchPlan"
  ELSE CASE c.type = "SetStatus" -> StatusRefusal(held.status, c.to)
    [] c.type = "Govern"   -> IF c.task \in held.governs THEN "AlreadyGoverns" ELSE "sound"
    [] c.type = "Ungovern" -> IF c.task \in held.governs THEN "sound" ELSE "NotGoverned"
    [] c.type = "Supersede" ->
         IF c.plan = p THEN "SupersedesItself"
         ELSE IF c.plan \in held.supersedes THEN "AlreadySupersedes" ELSE "sound"
    [] c.type = "Unsupersede" ->
         IF c.plan \in held.supersedes THEN "sound" ELSE "NotSuperseded"
    [] c.type = "MarkSuperseded" -> IF held.status = "superseded" THEN "Transition" ELSE "sound"
    [] c.type = "Reinstate" -> IF held.status = "superseded" THEN "sound" ELSE "Transition"
    [] c.type = "Rehash" ->
         IF c.hash = BadHash THEN "BadHash"
         ELSE IF c.hash = held.hash THEN "HashUnchanged" ELSE "sound"

\* An event is the command that recorded it; apply folds one into the plan.
Apply(held, e) ==
  CASE e.type = "Add" ->
         [held EXCEPT !.added = TRUE, !.status = e.status, !.path = e.path, !.hash = e.hash]
    [] e.type = "SetStatus"   -> [held EXCEPT !.status = e.to]
    [] e.type = "Govern"      -> [held EXCEPT !.governs = @ \cup {e.task}]
    [] e.type = "Ungovern"    -> [held EXCEPT !.governs = @ \ {e.task}]
    [] e.type = "Supersede"   -> [held EXCEPT !.supersedes = @ \cup {e.plan}]
    [] e.type = "Unsupersede" -> [held EXCEPT !.supersedes = @ \ {e.plan}]
    [] e.type = "MarkSuperseded" ->
         [held EXCEPT !.status = "superseded", !.superseded_by = e.by]
    [] e.type = "Reinstate"   -> [held EXCEPT !.status = "active", !.superseded_by = NoPlan]
    [] e.type = "Rehash"      -> [held EXCEPT !.hash = e.hash]

StateOf(stream) ==
  LET after[n \in 0..Len(stream)] ==
        IF n = 0 THEN NotAdded ELSE Apply(after[n-1], stream[n])
  IN after[Len(stream)]

------------------------------------------------------------------------------
(* The plan list: a row for each plan added, and for each task the plans   *)
(* governing it.                                                           *)

EmptyList == [rows |-> [p \in {} |-> NotAdded], governing |-> [t \in {} |-> {}]]

With(f, k, v) == [x \in DOMAIN f \cup {k} |-> IF x = k THEN v ELSE f[x]]
Without(f, k) == [x \in DOMAIN f \ {k} |-> f[x]]
GoverningIn(list, t) == IF t \in DOMAIN list.governing THEN list.governing[t] ELSE {}

\* Mutant of Ungoverned: the plan stays among those governing the task.
UngovernedOneWay(list, p, t) == [list EXCEPT !.rows[p].governs = @ \ {t}]

Ungoverned(list, p, t) ==
  LET left == GoverningIn(list, t) \ {p} IN
  [list EXCEPT !.rows[p].governs = @ \ {t},
               !.governing = IF left = {} THEN Without(@, t) ELSE With(@, t, left)]

\* One event of plan p's stream, in that stream's order.
Listed(list, p, e) ==
  IF e.type = "Add"
    THEN [list EXCEPT !.rows = With(@, p,
            [NotAdded EXCEPT !.added = TRUE, !.status = e.status, !.path = e.path,
                             !.hash = e.hash])]
  ELSE IF p \notin DOMAIN list.rows THEN list
  ELSE CASE e.type = "Govern" ->
         [list EXCEPT !.rows[p].governs = @ \cup {e.task},
                      !.governing = With(@, e.task, GoverningIn(list, e.task) \cup {p})]
    [] e.type = "Ungovern" -> Ungoverned(list, p, e.task)
    [] OTHER -> [list EXCEPT !.rows[p] = Apply(@, e)]

\* A plan's stream from its start.
ListedAll(list, p, stream) ==
  LET after[n \in 0..Len(stream)] ==
        IF n = 0 THEN list ELSE Listed(after[n-1], p, stream[n])
  IN after[Len(stream)]

\* A catch-up from the store: every stream, one after another.
ListOf(streams) ==
  LET order == SetToSeq(Plans)
      after[n \in 0..Len(order)] ==
        IF n = 0 THEN EmptyList
        ELSE ListedAll(after[n-1], order[n], streams[order[n]])
  IN after[Len(order)]

\* The plan whose text is at path, if one is recorded there.
ByPath(list, path) == {p \in DOMAIN list.rows : list.rows[p].path = path}

\* The plans a copied file's text is recorded by.
CopiesOf(list, text) ==
  {p \in DOMAIN list.rows : list.rows[p].hash = text /\ UnderPlansDir(list.rows[p].path)}
=============================================================================
