------------------------------- MODULE TaskReads -------------------------------
(***************************************************************************)
(* The reads of tasks, as pure operators: a request's refusal, a status    *)
(* filter, a postfix tag query over what a listing admits, and the listing, *)
(* showing and counting of the rows a read gathered.                       *)
(*                                                                         *)
(* A row is a task and the project it was read in.  A query's optional     *)
(* field is Absent, Blank or given; its statuses are a set, its harps a    *)
(* sequence.  What a person is shown of the tags (Shown) is left out.      *)
(***************************************************************************)
EXTENDS TaskPriority, FiniteSetsExt

CONSTANTS
  Projects,      \* the projects of the registry
  ProjectRank,   \* project -> its place among them by id
  HarpRank,      \* harp -> its place among the harps
  Terms,         \* search terms
  Mentioning,    \* term -> the texts that mention it
  DeclaredIn,    \* project -> its store's formulas, by facet
  DefaultStatuses, \* the default statuses, in their display order
  Finished       \* the terminal statuses: Done and Archived

NoProject == "<no project>"
Unlimited == -1
Open == "@open"
Terminal == "@terminal"
Operators == {"and", "or", "not"}

Rows == [project: Projects, task: TaskStates]

Queries ==
  [kind: {"list", "tags", "show", "summary", "statuses", "lint"}, project: Projects \cup {NoProject},
   global: BOOLEAN, statuses: SUBSET (Statuses \cup {Open, Terminal, Blank, "@other"}),
   all: BOOLEAN, tag_query: {<<Absent>>, <<Blank>>} \cup Seq(TagNames \cup Operators),
   term: Terms \cup {Absent, Blank}, limit: Nat \cup {Unlimited},
   sort: {Absent, Blank, "priority", "other"}, harp_ids: Seq(Harps)]

ASSUME ReadsAssumption ==
  /\ NoProject \notin Projects
  /\ Finished \subseteq Statuses
  /\ Mentioning \in [Terms -> SUBSET Texts]
  /\ TagNames \cap (Operators \cup {Absent, Blank}) = {}

\* Harps are drawn from finite lists of words, and no two have one place.
ASSUME HarpRankAssumption ==
  /\ IsFiniteSet(Harps)
  /\ HarpRank \in [Harps -> Int]
  /\ \A h, g \in Harps : HarpRank[h] = HarpRank[g] => h = g

\* A registry has finitely many projects, each under an id of its own.
ASSUME ProjectRankAssumption ==
  /\ IsFiniteSet(Projects)
  /\ ProjectRank \in [Projects -> Int]
  /\ \A p, q \in Projects : ProjectRank[p] = ProjectRank[q] => p = q

------------------------------------------------------------------------------
(* What a task's status says. *)

IsTerminal(status) == status \in Finished
IsActive(status) == ~IsTerminal(status) /\ status # Defers

StatusInfo(name, order) ==
  [name |-> name, order |-> order, terminal |-> IsTerminal(name),
   requires_trigger |-> name = Defers]

\* StatusFilter: the classes, and statuses by name; naming none holds all.
FilterRefusal(statuses) ==
  IF Blank \in statuses THEN "Blank"
  ELSE IF "@other" \in statuses THEN "UnknownStatusClass"
  ELSE Sound

Holds(statuses, status) ==
  \/ statuses = {}
  \/ status \in statuses
  \/ Open \in statuses /\ ~IsTerminal(status)
  \/ Terminal \in statuses /\ IsTerminal(status)

Mentions(text, term) == term = Absent \/ text \in Mentioning[term]

------------------------------------------------------------------------------
(* A postfix query: tagma's run over the rows a listing admits, each of     *)
(* which takes part, tagged or not.  The stack is of the rows selected; an  *)
(* operator short of operands, or operands left over, is malformed.         *)

Complement(candidates, selected) == candidates \ selected

Operands(token) ==
  CASE token = "not" -> 1 [] token \in {"and", "or"} -> 2 [] OTHER -> 0

Pushed(candidates, stack, token) ==
  LET n == Len(stack)
      rest == SubSeq(stack, 1, n - Operands(token)) IN
  Append(rest,
    CASE token = "not" -> Complement(candidates, stack[n])
      [] token = "and" -> stack[n-1] \cap stack[n]
      [] token = "or"  -> stack[n-1] \cup stack[n]
      [] OTHER -> {r \in candidates : token \in r.task.tags})

\* How high the stack is after n tokens of a query.
Height(query, n) ==
  LET height[i \in 0..n] == IF i = 0 THEN 0 ELSE height[i-1] + 1 - Operands(query[i])
  IN height[n]

QueryRefusal(query) ==
  IF query = <<Absent>> THEN Sound
  ELSE IF query = <<Blank>> THEN "Blank"
  ELSE IF /\ \A i \in DOMAIN query : Height(query, i - 1) >= Operands(query[i])
          /\ Height(query, Len(query)) = 1
    THEN Sound
  ELSE "TagQuery"

Selected(candidates, query) ==
  LET stack[n \in 0..Len(query)] ==
        IF n = 0 THEN <<>> ELSE Pushed(candidates, stack[n-1], query[n]) IN
  IF query = <<Absent>> THEN candidates ELSE stack[Len(query)][1]

\* The rows a query's filters keep.
Matching(rows, q) ==
  Selected({r \in rows : Holds(q.statuses, r.task.status) /\ Mentions(r.task.text, q.term)},
           q.tag_query)

\* Refused before anything is read, in this order.
Refusals(q) ==
  << IF q.term = Blank THEN "Blank" ELSE Sound,
     QueryRefusal(q.tag_query),
     CASE q.sort = Blank -> "Blank" [] q.sort = "other" -> "UnknownSort" [] OTHER -> Sound,
     IF q.limit = 0 THEN "Blank" ELSE Sound,
     FilterRefusal(q.statuses) >>

QueryRefused(q) ==
  LET judged == CASE q.kind = "list" -> 1..5 [] q.kind = "tags" -> {1, 2, 5} [] OTHER -> {}
      refused == {i \in judged : Refusals(q)[i] # Sound} IN
  IF refused = {} THEN Sound ELSE Refusals(q)[Min(refused)]

------------------------------------------------------------------------------
(* The listing.  Rows come by when they were added, or across projects by   *)
(* project and harp.                                                        *)

RowBefore(every, r, s) ==
  IF r.project # s.project THEN ProjectRank[r.project] < ProjectRank[s.project]
  ELSE IF every \/ r.task.created_at = s.task.created_at
    THEN HarpRank[r.task.harp_id] < HarpRank[s.task.harp_id]
  ELSE r.task.created_at < s.task.created_at

InProject(rows, p) == {r.task : r \in {s \in rows : s.project = p}}

Ranked(rows, now) ==
  [p \in {r.project : r \in rows} |->
     Ranking(InProject(rows, p), Finished, DeclaredIn[p], now)]

\* Compiled or ranked, a project's failure is the listing's.
RankRefusal(rows, now) ==
  LET ps == {r.project : r \in rows}
      refused(p) == IF FormulasRefusal(DeclaredIn[p]) # Sound
                      THEN FormulasRefusal(DeclaredIn[p])
                      ELSE Ranked(rows, now)[p].failure
      bad == {p \in ps : refused(p) # Sound} IN
  IF bad = {} THEN Sound ELSE refused(CHOOSE p \in bad : TRUE)

PriorityOf(ranked, r) == ranked[r.project].priority[r.task.harp_id]

\* Mutant of RankPopulation: only the page the filters leave is ranked.
RankPage(rows, q) == Matching(rows, q)

\* A project's whole population is ranked, not the page the filters leave.
RankPopulation(rows, q) == rows

\* The rows a listing shows of those matched, in their order: the default view
\* keeps the active alone.
Kept(matched, q) ==
  IF q.all \/ q.statuses # {} THEN matched ELSE {r \in matched : IsActive(r.task.status)}

\* A sort is stable, within each project.
Sorted(kept, ranked, q, every) ==
  LET outranks(r, s) ==
        /\ q.sort = "priority"
        /\ r.project = s.project
        /\ PriorityOf(ranked, r) > PriorityOf(ranked, s)
      before(r, s) == outranks(r, s) \/ (~outranks(s, r) /\ RowBefore(every, r, s)) IN
  CHOOSE order \in SetToSeqs(kept) :
    \A i, j \in DOMAIN order : i < j => before(order[i], order[j])

CutTo(order, limit) ==
  IF limit = Unlimited THEN order ELSE SubSeq(order, 1, Min({limit, Len(order)}))

\* The page cut off, and the count of what it leaves out, by why.
Paged(matched, kept, ranked, cut, q) ==
  [rows |-> cut,
   completed |-> Cardinality({r \in matched \ kept : IsTerminal(r.task.status)}),
   deferred |-> Cardinality({r \in matched \ kept : ~IsTerminal(r.task.status)}),
   omitted |-> Cardinality(kept) - Len(cut),
   priorities |-> IF q.sort = Absent THEN <<>>
                  ELSE [i \in DOMAIN cut |-> PriorityOf(ranked, cut[i])]]

\* Mutant of Listed: the rows cut off before they are sorted by priority.
ListedCutFirst(rows, q, every, now) ==
  LET matched == Matching(rows, q)
      kept == Kept(matched, q)
      ranked == Ranked(RankPopulation(rows, q), now)
      asAdded == Sorted(kept, ranked, [q EXCEPT !.sort = Absent], every) IN
  Paged(matched, kept, ranked, CutTo(asAdded, q.limit), q)

\* list: what the filters match, less what the default view hides, sorted, then
\* cut at the limit.
Listed(rows, q, every, now) ==
  LET matched == Matching(rows, q)
      kept == Kept(matched, q)
      ranked == Ranked(RankPopulation(rows, q), now) IN
  Paged(matched, kept, ranked, CutTo(Sorted(kept, ranked, q, every), q.limit), q)

------------------------------------------------------------------------------
(* The other reads. *)

\* show: every harp asked for found once, in the order asked; a missing one
\* is said before an ambiguous one.
Shown(rows, q) ==
  LET found(h) == {r \in rows : r.task.harp_id = h}
      asked == Range(q.harp_ids) IN
  IF \E h \in asked : found(h) = {} THEN [refusal |-> "NotFound"]
  ELSE IF \E h \in asked : Cardinality(found(h)) > 1 THEN [refusal |-> "Ambiguous"]
  ELSE [refusal |-> Sound,
        rows |-> [i \in DOMAIN q.harp_ids |-> CHOOSE r \in rows : r \in found(q.harp_ids[i])]]

\* tags: those in use among the rows selected, whatever their status.
TagCounts(rows, q) ==
  LET matched == Matching(rows, q)
      holding(tag) == {r \in matched : tag \in r.task.tags} IN
  [tag \in UNION {r.task.tags : r \in matched} |->
     [total |-> Cardinality(holding(tag)),
      active |-> Cardinality({r \in holding(tag) : IsActive(r.task.status)})]]

\* summary: every task the read reached, by status, and those In Progress.
Summary(rows) ==
  [counts |-> [s \in {r.task.status : r \in rows} |->
                 Cardinality({r \in rows : r.task.status = s})],
   in_progress |-> {r \in rows : r.task.status = "In Progress"}]

\* statuses: the default ones in their order, then those in use besides.
StatusesInUse(rows) ==
  LET others == {r.task.status : r \in rows} \ Range(DefaultStatuses)
      names == DefaultStatuses \o SetToSeq(others) IN
  [i \in DOMAIN names |-> StatusInfo(names[i], i - 1)]
=============================================================================
