----------------------------- MODULE JsonlImport -----------------------------
(***************************************************************************)
(* Imports of projects' JSONL task logs into their stores: each record a   *)
(* command, run at the record's instant under an id its line gives, so     *)
(* that an import run again, or two at once, or one that stopped part way, *)
(* brings each record over once.  The logs are still written meanwhile, by *)
(* the program that keeps them, and the stores used.                       *)
(*                                                                         *)
(* A record stands for the id its line derives.  The kernel's handling of  *)
(* a command (TaskStore has its steps) is one step here: a command its     *)
(* stream already holds is answered as done, any other decided on the task *)
(* as it is.                                                               *)
(***************************************************************************)
EXTENDS TaskLog

CONSTANTS
  Importers,     \* the processes that import
  Projects,      \* the projects
  LogsAtFirst,   \* what the logs may hold: [project -> lines], and how many are written
  ProjectOrder,  \* the projects, by id
  UserCommands,  \* what users do: [project, harp, command]
  UserAt,        \* the instant they do it
  MaxImports,    \* bound: imports started
  MaxUses,       \* bound: what users do
  MaxFails       \* bound: imports that stop

\* A command's id: the one its log's line derives, or a user's, no line's.
IdOf(r) == <<r>>
User == <<>>
NoLog == <<[op |-> "none"]>>
Every == "<every>"

VARIABLES
  logs,      \* project -> the lines its log comes to hold, or NoLog
  written,   \* project -> how many of them it holds
  streams,   \* project -> harp -> its stream's pages: [event, id, at]
  importer,  \* process -> where its import is
  reported,  \* project -> the records imports reported imported (history)
  used       \* the bounds used

vars == <<logs, written, streams, importer, reported, used>>

ASSUME ImportAssumption ==
  /\ Range(ProjectOrder) = Projects
  /\ \A u \in UserCommands :
       /\ u.project \in Projects /\ u.harp \in Harps
       /\ u.command \in AddTaskCommands \cup SetStatusCommands \cup EditTextCommands
                          \cup RetagCommands \cup RemoveTaskCommands
       /\ CheckRefusal(u.command) = Sound
  /\ UserAt \in Nat
  /\ {MaxImports, MaxUses, MaxFails} \subseteq Nat
ASSUME LogsAssumption ==
  /\ ProjectOrder \in Seq(Projects)
  /\ LogsAtFirst \subseteq
       [Projects -> [lines: Seq(LogRecords \cup {Malformed, BlankLine}) \cup {NoLog}, written: Nat]]
  /\ \A first \in LogsAtFirst, p \in Projects : first[p].written <= Len(first[p].lines)

------------------------------------------------------------------------------
Folded(pages) ==
  LET after[n \in 0..Len(pages)] ==
        IF n = 0 THEN NoTask ELSE Apply(after[n-1], pages[n].event, pages[n].at)
  IN after[Len(pages)]
Task(p, h) == Folded(streams[p][h])

\* The log as it stands, and its records in replay order.
Log(p) == SubSeq(logs[p], 1, written[p])
Replayed(p) == ReplayOrder(Log(p))

\* Mutant of Found: only the stream's last page is looked at.
FoundLast(p, r) == streams[p][r.task] # <<>> /\ Last(streams[p][r.task]).id = IdOf(r)

\* find_command: the record's command is in its task's stream.
Found(p, r) == \E i \in DOMAIN streams[p][r.task] : streams[p][r.task][i].id = IdOf(r)

NewReport ==
  [records |-> <<>>, failed |-> FALSE, applied |-> {}, already |-> {}, passed |-> {},
   repaired |-> {}, lost |-> {}]

Idle ==
  [pc |-> "idle", left |-> <<>>, at |-> 1, fold |-> NewFold, report |-> NewReport,
   whole |-> TRUE]

Project(i) == Head(importer[i].left)
Record(i) == importer[i].report.records[importer[i].at]
Step(i) ==
  Stepped(importer[i].fold, RepairedBy(importer[i].report.records), Record(i))

\* ImportReport::complete, of one project: nothing failed, nothing left behind.
Complete(report) == ~report.failed /\ report.lost = {}

TypeOK ==
  /\ \A p \in Projects :
       /\ written[p] \in 0..Len(logs[p])
       /\ \A h \in Harps : \A i \in DOMAIN streams[p][h] :
            /\ streams[p][h][i].event \in TaskEvents
            /\ streams[p][h][i].id = User \/ streams[p][h][i].id[1] \in LogRecords
       /\ reported[p] \subseteq LogRecords
  /\ \A i \in Importers :
       /\ importer[i].pc \in {"idle", "open", "step", "run", "read", "done"}
       /\ importer[i].fold.live \subseteq importer[i].fold.issued
       /\ importer[i].fold.missing \subseteq importer[i].fold.issued
       /\ importer[i].fold.triggers \in [Harps -> Triggers \cup {Empty}]
       /\ importer[i].whole \in BOOLEAN
  /\ used.imports \in 0..MaxImports /\ used.uses \in 0..MaxUses /\ used.fails \in 0..MaxFails

Init ==
  /\ \E first \in LogsAtFirst :
       logs = [p \in Projects |-> first[p].lines] /\ written = [p \in Projects |-> first[p].written]
  /\ streams = [p \in Projects |-> [h \in Harps |-> <<>>]]
  /\ importer = [i \in Importers |-> Idle]
  /\ reported = [p \in Projects |-> {}]
  /\ used = [imports |-> 0, uses |-> 0, fails |-> 0]

------------------------------------------------------------------------------
(* What goes on beside the imports. *)

\* The program that keeps the log appends its next line.
AppendLine(p) ==
  /\ logs[p] # NoLog
  /\ written[p] < Len(logs[p])
  /\ written' = [written EXCEPT ![p] = @ + 1]
  /\ UNCHANGED <<logs, streams, importer, reported, used>>

\* A user's command, decided on the task as it is.
Use ==
  \E u \in UserCommands :
    LET decision == Decide(Task(u.project, u.harp), streams[u.project][u.harp] # <<>>,
                           u.command) IN
    /\ used.uses < MaxUses
    /\ Records(decision)
    /\ streams' = [streams EXCEPT ![u.project][u.harp] =
                     Append(@, [event |-> decision.event, id |-> User, at |-> UserAt])]
    /\ used' = [used EXCEPT !.uses = @ + 1]
    /\ UNCHANGED <<logs, written, importer, reported>>

------------------------------------------------------------------------------
(* An import.                                                               *)

\* The projects with a log, by id.
WithLogs ==
  LET found[n \in 0..Len(ProjectOrder)] ==
        IF n = 0 THEN <<>>
        ELSE IF logs[ProjectOrder[n]] = NoLog THEN found[n - 1]
        ELSE Append(found[n - 1], ProjectOrder[n])
  IN found[Len(ProjectOrder)]

\* Of every project with a log, or of the one named, whose log need not be there.
StartImport(i) ==
  /\ importer[i].pc \in {"idle", "done"}
  /\ used.imports < MaxImports
  /\ \E asked \in Projects \cup {Every} :
       importer' = [importer EXCEPT ![i] =
         [Idle EXCEPT !.pc = "read",
                      !.left = IF asked = Every THEN WithLogs ELSE <<asked>>]]
  /\ used' = [used EXCEPT !.imports = @ + 1]
  /\ UNCHANGED <<logs, written, streams, reported>>

\* The report of a project finished with, and the next project, if any.
NextProject(i, report) ==
  importer' = [importer EXCEPT ![i] =
    [Idle EXCEPT !.left = IF Len(importer[i].left) = 1 THEN <<Project(i)>>
                          ELSE Tail(importer[i].left),
       !.pc = IF Len(importer[i].left) = 1 THEN "done" ELSE "read",
       !.report = report,
       !.whole = importer[i].whole /\ Complete(report)]]

\* records, and replay_order: an unreadable log, or none where one is named,
\* stops the project; an empty one opens no store.
ReadLog(i) ==
  LET p == Project(i)
      there == logs[p] # NoLog /\ Readable(Log(p)) IN
  /\ importer[i].pc = "read"
  /\ \/ /\ importer[i].left = <<>>
        /\ importer' = [importer EXCEPT ![i].pc = "done"]
     \/ /\ importer[i].left # <<>>
        /\ ~there
        /\ NextProject(i, [NewReport EXCEPT !.failed = TRUE])
     \/ /\ importer[i].left # <<>>
        /\ there
        /\ IF Replayed(p) = <<>> THEN NextProject(i, NewReport)
           ELSE importer' = [importer EXCEPT
                  ![i].pc = "step", ![i].at = 1, ![i].fold = NewFold,
                  ![i].report = [NewReport EXCEPT !.records = Replayed(p)]]
  /\ UNCHANGED <<logs, written, streams, reported, used>>

\* The record is done with: `report` is what it came to, `fold` how it left it.
Onward(i, fold, report) ==
  IF importer[i].at = Len(report.records) THEN NextProject(i, report)
  ELSE importer' = [importer EXCEPT ![i].pc = "step", ![i].at = @ + 1,
                                    ![i].fold = fold, ![i].report = report]

LostTags(r, refused) == {[record |-> r, why |-> "Tag"] : t \in refused}

\* A record stepped, and its command looked for in its task's stream.
StepRecord(i) ==
  LET p == Project(i)
      r == Record(i)
      step == Step(i)
      report == [importer[i].report EXCEPT !.lost = @ \cup LostTags(r, step.refused)] IN
  /\ importer[i].pc = "step"
  /\ \/ /\ step.step.kind = "run" /\ ~Found(p, r)
        /\ importer' = [importer EXCEPT ![i].pc = "run", ![i].report = report]
        /\ UNCHANGED reported
     \/ /\ step.step.kind = "run" /\ Found(p, r)
        /\ Onward(i, step.fold, [report EXCEPT !.already = @ \cup {r}])
        /\ reported' = [reported EXCEPT ![p] = @ \cup {r}]
     \/ /\ step.step.kind \in {"unchanged", "ignored", "nothing left"}
        /\ Onward(i, step.fold, [report EXCEPT !.passed = @ \cup {r}])
        /\ UNCHANGED reported
     \/ /\ step.step.kind = "repaired"
        /\ Onward(i, step.fold, [report EXCEPT !.repaired = @ \cup {r}])
        /\ UNCHANGED reported
     \/ /\ step.step.kind = "lost"
        /\ Onward(i, step.fold,
                  [report EXCEPT !.lost = @ \cup {[record |-> r, why |-> step.step.why]}])
        /\ UNCHANGED reported
  /\ UNCHANGED <<logs, written, streams, used>>

\* Mutant of NotImported: a refused add is forgotten.
NotImportedForgotten(fold, r) == fold

\* The fold once record r was refused: an add's task was not imported.
NotImported(fold, r) ==
  IF r.op = "add" THEN [fold EXCEPT !.missing = @ \cup {r.task}] ELSE fold

\* Mutant of At: the clock runs on.
AtTheImport(r) == MaxTs

\* The clock a record's command runs under is stopped at its instant.
At(r) == r.ts

\* The record's command run at its instant: done already, decided, or refused.
RunRecord(i) ==
  LET p == Project(i)
      r == Record(i)
      h == r.task
      step == Step(i)
      report == importer[i].report
      decision == Decide(Task(p, h), streams[p][h] # <<>>, step.step.command)
      done == Found(p, r) \/ decision.refusal = Sound IN
  /\ importer[i].pc = "run"
  /\ streams' = [streams EXCEPT ![p][h] =
       IF ~Found(p, r) /\ Records(decision)
         THEN Append(@, [event |-> decision.event, id |-> IdOf(r), at |-> At(r)]) ELSE @]
  /\ \/ /\ done
        /\ Onward(i, step.fold, [report EXCEPT !.applied = @ \cup {r}])
        /\ reported' = [reported EXCEPT ![p] = @ \cup {r}]
     \/ /\ ~done
        /\ Onward(i, NotImported(step.fold, r),
             [report EXCEPT !.lost = @ \cup
                {[record |-> r, why |-> IF decision.refusal = "TaskExists" THEN "HarpTaken"
                                        ELSE decision.refusal]}])
        /\ UNCHANGED reported
  /\ UNCHANGED <<logs, written, used>>

\* The project's store, or its resolution, fails: what was imported stays, and
\* the import goes on to the next project.
ProjectFails(i) ==
  /\ importer[i].pc \in {"step", "run"}
  /\ used.fails < MaxFails
  /\ used' = [used EXCEPT !.fails = @ + 1]
  /\ NextProject(i, [importer[i].report EXCEPT !.failed = TRUE])
  /\ UNCHANGED <<logs, written, streams, reported>>

\* The process dies.
Crash(i) ==
  /\ importer[i].pc \in {"read", "step", "run"}
  /\ used.fails < MaxFails
  /\ used' = [used EXCEPT !.fails = @ + 1]
  /\ importer' = [importer EXCEPT ![i] = Idle]
  /\ UNCHANGED <<logs, written, streams, reported>>

------------------------------------------------------------------------------
Next ==
  \/ \E p \in Projects : AppendLine(p)
  \/ Use
  \/ \E i \in Importers :
       StartImport(i) \/ ReadLog(i) \/ StepRecord(i) \/ RunRecord(i) \/ ProjectFails(i) \/ Crash(i)

Spec == Init /\ [][Next]_vars

------------------------------------------------------------------------------
(* Properties.                                                              *)

\* The import that is over: its last project, and that project's records.
Over(i) ==
  /\ importer[i].pc = "done" /\ importer[i].left # <<>>
  /\ ~importer[i].report.failed /\ Readable(Log(Project(i)))
  /\ importer[i].report.records = Replayed(Project(i))

\* The records to harp h that an import left out whole.
LeftOutOf(report, h) ==
  {l \in report.lost : l.record.task = h /\ l.why \notin {"Displaced", "Tag"}}

Untouched(p, h) == \A i \in DOMAIN streams[p][h] : streams[p][h][i].id # User

\* After an import of the whole log, a task only imports wrote, all of whose
\* records were brought over, is what the log says it is: its text, status,
\* trigger, tags and removal, and the log's instants, not the import's; and a
\* harp the log adds nothing to has no stream.
ImportedAsLogged ==
  \A i \in Importers : Over(i) =>
    LET p == Project(i)
        records == importer[i].report.records IN
    \A h \in Harps :
      Untouched(p, h) /\ LeftOutOf(importer[i].report, h) = {} =>
        IF Adds(records, h) = {} THEN streams[p][h] = <<>>
        ELSE LET logged == LoggedTask(records, h) IN
             [f \in DOMAIN logged |-> Task(p, h)[f]] = logged

\* An import that says nothing was left behind left nothing behind: every add
\* of the log is a page of its stream, a displaced one by the add that repairs
\* it.
NothingLeftBehind ==
  \A i \in Importers : Over(i) /\ Complete(importer[i].report) =>
    LET p == Project(i)
        adds == {r \in Range(importer[i].report.records) : r.op = "add"} IN
    \A r \in adds :
      Found(p, r) \/ \E s \in adds : s.repair_of = AnomalyKey(r) /\ Found(p, s)

\* A task a user added under a harp the log also issues is the user's: no
\* record to the log's task of that name is run on it.
ForeignKept ==
  \A p \in Projects, h \in Harps :
    streams[p][h] # <<>> /\ Head(streams[p][h]).id = User =>
      \A i \in DOMAIN streams[p][h] : streams[p][h][i].id = User

\* A record an import has reported imported is recorded by no later one,
\* however imports race, stop and are run again.
ImportedOnce ==
  [][\A p \in Projects, h \in Harps :
       Len(streams'[p][h]) > Len(streams[p][h]) =>
         \A r \in reported[p] : Last(streams'[p][h]).id # IdOf(r)]_vars
=============================================================================
