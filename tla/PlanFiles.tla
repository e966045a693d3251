------------------------------ MODULE PlanFiles ------------------------------
(***************************************************************************)
(* The plans use cases over a project's plan streams, its work tree's plan *)
(* files and its tasks: a plan added with its file, the tasks it governs   *)
(* linked and unlinked, plans read and checked against their files, and    *)
(* tasks' `ctxloom:plan` tags imported.  A call reads and writes in        *)
(* steps; the files are edited and the tasks pruned between them, other    *)
(* calls run, and a process may die anywhere.                              *)
(*                                                                         *)
(* A commit decides on the plan as it is appended to (PlanLinks says why). *)
(* A call's own reads that follow one another, with no write of its own    *)
(* between, are one step.  supersedes links are PlanLinks's.               *)
(***************************************************************************)
EXTENDS PlanRules

CONSTANTS
  Clients,      \* processes
  Calls,        \* client -> the calls it makes
  Elsewhere,    \* plan commands of other kinds, run by other processes
  Edits,        \* what users do to files: [path, text or NoFile]
  FilesAtFirst, \* path -> its text
  TagsAtFirst,  \* task -> its ctxloom:plan tags' values, as paths given
  MaxCalls,     \* bound: client -> calls it makes
  MaxBeside,    \* bound: other commands, edits and prunes
  MaxFails      \* bound: calls that die

NoFile == "<no file>"

VARIABLES
  streams,  \* plan -> its events
  files,    \* path -> the text there
  tags,     \* task -> its ctxloom:plan values; a task pruned is not there
  call,     \* client -> the call it is in
  used      \* the bounds used

vars == <<streams, files, tags, call, used>>

ASSUME PlanFilesAssumption ==
  /\ DOMAIN TagsAtFirst \subseteq Tasks
  /\ \A c \in Clients : \A k \in Calls[c] : k.op \in {"add", "import", "link", "read", "check", "governing"}
  /\ \A c \in Clients : \A k \in Calls[c] : k.op = "link" => k.plan \in Plans
  /\ \A e \in Elsewhere :
       /\ e.plan \in Plans
       /\ e.command.type \in {"SetStatus", "Supersede", "Unsupersede", "MarkSuperseded",
                              "Reinstate"}
  /\ MaxCalls \in [Clients -> Nat] /\ {MaxBeside, MaxFails} \subseteq Nat

\* Calls name paths, plans and tasks; a file is named by its own path, in
\* the work tree as in an edit, and holds a text.
ASSUME InputsAssumption ==
  /\ \A c \in Clients : \A k \in Calls[c] :
       /\ k.plan \in Plans \cup {NoPlan} /\ k.tasks \subseteq Tasks
       /\ k.text \in Texts /\ IsPath(k.given.parts)
  /\ \A t \in DOMAIN TagsAtFirst : \A v \in TagsAtFirst[t] : IsPath(v.parts)
  /\ \A path \in DOMAIN FilesAtFirst : FilesAtFirst[path] \in Texts /\ Canonical(path)
  /\ \A e \in Edits : e.text \in Texts \cup {NoFile} /\ Canonical(e.path)

------------------------------------------------------------------------------
State(p) == StateOf(streams[p])
Holds(p) == State(p).added
List == ListOf(streams)

TextAt(path) == IF path \in DOMAIN files THEN files[path] ELSE NoFile
Exists(t) == t \in DOMAIN tags

Idle ==
  [pc |-> "idle", op |-> NoPath, plan |-> NoPlan, path |-> NoPath, text |-> NoFile,
   tasks |-> {}, rows |-> EmptyList.rows, left |-> {}, group |-> NoPath, found |-> {}]

TypeOK ==
  /\ \A p \in Plans : \A i \in DOMAIN streams[p] : (streams[p][i].type = "Add") <=> (i = 1)
  /\ \A p \in Plans : streams[p] # <<>> =>
       LET path == streams[p][1].path IN
       ~path.outside /\ IsPlanFile(path) /\ Canonical(path)
  /\ \A path \in DOMAIN files : files[path] \in Texts /\ Canonical(path)
  /\ DOMAIN tags \subseteq Tasks
  /\ \A c \in Clients :
       /\ call[c].pc \in {"idle", "look", "create", "add", "govern", "link", "unlink", "rows",
                          "governing", "file", "rehash", "governed", "tagged", "list", "group", "copy",
                          "register", "join", "untag"}
       /\ call[c].plan \in Plans \cup {NoPlan}
       /\ call[c].tasks \subseteq Tasks
  /\ used.beside \in 0..MaxBeside
  /\ used.fails \in 0..MaxFails /\ \A c \in Clients : used.calls[c] \in 0..MaxCalls[c]

Init ==
  /\ streams = [p \in Plans |-> <<>>]
  /\ files = FilesAtFirst
  /\ tags = TagsAtFirst
  /\ call = [c \in Clients |-> Idle]
  /\ used = [calls |-> [c \in Clients |-> 0], beside |-> 0, fails |-> 0]

------------------------------------------------------------------------------
(* What goes on beside the calls. *)

\* A user writes, or removes, a file of the work tree.
Edit ==
  \E e \in Edits :
    /\ used.beside < MaxBeside
    /\ TextAt(e.path) # e.text
    /\ files' = IF e.text = NoFile THEN Without(files, e.path) ELSE With(files, e.path, e.text)
    /\ used' = [used EXCEPT !.beside = @ + 1]
    /\ UNCHANGED <<streams, tags, call>>

\* A task is pruned.
PruneTask(t) ==
  /\ used.beside < MaxBeside
  /\ Exists(t)
  /\ tags' = Without(tags, t)
  /\ used' = [used EXCEPT !.beside = @ + 1]
  /\ UNCHANGED <<streams, files, call>>

\* Another process's `plan status`, or half of a supersede.
OtherCommand ==
  \E e \in Elsewhere :
    /\ used.beside < MaxBeside
    /\ Refusal(State(e.plan), e.plan, e.command) = "sound"
    /\ streams' = [streams EXCEPT ![e.plan] = Append(@, e.command)]
    /\ used' = [used EXCEPT !.beside = @ + 1]
    /\ UNCHANGED <<files, tags, call>>

------------------------------------------------------------------------------
(* Calls. *)

\* What a loop over a set takes next: the sets are sorted, and the order
\* is the same every time.
First(S) == CHOOSE x \in S : TRUE

Goes(c, next) == call' = [call EXCEPT ![c] = next]

\* A call answers, or refuses, saying why.
Ends(c, said) == call' = [call EXCEPT ![c] = Idle]
Refuses(c, why) == Ends(c, [said |-> why])

\* Command m committed on plan p: recorded, or refused on the plan as it is.
Sound(p, m) == Refusal(State(p), p, m) = "sound"
Committed(p, m) == streams' = IF Sound(p, m) THEN [streams EXCEPT ![p] = Append(@, m)] ELSE streams

\* A call begins: an add's fields and its tasks, and a link's plan and task,
\* are judged before anything is written.
Begin(c) ==
  \E k \in Calls[c] :
    LET missing == {t \in k.tasks : ~Exists(t)}
        begin(pc) == Goes(c, [Idle EXCEPT !.pc = pc, !.op = k, !.plan = k.plan,
                                          !.tasks = k.tasks]) IN
    /\ call[c].pc = "idle"
    /\ used.calls[c] < MaxCalls[c]
    /\ used' = [used EXCEPT !.calls[c] = @ + 1]
    /\ CASE k.op = "add" ->
              IF AddRefusal([title |-> k.title, status |-> k.status, hash |-> NoFile]) # "sound"
                THEN Refuses(c, AddRefusal([title |-> k.title, status |-> k.status,
                                            hash |-> NoFile]))
              ELSE IF missing # {} THEN Refuses(c, "NoSuchTask")
              ELSE begin("look")
         [] k.op = "link" ->
              IF ~Holds(k.plan) THEN Refuses(c, "NoSuchPlan")
              ELSE IF k.link /\ missing # {} THEN Refuses(c, "NoSuchTask")
              ELSE begin(IF k.link THEN "link" ELSE "unlink")
         [] k.op \in {"read", "check"} -> begin("rows")
         [] k.op = "governing" -> begin("governing")
         [] k.op = "import" -> begin("tagged")
    /\ UNCHANGED <<streams, files, tags>>

------------------------------------------------------------------------------
(* plan add. *)

\* Mutant of AddLook: the path is not looked up.
AddLookUnlooked(c) ==
  LET k == call[c].op IN
  /\ call[c].pc = "look"
  /\ \E p \in Plans :
       LET path == IF k.given = NoPath THEN DefaultPath(p) ELSE Located(k.given) IN
       /\ ~Holds(p)
       /\ IF k.given = NoPath
            THEN Goes(c, [call[c] EXCEPT !.pc = "create", !.plan = p, !.path = path])
          ELSE IF PathRefusal(k.given) # "sound" THEN Refuses(c, PathRefusal(k.given))
          ELSE IF TextAt(path) = NoFile THEN Refuses(c, "FileMissing")
          ELSE Goes(c, [call[c] EXCEPT !.pc = "add", !.plan = p, !.path = path,
                                       !.text = TextAt(path)])
  /\ UNCHANGED <<streams, files, tags, used>>

\* The file named is read and looked up in the list, and a harp drawn that
\* holds no plan.
AddLook(c) ==
  LET k == call[c].op IN
  /\ call[c].pc = "look"
  /\ \E p \in Plans :
       LET path == IF k.given = NoPath THEN DefaultPath(p) ELSE Located(k.given) IN
       /\ ~Holds(p)
       /\ IF k.given = NoPath
            THEN Goes(c, [call[c] EXCEPT !.pc = "create", !.plan = p, !.path = path])
          ELSE IF PathRefusal(k.given) # "sound" THEN Refuses(c, PathRefusal(k.given))
          ELSE IF TextAt(path) = NoFile THEN Refuses(c, "FileMissing")
          ELSE IF ByPath(List, path) # {} THEN Refuses(c, "AlreadyRegistered")
          ELSE Goes(c, [call[c] EXCEPT !.pc = "add", !.plan = p, !.path = path,
                                       !.text = TextAt(path)])
  /\ UNCHANGED <<streams, files, tags, used>>

\* Every harp holds a plan: none can be drawn.
AddExhausted(c) ==
  /\ call[c].pc = "look"
  /\ \A p \in Plans : Holds(p)
  /\ Refuses(c, "HarpsExhausted")
  /\ UNCHANGED <<streams, files, tags, used>>

\* A new file, never over one that is there.
Creates(c, text, next) ==
  IF TextAt(call[c].path) # NoFile
    THEN Refuses(c, "FileExists") /\ UNCHANGED files
    ELSE files' = With(files, call[c].path, text) /\ Goes(c, next)

AddCreate(c) ==
  LET k == call[c].op IN
  /\ call[c].pc = "create"
  /\ Creates(c, k.text, [call[c] EXCEPT !.pc = "add", !.text = k.text])
  /\ UNCHANGED <<streams, tags, used>>

AddCommand(c, status) ==
  [type |-> "Add", title |-> "titled", status |-> status, path |-> call[c].path,
   hash |-> call[c].text]

AddCommit(c) ==
  LET m == AddCommand(c, call[c].op.status) IN
  /\ call[c].pc = "add"
  /\ Committed(call[c].plan, m)
  /\ IF ~Sound(call[c].plan, m) THEN Refuses(c, "AlreadyAdded")
     ELSE IF call[c].tasks = {} THEN Ends(c, [said |-> "added", plan |-> call[c].plan])
     ELSE Goes(c, [call[c] EXCEPT !.pc = "govern"])
  /\ UNCHANGED <<files, tags, used>>

\* Its tasks, one by one.
AddGovern(c) ==
  LET p == call[c].plan IN
  /\ call[c].pc = "govern"
  /\ LET t == First(call[c].tasks)
         m == [type |-> "Govern", task |-> t] IN
       /\ Committed(p, m)
       /\ IF ~Sound(p, m) THEN Refuses(c, "AlreadyGoverns")
          ELSE IF call[c].tasks = {t} THEN Ends(c, [said |-> "added", plan |-> p])
          ELSE Goes(c, [call[c] EXCEPT !.tasks = @ \ {t}])
  /\ UNCHANGED <<files, tags, used>>

------------------------------------------------------------------------------
(* plan link and unlink --governs. *)

LinkCommit(c) ==
  LET p == call[c].plan
      m == [type |-> IF call[c].pc = "link" THEN "Govern" ELSE "Ungovern",
            task |-> First(call[c].tasks)] IN
  /\ call[c].pc \in {"link", "unlink"}
  /\ Committed(p, m)
  /\ IF Sound(p, m) THEN Ends(c, [said |-> "linked", plan |-> p])
     ELSE Refuses(c, Refusal(State(p), p, m))
  /\ UNCHANGED <<files, tags, used>>

------------------------------------------------------------------------------
(* plan list, show and check: the rows read at once, then each one's file, *)
(* its hash recorded where it changed.                                     *)

\* The rows a read selects: one plan's, by harp id or by path, those
\* governing a task, or every one; a check's are every one.
Selected(k, list) ==
  IF k.plan # NoPlan THEN {k.plan} \cap DOMAIN list.rows
  ELSE IF k.given # NoPath
         THEN IF Located(k.given).outside THEN {} ELSE ByPath(list, Located(k.given))
  ELSE IF k.tasks # {} THEN UNION {GoverningIn(list, t) : t \in k.tasks}
  ELSE DOMAIN list.rows

ReadRows(c) ==
  LET k == call[c].op
      selected == Selected(k, List) IN
  /\ call[c].pc = "rows"
  /\ IF selected = {} /\ (k.plan # NoPlan \/ k.given # NoPath)
       THEN Refuses(c, "NoSuchPlan")
       ELSE Goes(c, [call[c] EXCEPT !.pc = "file", !.left = selected, !.rows = List.rows])
  /\ UNCHANGED <<streams, files, tags, used>>

\* The next row's file is read, against the hash the row holds.
ReadFile(c) ==
  /\ call[c].pc = "file"
  /\ \E p \in call[c].left :
     LET row == call[c].rows[p]
         text == TextAt(row.path)
         missing == IF text = NoFile THEN {[why |-> "Missing", plan |-> p, on |-> row.path]}
                      ELSE {} IN
       Goes(c, [call[c] EXCEPT
         !.pc = IF text \in {NoFile, row.hash} THEN "governed" ELSE "rehash",
         !.plan = p, !.text = text, !.found = @ \cup missing])
  /\ UNCHANGED <<streams, files, tags, used>>

\* Refused where another reader recorded the same hash meanwhile.
ReadRehash(c) ==
  /\ call[c].pc = "rehash"
  /\ Committed(call[c].plan, [type |-> "Rehash", hash |-> call[c].text])
  /\ Goes(c, [call[c] EXCEPT !.pc = "governed"])
  /\ UNCHANGED <<files, tags, used>>

\* A check looks each governed task up; the row is done.
ReadGoverned(c) ==
  LET p == call[c].plan
      gone == IF call[c].op.op = "check" THEN {t \in call[c].rows[p].governs : ~Exists(t)}
              ELSE {} IN
  /\ call[c].pc = "governed"
  /\ Goes(c, [call[c] EXCEPT !.pc = "file", !.left = @ \ {p},
       !.found = @ \cup {[why |-> "MissingTask", plan |-> p, on |-> t] : t \in gone}])
  /\ UNCHANGED <<streams, files, tags, used>>

\* A check then lists the plan files no row records.
ReadEnds(c) ==
  LET recorded == {call[c].rows[p].path : p \in DOMAIN call[c].rows}
      unregistered == {path \in DOMAIN files :
                         InPlansDir(path) /\ IsPlanFile(path) /\ path \notin recorded} IN
  /\ call[c].pc = "file" /\ call[c].left = {}
  /\ IF call[c].op.op = "read" THEN Ends(c, [said |-> "read"])
     ELSE Ends(c, [said |-> "checked", found |-> call[c].found \cup
            {[why |-> "Unregistered", plan |-> NoPlan, on |-> path] : path \in unregistered}])
  /\ UNCHANGED <<streams, files, tags, used>>

\* The plans governing each task asked about, as a task list shows them: from
\* the list alone.
Governing(c) ==
  /\ call[c].pc = "governing"
  /\ Ends(c, [said |-> "governed", by |-> [t \in call[c].tasks |-> GoverningIn(List, t)]])
  /\ UNCHANGED <<streams, files, tags, used>>

------------------------------------------------------------------------------
(* plan import. *)

\* The tags' values, by the plan files they name, as they read now; a value
\* naming no readable file, or no plan file, is left.
Sorted ==
  LET named == {<<t, v>> : t \in DOMAIN tags, v \in UNION {tags[x] : x \in DOMAIN tags}}
      tagged == {tv \in named : tv[2] \in tags[tv[1]]}
      plans == {tv \in tagged : TextAt(Located(tv[2])) # NoFile /\ IsPlanFile(Located(tv[2]))}
  IN [groups |-> {[path |-> path, text |-> TextAt(path),
                   tags |-> {tv \in plans : Located(tv[2]) = path}] :
                    path \in {Located(tv[2]) : tv \in plans}},
      left |-> tagged \ plans]

ImportTagged(c) ==
  /\ call[c].pc = "tagged"
  /\ Goes(c, [call[c] EXCEPT !.pc = "list", !.left = Sorted.groups, !.found = Sorted.left])
  /\ UNCHANGED <<streams, files, tags, used>>

\* The list is read once; a dry run only reports.
ImportList(c) ==
  /\ call[c].pc = "list"
  /\ IF call[c].op.dry
       THEN Ends(c, [said |-> "imported", left |-> call[c].found])
       ELSE Goes(c, [call[c] EXCEPT !.pc = "group", !.rows = List.rows])
  /\ UNCHANGED <<streams, files, tags, used>>

\* The group's plan p, recorded at path, is joined by the group's tasks it
\* does not govern yet; then their tags are retired.
Joining(k, p, path, governs) ==
  LET tasks == {tv[1] : tv \in k.group.tags} \ governs IN
  [k EXCEPT !.pc = IF tasks = {} THEN "untag" ELSE "join", !.plan = p, !.path = path,
            !.tasks = tasks]

\* Mutant of JoiningRecorded: the tasks of a plan already recorded are
\* taken to be governed by it.
JoiningRecordedGoverned(k, p) == Joining(k, p, k.rows[p].path, {tv[1] : tv \in k.group.tags})

JoiningRecorded(k, p) == Joining(k, p, k.rows[p].path, k.rows[p].governs)

\* The next group, inside files first: a path already recorded, or an
\* outside file's copy by its text, is that plan's; otherwise a harp that
\* holds no plan is drawn, if any is left.
ImportGroup(c) ==
  /\ call[c].pc = "group"
  /\ call[c].left # {}
  /\ LET inside == {g \in call[c].left : ~g.path.outside}
         g == First(IF inside = {} THEN call[c].left ELSE inside)
         list == [EmptyList EXCEPT !.rows = call[c].rows]
         k == [call[c] EXCEPT !.left = @ \ {g}, !.group = g, !.text = g.text]
         recorded == IF g.path.outside THEN CopiesOf(list, g.text) ELSE ByPath(list, g.path)
     IN
       \/ \E p \in recorded : Goes(c, JoiningRecorded(k, p))
       \/ /\ recorded = {}
          /\ \E p \in Plans :
               /\ ~Holds(p)
               /\ Goes(c, [k EXCEPT !.pc = IF g.path.outside THEN "copy" ELSE "register",
                    !.plan = p,
                    !.path = IF g.path.outside THEN DefaultPath(p) ELSE g.path])
       \/ /\ recorded = {} /\ \A p \in Plans : Holds(p)
          /\ Refuses(c, "HarpsExhausted")
  /\ UNCHANGED <<streams, files, tags, used>>

\* An outside file is copied in, never over one that is there.
ImportCopy(c) ==
  /\ call[c].pc = "copy"
  /\ Creates(c, call[c].text, [call[c] EXCEPT !.pc = "register"])
  /\ UNCHANGED <<streams, tags, used>>

ImportRegister(c) ==
  LET m == AddCommand(c, "active") IN
  /\ call[c].pc = "register"
  /\ Committed(call[c].plan, m)
  /\ IF Sound(call[c].plan, m)
       THEN Goes(c, Joining(call[c], call[c].plan, call[c].path, {}))
       ELSE Refuses(c, "AlreadyAdded")
  /\ UNCHANGED <<files, tags, used>>

\* A task governed meanwhile is passed over.
ImportJoin(c) ==
  /\ call[c].pc = "join"
  /\ LET t == First(call[c].tasks) IN
       /\ Committed(call[c].plan, [type |-> "Govern", task |-> t])
       /\ Goes(c, [call[c] EXCEPT !.pc = IF call[c].tasks = {t} THEN "untag" ELSE "join",
                                  !.tasks = @ \ {t}])
  /\ UNCHANGED <<files, tags, used>>

\* One tag retired; a task that is gone ends the import.
ImportUntag(c) ==
  /\ call[c].pc = "untag"
  /\ LET tv == First(call[c].group.tags)
         left == call[c].group.tags \ {tv} IN
       IF ~Exists(tv[1]) THEN Refuses(c, "NotFound") /\ UNCHANGED tags
       ELSE /\ tags' = [tags EXCEPT ![tv[1]] = @ \ {tv[2]}]
            /\ Goes(c, [call[c] EXCEPT !.pc = IF left = {} THEN "group" ELSE "untag",
                                       !.group.tags = left])
  /\ UNCHANGED <<streams, files, used>>

ImportEnds(c) ==
  /\ call[c].pc = "group" /\ call[c].left = {}
  /\ Ends(c, [said |-> "imported", left |-> call[c].found])
  /\ UNCHANGED <<streams, files, tags, used>>

\* A call dies, or its store or its files fail it, where it stands.
Dies(c) ==
  /\ call[c].pc # "idle"
  /\ used.fails < MaxFails
  /\ used' = [used EXCEPT !.fails = @ + 1]
  /\ Refuses(c, "Failed")
  /\ UNCHANGED <<streams, files, tags>>

Next ==
  \/ Edit \/ OtherCommand
  \/ \E t \in Tasks : PruneTask(t)
  \/ \E c \in Clients :
       \/ Begin(c) \/ Dies(c)
       \/ AddLook(c) \/ AddExhausted(c) \/ AddCreate(c) \/ AddCommit(c) \/ AddGovern(c)
       \/ LinkCommit(c)
       \/ ReadRows(c) \/ ReadFile(c) \/ ReadRehash(c) \/ ReadGoverned(c) \/ ReadEnds(c)
       \/ Governing(c)
       \/ ImportTagged(c) \/ ImportList(c) \/ ImportGroup(c) \/ ImportCopy(c)
       \/ ImportRegister(c) \/ ImportJoin(c) \/ ImportUntag(c) \/ ImportEnds(c)

Spec == Init /\ [][Next]_vars

------------------------------------------------------------------------------
(* Properties. *)

Added(p) == streams[p] # <<>>
AddOf(p) == streams[p][1]
Rehashed(p) == \E i \in DOMAIN streams[p] : streams[p][i].type = "Rehash"

\* A file has one plan: no two plans record one path, and no two record
\* copies of one outside file's text, neither rehashed since, however often
\* an import dies and is run again (import.rs:17).
FileOnePlan ==
  \A p, q \in Plans : p # q /\ Added(p) /\ Added(q) =>
    /\ AddOf(p).path # AddOf(q).path
    /\ ~ \E path \in DOMAIN files :
          /\ path.outside /\ files[path] = AddOf(p).hash /\ files[path] = AddOf(q).hash
          /\ UnderPlansDir(AddOf(p).path) /\ UnderPlansDir(AddOf(q).path)
          /\ ~Rehashed(p) /\ ~Rehashed(q)

\* A tag is retired only once a plan recording the file it names, or a copy
\* of it, has been made to govern its task: an import stopped anywhere loses
\* no link (import.rs:11).
TagOrLink ==
  \A t \in DOMAIN tags : \A v \in TagsAtFirst[t] \ tags[t] :
    \E p \in Plans :
      /\ \E i \in DOMAIN streams[p] :
           streams[p][i].type = "Govern" /\ streams[p][i].task = t
      /\ IF Located(v).outside THEN UnderPlansDir(AddOf(p).path)
         ELSE AddOf(p).path = Located(v)

\* The list's two directions of `governs`, and each of its rows, are what
\* the plans' own streams hold (plan-lists lib.rs:1).
ListAgrees ==
  /\ DOMAIN List.rows = {p \in Plans : Holds(p)}
  /\ \A p \in DOMAIN List.rows : List.rows[p] = State(p)
  /\ \A t \in Tasks : GoverningIn(List, t) = {p \in Plans : t \in State(p).governs}
  /\ \A t \in DOMAIN List.governing : List.governing[t] # {}
=============================================================================
