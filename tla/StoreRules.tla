----------------------------- MODULE StoreRules -----------------------------
(***************************************************************************)
(* A store's schema stream and the calls that read, seed, change and judge *)
(* by it, each process's reads and writes a step: adds, retags, declares,  *)
(* permits (a declare that adds one), revokes, exports, and the import of  *)
(* the rules a config file still holds.                                    *)
(*                                                                         *)
(* A retag and a seeding are shaped on the stream as the kernel loaded it  *)
(* and sent at that head; a declare is decided there.  A conflict loads    *)
(* again.  Task streams are not purged here, so a head is not met twice.   *)
(***************************************************************************)
EXTENDS TagRules

CONSTANTS
  Harps,         \* tasks' harps
  Procs,         \* processes
  Requests,      \* process -> the calls it may make
  MaxCalls,      \* bound: process -> how many calls it makes
  OldSchemas,    \* sets of tags a store from before allowlists may hold
  Files,         \* what a config file may hold when an edit puts rules in it
  MaxEdits,      \* bound: edits of the config file
  EditsBesideImport,  \* whether a file may be edited as an import runs
  TagsHeld       \* sets of tags a task may hold at the start

VARIABLES
  schema,    \* the schema stream, folded, and its head
  tasks,     \* harp -> the tags the task there holds, and its head
  file,      \* the work root's config file: the moved keys, and the rest
  edits,     \* edits of it so far
  calls,     \* process -> the call it is in
  begun,     \* process -> calls begun
  owed,      \* history: config tags a file held, no declare nor edit took away since
  since      \* history: process -> the rules there were since its call began

vars == <<schema, tasks, file, edits, calls, begun, owed, since>>

\* A config file's moved keys and its others; edit::retired.
WithoutMoved(f) == [f EXCEPT !.schema = {}, !.permits = {}]
Moved == file # WithoutMoved(file)

Unread == [tags |-> {}, declared |-> FALSE, head |-> 0]
Nothing == [tags |-> {}, head |-> 0]
Unshaped == [add |-> {}, remove |-> {}, head |-> 0]
NoDeclare == [add |-> {}, remove |-> {}]
Idle == [pc |-> "idle", op |-> "none", harp |-> "none", add |-> <<>>, remove |-> {},
         declare |-> NoDeclare, rules |-> {}, schema |-> Unread, shaped |-> Unshaped,
         answer |-> "none"]

\* A request names its operation and what it is given.
AddRequest(harp, tags) == [Idle EXCEPT !.op = "add", !.harp = harp, !.add = tags]
RetagRequest(harp, add, remove) ==
  [Idle EXCEPT !.op = "retag", !.harp = harp, !.add = add, !.remove = remove]
DeclareRequest(add, remove) ==
  [Idle EXCEPT !.op = "declare", !.declare = [add |-> add, remove |-> remove]]
PermitRequest(pattern) == DeclareRequest({PermitTag(pattern)}, {})
RevokeRequest(pattern) ==
  [Idle EXCEPT !.op = "revoke", !.declare = [add |-> {}, remove |-> {PermitTag(pattern)}]]
ImportRequest == [Idle EXCEPT !.op = "import"]
ExportRequest == [Idle EXCEPT !.op = "export"]

Operations == {"add", "retag", "declare", "revoke", "import", "export"}

\* A request is a call not begun; an import takes its declare from the file,
\* whose permits that it declared the old way, among its rules, are presences.
ASSUME RequestsAssumption ==
  /\ \A c \in Procs : \A r \in Requests[c] :
       /\ r \in [pc: {Idle.pc}, op: Operations, harp: {r.harp}, add: {r.add}, remove: {r.remove},
                 declare: [add: {r.declare.add}, remove: {r.declare.remove}],
                 rules: {Idle.rules}, schema: {Idle.schema}, shaped: {Idle.shaped},
                 answer: {Idle.answer}]
       /\ r.op \notin {"declare", "revoke"} => r.declare = NoDeclare
  /\ \A f \in Files :
       /\ f \in [schema: {f.schema}, permits: {f.permits}, rest: {f.rest}]
       /\ \A old \in f.schema : old.facet = "permit" => old.values = {NoValue}

\* Requests, files and what a store holds at the start are of tags.
ASSUME TypesAssumption ==
  /\ \A c \in Procs : \A r \in Requests[c] :
       /\ r.op \in {"add", "retag"} => r.harp \in Harps
       /\ r.add \in Seq(Tags) /\ r.remove \subseteq Tags
       /\ r.declare.add \cup r.declare.remove \subseteq ConfigTags
  /\ \A f \in Files :
       /\ f.permits \subseteq Patterns
       /\ \A old \in f.schema : \A v \in old.values :
            [facet |-> old.facet, of |-> old.of, value |-> v] \in ConfigTags
  /\ \A old \in OldSchemas : old \subseteq ConfigTags
  /\ \A held \in TagsHeld : held \subseteq Tags /\ IsFiniteSet(held)
  /\ MaxEdits \in Nat

TypeOK ==
  /\ schema \in [tags: SUBSET ConfigTags, declared: BOOLEAN, head: Nat]
  /\ tasks \in [Harps -> [tags: SUBSET Tags, head: Nat]]
  /\ edits \in 0..MaxEdits
  /\ \A c \in Procs :
       /\ calls[c].pc \in {"idle", "rules", "read", "list", "seed", "seed_commit", "seeded",
                           "judge", "commit", "declare", "retire"}
       /\ calls[c].declare.add \cup calls[c].declare.remove \subseteq ConfigTags
       /\ calls[c].rules \subseteq ConfigTags
       /\ calls[c].shaped \in [add: SUBSET Tags, remove: SUBSET Tags, head: Nat]
       /\ since[c] \subseteq SUBSET ConfigTags
  /\ owed \subseteq ConfigTags

Init ==
  /\ schema \in {Unread} \cup {[tags |-> old, declared |-> TRUE, head |-> 1] : old \in OldSchemas}
  /\ tasks \in [Harps -> {Nothing} \cup {[tags |-> held, head |-> 1] : held \in TagsHeld}]
  /\ \E f \in Files : file = WithoutMoved(f)
  /\ edits = 0
  /\ calls = [c \in Procs |-> Idle]
  /\ begun = [c \in Procs |-> 0]
  /\ owed = {}
  /\ since = [c \in Procs |-> {}]

------------------------------------------------------------------------------
Goes(c, call) == calls' = [calls EXCEPT ![c] = call]
To(c, pc) == Goes(c, [calls[c] EXCEPT !.pc = pc])
Ends(c, said) == Goes(c, [Idle EXCEPT !.answer = said])

\* The schema stream after a step, and the rules each call then has seen.
Schema(next) ==
  /\ schema' = next
  /\ since' = [c \in Procs |->
       IF calls[c].pc = "idle" THEN since[c] ELSE since[c] \cup {RulesOf(next)}]

\* What an add and a retag are held to alone, before anything is read.
AddRefused(request) == \E i \in DOMAIN request.add : ~Admissible(request.add[i])
RetagRefused(request) ==
  \/ request.add = <<>> /\ request.remove = {}
  \/ \E i \in DOMAIN request.add : ~Admissible(request.add[i])

\* A call begins, refused while a config file still sets a moved key; an
\* import, which moves them, reads what it will declare instead.
Begin(c, request) ==
  LET refused ==
        \/ request.op = "add" /\ AddRefused(request)
        \/ request.op = "retag" /\ RetagRefused(request)
        \/ request.op = "declare" /\ ~IsDeclare(request.declare)
        \/ Moved
      first ==
        CASE request.op = "add" -> "rules"
          [] request.op = "revoke" -> "read"
          [] OTHER -> "seed" IN
  /\ calls[c].pc = "idle"
  /\ begun[c] < MaxCalls[c]
  /\ request.op # "import"
  /\ begun' = [begun EXCEPT ![c] = @ + 1]
  /\ since' = [since EXCEPT ![c] = {RulesOf(schema)}]
  /\ IF refused THEN Ends(c, "refused") ELSE Goes(c, [request EXCEPT !.pc = first])
  /\ UNCHANGED <<schema, tasks, file, edits, owed>>

BeginImport(c, request) ==
  /\ calls[c].pc = "idle"
  /\ begun[c] < MaxCalls[c]
  /\ request.op = "import"
  /\ begun' = [begun EXCEPT ![c] = @ + 1]
  /\ since' = [since EXCEPT ![c] = {RulesOf(schema)}]
  /\ Goes(c, [request EXCEPT !.pc = "seed", !.declare.add = ImportedTags(file)])
  /\ UNCHANGED <<schema, tasks, file, edits, owed>>

\* An add is judged by the rules as read before anything is made.
AddJudged(c) ==
  /\ calls[c].pc = "rules"
  /\ IF Sound(Validate(RulesOf(schema), {}, Kept(RulesOf(schema), calls[c].add), {}))
     THEN To(c, "seed") ELSE Ends(c, "refused")
  /\ UNCHANGED <<schema, tasks, file, edits, begun, owed, since>>

\* A revoke reads the rules, writing nothing, and then lists the tasks.
RevokeRead(c) ==
  /\ calls[c].pc = "read"
  /\ IF calls[c].declare.remove \subseteq RulesOf(schema) THEN To(c, "list") ELSE Ends(c, "refused")
  /\ UNCHANGED <<schema, tasks, file, edits, begun, owed, since>>

RevokeList(c) ==
  LET pattern == (CHOOSE tag \in calls[c].declare.remove : TRUE).of IN
  /\ calls[c].pc = "list"
  /\ IF Carrying(tasks, pattern) = {} THEN To(c, "seed") ELSE Ends(c, "refused")
  /\ UNCHANGED <<schema, tasks, file, edits, begun, owed, since>>

\* Where a call goes on with the store's rules once the stream is seeded; an
\* import's rules are read again by the declare it makes of them.
Seeded(c, rules) ==
  LET call == [calls[c] EXCEPT !.rules = rules] IN
  CASE call.op \in {"add", "retag"} -> Goes(c, [call EXCEPT !.pc = "judge"])
    [] call.op \in {"declare", "revoke", "importing"} -> Goes(c, [call EXCEPT !.pc = "declare"])
    [] call.op = "import" -> Goes(c, [call EXCEPT !.pc = "seeded"])
    [] call.op = "export" -> Ends(c, "done")

\* seed_in: the schema read; nothing is sent where it holds what it is read as.
ReadSchema(c) ==
  /\ calls[c].pc = "seed"
  /\ IF IsDeclare(Seeding(schema))
     THEN Goes(c, [calls[c] EXCEPT !.pc = "seed_commit", !.schema = schema])
     ELSE Seeded(c, RulesOf(schema))
  /\ UNCHANGED <<schema, tasks, file, edits, begun, owed, since>>

\* Mutant of SeedCommit: the seeding is sent whatever the head.
SeedCommitUnlooked(c) ==
  /\ calls[c].pc = "seed_commit"
  /\ Schema([tags |-> RulesOf(calls[c].schema), declared |-> TRUE, head |-> schema.head + 1])
  /\ Seeded(c, RulesOf(calls[c].schema))
  /\ UNCHANGED <<tasks, file, edits, begun, owed>>

\* The seeding, shaped on the schema loaded, at its head; else loaded and
\* shaped again, when it may be seeded by then.
SeedCommit(c) ==
  LET loaded == calls[c].schema IN
  /\ calls[c].pc = "seed_commit"
  /\ \/ /\ schema.head = loaded.head
        /\ Schema(Declared(schema, Seeding(loaded)))
        /\ Seeded(c, RulesOf(schema'))
     \/ /\ schema.head # loaded.head
        /\ To(c, "seed")
        /\ UNCHANGED <<schema, since>>
  /\ UNCHANGED <<tasks, file, edits, begun, owed>>

\* Mutant of ImportSeeded: the keys leave the file before they are declared.
ImportRetiresFirst(c) ==
  /\ calls[c].pc = "seeded"
  /\ file' = WithoutMoved(file)
  /\ Goes(c, [calls[c] EXCEPT !.pc = "seed", !.op = "importing"])
  /\ UNCHANGED <<schema, tasks, edits, begun, owed, since>>

\* An import with nothing to declare goes on to the file; else what it
\* declares is declared as any declare is, seeding first.
ImportSeeded(c) ==
  /\ calls[c].pc = "seeded"
  /\ IF calls[c].declare.add = {} THEN To(c, "retire")
     ELSE Goes(c, [calls[c] EXCEPT !.pc = "seed", !.op = "importing"])
  /\ UNCHANGED <<schema, tasks, file, edits, begun, owed, since>>

\* The declare, decided on the stream as it is appended to.
DeclareCommit(c) ==
  LET declare == calls[c].declare IN
  /\ calls[c].pc = "declare"
  /\ Schema(Declared(schema, declare))
  /\ owed' = owed \ declare.remove
  /\ IF calls[c].op = "importing" THEN To(c, "retire") ELSE Ends(c, "done")
  /\ UNCHANGED <<tasks, file, edits, begun>>

\* The moved keys taken out of the file as it is by then.
Retire(c) ==
  /\ calls[c].pc = "retire"
  /\ file' = WithoutMoved(file)
  /\ Ends(c, "done")
  /\ UNCHANGED <<schema, tasks, edits, begun, owed, since>>

\* A retag shaped on the task as loaded, and judged; an add on a free harp.
\* Nothing is on a retag's harp: the domain refuses it.
Judge(c) ==
  LET call == calls[c]
      held == tasks[call.harp].tags
      add == Kept(call.rules, call.add)
      remove == call.remove \cup Displaced(call.rules, held, call.add)
      there == tasks[call.harp].head > 0 IN
  /\ call.pc = "judge"
  /\ IF there # (call.op = "add") /\ Sound(Validate(call.rules, held, add, remove))
     THEN Goes(c, [call EXCEPT !.pc = "commit", !.shaped =
            [add |-> add, remove |-> remove, head |-> tasks[call.harp].head]])
     ELSE Ends(c, "refused")
  /\ UNCHANGED <<schema, tasks, file, edits, begun, owed, since>>

\* The add or retag shaped, folded into the task on the harp.
Retag(c) ==
  LET shaped == calls[c].shaped IN
  /\ tasks' = [tasks EXCEPT ![calls[c].harp] =
       [tags |-> Retagged(@.tags, shaped.add, shaped.remove), head |-> @.head + 1]]
  /\ Ends(c, "done")

\* Mutant of CommitTask: what was shaped is sent whatever the head.
CommitTaskUnlooked(c) ==
  /\ calls[c].pc = "commit"
  /\ Retag(c)
  /\ UNCHANGED <<schema, file, edits, begun, owed, since>>

CommitTask(c) ==
  LET unmoved == tasks[calls[c].harp].head = calls[c].shaped.head IN
  /\ calls[c].pc = "commit"
  /\ \/ unmoved /\ Retag(c)
     \/ ~unmoved /\ To(c, "judge") /\ UNCHANGED tasks
  /\ UNCHANGED <<schema, file, edits, begun, owed, since>>

\* A process dies, or a failure no retry mends, between any two steps.
Fail(c) ==
  /\ calls[c].pc # "idle"
  /\ Ends(c, "failed")
  /\ UNCHANGED <<schema, tasks, file, edits, begun, owed, since>>

Importing == \E c \in Procs : calls[c].op \in {"import", "importing"} /\ calls[c].pc # "idle"

\* A person, or a checkout of an older revision, puts the moved keys back, or
\* takes away some not in the store yet.
EditFile ==
  /\ edits < MaxEdits
  /\ EditsBesideImport \/ ~Importing
  /\ \E f \in Files :
       /\ file' = f
       /\ owed' = (owed \cap schema.tags) \cup ImportedTags(f)
  /\ edits' = edits + 1
  /\ UNCHANGED <<schema, tasks, calls, begun, since>>

Step(c) ==
  \/ AddJudged(c) \/ RevokeRead(c) \/ RevokeList(c) \/ ReadSchema(c) \/ SeedCommit(c)
  \/ ImportSeeded(c) \/ DeclareCommit(c) \/ Retire(c) \/ Judge(c) \/ CommitTask(c)

Next ==
  \/ \E c \in Procs :
       Step(c) \/ Fail(c) \/ \E request \in Requests[c] : Begin(c, request) \/ BeginImport(c, request)
  \/ EditFile

Spec == Init /\ [][Next]_vars

\* What lint finds, by the store's rules, of the tasks there, those `closed` in a
\* terminal status.
LintOf(rules, held, closed) ==
  UNION {{[harp |-> h, finding |-> f] : f \in RuleFindings(rules, held[h].tags, h \in closed)} :
           h \in Harps}

------------------------------------------------------------------------------
(* Properties. *)

\* The rules a store is read by are one set that only declares change: a
\* seeding, which writes what the store was read as already, changes nothing
\* of what any reader reads, whatever was declared between its read and its
\* write (schema.rs, seed_in); and a permit is there from the declare that
\* adds it to the one that removes it.
Book == INSTANCE RuleBook WITH
  rules <- RulesOf(schema),
  Older <- {Allowlisted(old) : old \in OldSchemas},
  Declares <- {request.declare : request \in UNION {Requests[c] : c \in Procs}}
                \cup {[add |-> ImportedTags(f), remove |-> {}] : f \in Files}
ImplementsRuleBook == Book!Spec

\* A task holds one value of a scalar target, however many writers give it one
\* at once (tags.rs, collapse; change.rs, retag).
OneValuePerScalar ==
  \A h \in Harps : \A a, b \in tasks[h].tags :
    a.target = b.target /\ IsScalar(RulesOf(schema), a.target) => a = b

\* A write leaves lint nothing to say of the store's tasks that it did not say before,
\* by some rules the store had while the call ran: rules revoked or declared
\* since its read may be missed, but never rules that stood before it began,
\* nor another write to the task (change.rs, retag; add.rs, add; lint.rs).
JudgedWithinCall ==
  [][\A h \in Harps : tasks'[h] # tasks[h] =>
       \E c \in Procs :
         /\ calls[c].harp = h
         /\ \E rules \in since[c] : \A closed \in SUBSET Harps :
              LintOf(rules, tasks', closed) \subseteq LintOf(rules, tasks, closed)]_vars

\* Nothing a config file declared is lost on its way into the store: until a
\* declare takes it away it is in the file or among the store's rules, an
\* import dying or racing another at any step (permit.rs, import_config).
MovedKept == owed \subseteq RulesOf(schema) \cup ImportedTags(file)
=============================================================================
