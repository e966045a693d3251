# taskloom in TLA+

TLA+ models of taskloom's core, the TLC configurations that check them and the
proofs TLAPS checks. taskloom keeps a project's tasks and plans as event streams
in one store, which command lines, an editor and a watcher open at once, each a
process of its own. Nothing coordinates the processes but the store (a command is
decided on its stream as loaded and appended only if the stream has not moved) and,
for which project a directory is, one lock file. The models are about what that
leaves to go wrong.

All paths below are under `src/crates` unless they say otherwise.

## 1. The system

| component | state | operations | talks to |
|---|---|---|---|
| task aggregate, `core/domain/tasks` | one task, folded from its stream | AddTask, SetStatus, EditText, Retag, RemoveTask; `apply` | decided and folded by the kernel |
| plan aggregate, `core/domain/plans` | one plan, folded from its stream | Add, SetStatus, Govern/Ungovern, Supersede/Unsupersede, MarkSuperseded/Reinstate, Rehash | as above |
| tag schema, `core/domain/tasks/schema`, `tasks-application` schema, rules, permit, tags | a store's config tags, folded from one stream; older ones in a config file | seed, declare, permit, revoke, import_config, export; rules judged by add, retag, lint | kernel runner, configuration |
| `core/application/tasks-application` | none of its own but the task lists of its reads | add, set_status, edit, retag, prune, list, show, summary, statuses, tags, lint, watch, import | kernel runner, store, lists, registry, configuration |
| `core/application/plans-application` | none | add, status, link, unlink, list, show, check, import, governing | as above, the work tree's files, the tasks |
| `core/application/kernel-runner` | the attempts of one command | run, shaped, again; the lists' catch-up | the kernel (a library), the clock |
| `core/read-model/task-lists`, `plan-lists`, `task-priority` | projections of every stream, caught up before they are read | project, forget, entries, unpurged, by_path, governing, rank | the kernel's catch-up |
| `adapters/driven/project-registry`, `core/application/project-application` | an index file and a marker in each project | bind, mint, resolve, show, heal, repoint, orphans | the file system |
| `adapters/driven/task-store-sqlite` | the one store held open | open, hold | the event store (a library) |
| `adapters/driving/tasks-watch` | a debounce's burst | tick, stream | the store's change token |
| `adapters/driven/*` (configuration, files, names, clock, JSONL log) | files | read, write, mint | the file system |
| `adapters/driving/*` (command lines, presentation) | none | parse, render | the applications |

### Where it is hard

* **Two steps that are not one.** An add under a request key looks for its own
  add on each of its harps (a task's name, and its stream's key), then adds on
  the first that is free. A prune removes a task and then purges its stream. A
  supersede link writes two streams. A purge reads a stream and then deletes it at
  the head it read. Other processes run between any two of these, and the process
  may die there.
* **Retries.** The kernel tries a command again when its head has moved or the
  store could not say; a caller sends the request again when it got no answer.
  What landed with its answer lost must not land twice.
* **Names come back.** A purge frees a harp, and another task may be minted on
  it. Whatever was decided about the harp before is then about another task.
* **Files without a transaction.** Which project a tree is rests on a marker in it,
  an older marker, an index and the databases' directories. A bind writes two of
  them, a heal or a repoint the same two, and one write goes around the lock that
  orders the others.
* **Rules read, then applied.** A write is judged by the store's tag rules as it read
  them; the rules are seeded, declared, revoked and moved out of a config file
  meanwhile, each in a read and a write.
* **Views behind what they show.** A list is caught up from where it was; a stream may
  have been purged since, and another begun on its name. A watch reports that
  something moved after a pause that must end.
* **Work done record by record.** The JSONL import and the plan import stop anywhere
  and are run again, on stores their users go on using.
* **Long histories.** A task deferred, deferred again, moved, cleared and removed,
  in any order, with a clock that may step back, on a stream an older version
  began.

### What makes each component correct

* task aggregate: status, trigger, the status to return to and the instant of the
  deferral are one account of one history; a removed task takes no change.
* calls on the store: one request, one effect, one task; a stream is one task's;
  only removed tasks are purged and only qualifying ones removed; half-done prunes
  are finished; every call is answered.
* plans: superseded exactly while superseded by someone; links close no cycle but
  by a race, end on both plans or on neither unless undone meanwhile, and are undone
  only by their own unlink.
* lists: what is read is the store's live tasks at one moment, across purges; a
  listing accounts for every task it matches, ranked in the whole project.
* registry: a tree's project changes only by a repoint, whatever was half written;
  trees become one project only where that was meant; a heal leaves nothing wrong it
  could mend; a live tree's database is never removed.
* watch: whoever reads on its lines comes to see what is there, however busy the store.
* store rules: one set of rules that only declares change; nothing a config file
  declared is lost on its way in; a scalar has one value; a write is judged by rules
  the store had while it ran.
* imports: what arrives is what the log says, once, without touching a user's own
  tasks, and a complete import left nothing behind; a plan file has one plan, and a
  task's tag goes only once its link is made.

## 2. Modules

| module | models |
|---|---|
| `TaskRules` | the tasks domain's pure rules: decide and apply. No variables. |
| `TaskAggregate` | one stream and its folded task, running those rules on any command at any instant |
| `TaskAggregate_proofs` | theorems about what a task holds and takes, and how it relates to its stream |
| `TaskStore` | several processes' calls on one store, each read and write a step, deciding by `TaskRules` |
| `RequestBook` | the abstract specification `TaskStore` implements for keyed adds |
| `TaskStore_proofs` | theorems, beside any prunes: no task merged into another's stream; prunes finished, and true to what they read; one task a request, and its own answer; without prunes, one effect a request and the implementation of `RequestBook` |
| `PlanLinks` | plans of a store, and the links and unlinks of several processes |
| `PlanLinks_proofs` | theorems, for any callers at once: superseded by one, links end whole, cycles only by a race |
| `ProjectRegistry` | trees' markers, the registry's index, lock and databases; a write's resolution, heal, repoint and the removal of orphans by several processes |
| `ProjectRegistry_proofs` | theorems: types, removals of orphans alone, projects that stand, merges that are meant, heals that end whole |
| `TagRules` | a store's rules as config tags: how a schema is read, seeded and declared, how tags are collapsed, judged and linted. No variables. |
| `StoreRules` | the schema stream, tasks' tags and a config file, under several processes' calls |
| `StoreRules_proofs` | theorems: nothing a config file declared is lost on its way in; `StoreRules` implements `RuleBook`; writes judged, one value a scalar, types |
| `RuleBook` | the abstract specification of a store's rules, which `StoreRules` implements |
| `TaskPriority` | scores, ages and ranks of a population of tasks. No variables. |
| `TaskReads` | what each read answers of the rows gathered: filters, tag queries, order, limit, counts. No variables. |
| `Readers` | a service's lists, its held store, its calls and its watch, beside the processes that write |
| `Readers_proofs` | theorems: `Readers` implements `LiveTasks`; a quiet watch's view is current; a listing is complete; types |
| `LiveTasks` | the abstract specification of what a reader sees, which `Readers` implements |
| `TaskLog` | a JSONL log: parsed, put in replay order, folded into steps. No variables. |
| `JsonlImport` | imports of several projects' logs, record by record |
| `LoggedTasks` | what a log says of a task, by its records alone, and what the last theorem asks of logs. No variables of its own. |
| `JsonlImport_proofs` | theorems: an import writes to no user's task, records nothing twice, leaves nothing behind that it says it did not, and makes the tasks its log says |
| `PlanRules` | a plan's rules and fold, the plan list's fold, and paths. No variables. |
| `PlanFiles` | the plan calls over streams, plan files and tasks' tags |
| `PlanFiles_proofs` | theorems: the list agrees with the streams; no import loses a link; a file has one plan; types |
| `MC*` | the sets each configuration gives the constants |

### Correspondence

**TaskRules.** `Decide` is the aggregate's handlers (`aggregate.rs`), `CheckRefusal`
is `tasks::check`, which callers run first; the order of the tests in each
`*Refusal` operator is the code's, since it says which refusal is answered. A
command's optional field is Absent, given empty, given blank or given; the
difference matters (a trigger given empty is a clearing). Texts are one value and
tags a set; `normalized` sorts them, which no rule reads. `Unresolved` (a taxonomy
name empty) cannot arise: the application always sends both, as
`TaxonomyAssumption` says.

**TaskAggregate.** `log` is the stream with each event's recorded instant, `task`
the fold of it, one action a command. `Purge` is the last step of a prune. An
older version's add carried its own instants; `LegacyAdds` begins a stream with
one.

**TaskStore.** `streams` is the store. A call is a record: its `pc` says which
step comes next, `loaded` is the pages the command was decided by, `tries` counts
failures, one count for the runner's two caps (failures, and races with other writers). `Look` and `ReadOwn` are `own_add` and `task_now`; `Load` and `Commit`
the kernel's load, decide and append, as run for an add or a change; `LoadRemoval`
the prune's, shaped by the task as loaded; `List`, `Take`, `LoadPurge`, `PurgeAt`
the rest of a prune; `Fail` a process that dies or a failure no retry mends, at any
step. `purges` is history only: it tells the stream a prune listed from a later one
on the same harp. So is a call's `seen`, the harp's purges when the call read what it
goes on: no guard reads it, and it lets a property say "unless it was purged since".

The kernel and the store are libraries outside the repository. They are modelled
from their use here: heads are told apart by number alone (`purge_removed` passes
the store a number, and a stream starts again from 0 after a purge, as
`TaskList::project`'s doc and the prune's tests have it); a command id already on
the stream is answered DUPLICATE; an append or a purge at a moved head is a
conflict, and the command is loaded and decided again.

**RequestBook.** One variable: the harp each request's task is at. A request's
task is added when it is nowhere, on a harp no other request's is at, and never
moves; a prune frees it. `TaskStore!Book` reads it off the streams: the harp that
holds an event the key's command id caused.

**PlanLinks.** `plans` is each stream's fold. Two callers' link and unlink, with
the plan list read once (`LinkRead`), the two streams an unlink loads
(`UnlinkReadLinked`, `UnlinkReadMarked`), and one action for each of the four
commits. A commit is atomic, as the kernel decides it on the head it appends to; a
plan's stream is never purged, so the head never returns. `Fail` may follow any of
them, a commit that landed included. `beside` is history: the kinds of write other
calls made since a call read what it goes by, which no guard reads.

**ProjectRegistry.** `marker` and `legacy` are each tree's `.project-id` and
`.ctxloom/project-id`, `index` the entries of `index.yaml` in order, `databases` the
directories under the projects directory, `live` the trees that exist. A write is
`FindRoot` (`identity_root`), `ReadMarkers` and `ReadEntry` (`bound`; both markers are
read in one step, since nothing writes an older one between), `Adopt` (its write of an
older marker), `TakeLock`, the same steps again under the lock, `Mint`
(`bind` up to its save of the index), `Mark` and `OpenStore`. A change is `Survey`
(`survey_of` and what heal, repoint or remove_orphans plan from it), `TakeLock`,
`Recheck`, `Save` (the index, in one atomic write), then `Mark` or one
`RemoveDatabase` for each. A plan is a record of sets: which entries are added and
dropped, whether a marker is written, which databases go; `bind`'s list order does
not matter, as it never adds an entry it drops. A survey is taken in one step: one
torn by another's writes is refused at the recheck or equals a whole one. `Fail`
is a process's death or an error between any two steps; the operating system then
drops its lock. `Vanish` deletes a tree no call is in. `StaleWorktree` is the error
for a worktree whose primary checkout is gone. `Problems` is what `show` reports of a
survey, and `Unresolved` what a heal says it cannot mend.

**TagRules and StoreRules.** A tag is a target and a value; a rule is a config tag, a
facet of a target or namespace and a value. tagma, which parses and matches them, is
a library: a permit admits its target or every target of its namespace, an arity
makes a target scalar, an enum bounds its values, keys bounds how many of a
namespace's targets a task has. `schema` is the schema stream folded, with its head:
a call holds the pages it loaded, so `SeedCommit` and `CommitTask` compare heads,
while `DeclareCommit` is decided as it is appended. `rules` are those a call holds
from its seeding. `file` is the config file; its moved keys are `schema` and
`permits`, and every call but an import is refused while it holds one. `owed` and
`since` are history.

**TaskPriority, TaskReads and Readers.** `streams` is each project's store, `births`
tells a stream from a later one on its harp, `lists` is the service's `TaskList` of
each project with the place of each stream its catch-up left. `Fold`, `Projected`
and `Forgotten` are `TaskList::project`, `list` and `forget`; `CaughtUp` is
`ProjectLists::caught_up`, one moment of the store, after which a stream that failed
stays where it was. A call is `Ask`, one `Gather` for each project in its scope
(`hold_existing` and the catch-up), and `Respond`. The answers are `TaskReads`'s and
`TaskPriority`'s operators. Formulas are constants of a project: the rules a reader
gets them from change in `StoreRules`. Scores are integers times `Scale`, so that the
ranks of up to three tasks are exact. `Debounced` is `Debounce::tick`, whose burst
is counted in ticks; `moved` stands for the token compared with the last poll's;
`Requery` is the subscriber. A service's reads and its polls go through the one store
it holds.

**TaskLog and JsonlImport.** A record stands for the id its line derives. `Stepped`
is `Fold::step`, which turns a record into a command to run, nothing to do, or a
loss. `StepRecord` folds the next record and looks for its id in its task's stream
(`find_command`), `RunRecord` runs it at the record's instant: the kernel's handling
of the command is one step here, as `TaskStore` has its steps. `ReadLog` takes the log
as it is; `AppendLine` lengthens it, in the order of its instants. A user's command is a page no record derives.

**PlanRules and PlanFiles.** A path is its components, absolute or under the work
root, so that `Located` is `locate` with its `.` and `..`; a text stands for its
hash. An event is the command that recorded it. A call's reads that follow one
another with no write of its own between are one step; each commit, file made, and
tag retired is a step. A file made (`Creates`) is whole in that one step, where
`plan-files` opens it new, writes it and syncs it: a crash between may leave an empty
or torn file there, and the file's name taken, which the models do not show. No
property depends on the text of a file left half written. `List` is the plan list
caught up. The loops over tasks and
groups take what they take in one order (`First`).

The map gives `Next` and `Spec` of these modules the service's dispatch, which is
where the calls of one component are told apart.

## 3. Runs

| run | bounds | what it shows |
|---|---|---|
| `TaskAggregate` | 4 events, 2 instants, 2 triggers, every command type | the folded task agrees with its stream |
| `TaskStoreAdds` | 3 processes, 2 keys, 2 harps, 2 tries | concurrent attempts of one add and one change |
| `TaskStorePrunes` | 3 processes, 1 keyed add sent twice, 2 prunes, or 1 and another's add | purge, retry and answer together |
| `TaskStoreMoves` | 2 processes, one of 2 calls and a prune | prunes racing each other, status changes and adds; every call ends |
| `TaskStoreRemint` | 2 prunes, 1 caller | finding 1 |
| `PlanLinks` | 3 plans, 2 callers at once, of 2 calls and 1, failures | links end whole unless undone meanwhile, cycles only by a race |
| `PlanFiles` | 2 plans, 2 tasks, 4 files, a writer of 2 calls, a reader of 1, one edit or prune or command beside, one death | a file has one plan, no link is lost with its tag, the list agrees with the streams |
| `ProjectRegistry` | 2 processes of 2 calls, 3 trees, 3 ids, 4 starts | resolutions stand, merges are meant, heals end whole, removals are of orphans |
| `StoreRules` | 2 processes of 2 calls, 5 targets, 1 task, 1 edit | one book of rules, nothing declared lost, one value a scalar, judged by rules of the time |
| `Readers` | 2 projects of 2 harps, 4 writes, 1 call, 1 failure, a ceiling of 2 ticks | reads are of the store, listings complete, the watch catches up |
| `JsonlImport` | 2 importers, 2 projects, 2 harps, logs of up to 8 records, 2 imports, 1 user's command, 1 stop | the log arrives, once, and what it does not own is left |
| `JsonlImportAgain` | 1 project, 2 records, a user's two commands | finding 2 |

Why the bounds are enough for these questions:

* two harps are the fewest on which an add probes past one; each key's order begins
  at another harp, so that two requests contend for both;
* two tries are the fewest that lose an answer and send again, and end;
* four events on a stream take it through an add, a deferral, a second and a
  clearing, or a removal and what follows; a purge starts it again, so histories of
  any length are reached with four events held;
* three plans make a cycle longer than two links, which takes three links: two calls
  of one caller and one of another's, racing or not. A symmetry takes the plans for
  each other, which nothing tells apart;
* a checkout, a worktree of it and a tree apart are the shapes an identity's root
  takes; the four starts hold nothing but an orphan, an older marker beside two
  entries, a clone whose marker is another tree's id, and a blank marker. Two
  processes of two calls let one change what the other surveyed or read, and let a
  later call find what a dead one left;
* a store new and one from before allowlists, a scalar target, a namespace of one key
  a task, a retired target and a reserved namespace are what the rules tell apart;
  two calls each let a call run on what another left half done;
* four writes add, prune, purge and mint again on one harp while the other has a
  task; a ceiling of two ticks is the least that withholds a line and must give it;
* the logs hold the cases the fold tells apart (`MCJsonlImport` lists them), whole or
  with records still to be written, and two imports are one that stopped and one run
  again, or two at once;
* one plan file inside the work root is named three ways, one is outside it, and one
  file is no plan's: two plans are the fewest one file may get, and two calls an
  import or an add that died and the same again.

### What the inputs leave out

Where a property holds only of part of what the code allows, the run's inputs are
that part, and the rest is a finding or listed in section 5. Other properties name the
race they do not survive instead, and their runs have it: an answer is a request's own
"unless it was purged since" (`OwnAnswer`), a prune takes what it may "unless" likewise
(`PrunesAsRead`), a cycle is closed "only by a link raced by another"
(`CyclesOnlyRaced`), a link ends whole "unless another undid it" (`LinksEndWhole`).

* `TaskStorePrunes` sends each request from one process at a time: with two, a request
  adds two tasks (finding 4).
* `OneEffectPerRequest` and `ImplementsRequestBook` are checked without a prune beside
  the adds: a purge takes the record of what was done with it.
* `PlanFiles` has one client that writes plans.
* `ProjectRegistry` repoints no tree an older version marked.
* `StoreRules` revokes no store's last permit, and its config file is not edited while
  an import runs (`EditsBesideImport`): what an edit adds between the import's read
  and its write of the file is taken out with the rest.
* `Readers`' newer version writes pages this one cannot read, and purges none of them
  (`NewerPurges`).
* `JsonlImport`'s logs grow in the order of their instants, and its users purge
  nothing: a record appended before others of its task is run after them, and a log
  imported again after its tasks were purged adds them again.
* `FileOnePlan` speaks of copies not rehashed: an import finds an outside file's copy
  by its text, so a copy edited, and rehashed by a read, is not found and the file is
  copied again. A copy edited, read and imported again is three things beside: the
  run's bound of one does not reach it, and a bound of two does.
* `PlanFiles` unlinks nothing while an import runs (an import reads what a plan governs
  once). A `check` may call a plan unregistered that was added between its list and
  its look at the files.

**Fairness.** `EveryCallEnds` assumes weak fairness of `Step(c)`, each process's
next step: a process that has not died is scheduled, and the code never waits on
another process (`Runner::again` sleeps a bounded time; the store's lock wait is
bounded by its own timeout, outside the repository). `ViewCatchesUp` assumes it of
`Tick` (the watch's timer, which `stream` awaits in a loop), of the calls the service
has begun, and of the subscriber's acting on a line it was given. Nothing is assumed
of `Begin`, `Ask`, the writers, or of what fails or dies.

`TaskAggregate` checks for deadlock: a removed task can always be purged, and a
command refused is still a step. The other runs do not: their callers make a bounded
number of calls and then stop.

## 4. Proofs

`TaskAggregate_proofs`, for every taxonomy, set of commands, clock and bound:

* `TypeCorrect`: `Spec => []TypeOK`;
* `DeferralAlwaysWhole`: `Spec => []DeferralHeldWhole`;
* `RemovalAlwaysEnds`: `Spec => []RemovalEndsStream`.

The inductive invariant `IInv` joins the type invariant and the deferral's
wholeness with `EmptyStreamHoldsNoTask`, because an add does not read the task it
folds into: only a stream with no events, which holds the default task, is added
to. The argument goes by what is recorded: `EventWhole` says which events keep a
task whole, `DecideAddWhole` and `DecideSetStatusWhole` that nothing else is
decided, `Apply*Whole` that folding one leaves a whole task. The same invariant
needs a removed task's stream to show it (`RemovalShows`) before it says anything of
what follows a removal. It assumes `TaxonomyAssumption` (the deferring and the initial
status differ), `NamesAssumption`, and that an old add wrote whole events.

And, under the same assumptions, for streams of any length:

* `DeferredSinceAlwaysLast`: `Spec => []DeferredSinceLastDeferral`;
* `ReturnsAlwaysToStatusLeft`: `Spec => []ReturnsToStatusLeft`;
* `ClearingAlwaysRevives`: `Spec => ClearingRevives`.

These say what a task holds of events far back on its stream. They are proved
together (`HInv`): the status to return to is the status of the last event before
the deferral began, so it needs `LastStatusHeld`, that the task's status is the last
status its stream says, and an appended event moves neither.

`PlanLinks_proofs`, for any number of plans and processes, calls and failures:

* `PlanTypeCorrect`: `Spec => []TypeOK`;
* `SupersededAlwaysByOne`: `Spec => []SupersededByOne`;
* `CyclesAreRaced`: `Spec => CyclesOnlyRaced`;
* `LinksAlwaysEndWhole`: `Spec => LinksEndWhole`.

`SupersededByOne` needs that a call past its `Begin` names two plans
(`CallsNamePlans`), so that the mark a commit writes is a plan and not the absence
of one; and that a plan not added is not marked (`OnlyAddedMarked`), so that an add
does not take a mark away: a mark is only written on a plan its call once saw added.

The last two say what a step does by what its call read some steps before. `LinkInv`
carries that there (`Judged`): what was read is so still, or another call has written
since what can undo it, and `beside` holds that. A target that did not reach the plan
does not reach it still, unless another link was recorded (finding 5). That a link then
closes no cycle is induction over the number of links followed: a way back to the plan
that uses the new link has a part that does not.

`ProjectRegistry_proofs`, for any trees, ids, processes and calls, dying anywhere:

* `RegistryTyped`: `Spec => []TypeOK`;
* `RemovalSafe`: `Spec => RemovesOnlyOrphans`.

The property says what is so when a database goes; a removal was decided several
steps before. `IInv` carries it there: a plan to remove was laid from a survey that
saw its databases orphaned (`RemovalsPlanned`), the recheck under the lock makes that
true of the registry as it is (`SurveySees`), and it stays true (`RemovalsOrphaned`)
since the index is written only by who holds the lock (`LockHeld`), a plan that
removes changes no entry, and no vanished path comes back. `TypeOK` needs of each call
that it has an id where it is about to write one (`TInv`).

Under the assumption `NoOlderMarkers`, that no tree has an older version's marker that
names a project (with one, finding 7 refutes the first):

* `ProjectStands`: `Spec => ResolutionStands`;
* `MergesAreMeant`: `Spec => MergesOnlyMeant`;
* `HealsAreWhole`: `Spec => HealsWhole`.

A change is saved several steps after the survey it was planned from. `StandInv` says
of each call that its plan is the one its survey gives (`AsPlanned`), that its root is
an identity root of its own (`RootOwn`), and of one about to save or to mark what the
files must be for that to be right (`Saving`, `Marking`): a mint's root names nothing
while its caller holds the lock (`Minting`), a marker written names what the index
already has for its root, and an entry registered is of an id no other live tree has,
unless the call is told to share. The recheck makes each so, and the lock keeps it.

A heal's last step is several steps after the recheck it goes by. `HealInv` adds what
that rests on (`HealRests`): while a heal holds the lock, what it saw of its root is
so still (the marker, the registry's entries of the root, the root itself), since
each of these is written under the lock alone. Its save then leaves the root
registered as its marked id and no other, and takes out the entries seen gone and
nothing else (`Without`). It ends at its survey, when that found nothing to say; at
its save; or at its mark, which it makes only where the registry alone said the id,
and which changes no entry.

`StoreRules_proofs`, for any rules, requests, files and processes, dying anywhere:

* `MovedAlwaysKept`: `~EditsBesideImport => (Spec => MovedKept)`.

An import's three steps - read the file, declare what it holds, take it out of the
file - may be far apart. `IInv` says where what is owed lies meanwhile: in the schema
itself or in the file (`OwedHeld`, which is more than `MovedKept` says: the rules read
of a schema also show the seed's). Of each call (`CallSound`) it says that an import
past its read declares all the file still holds, since by assumption no edit comes
between and another import only takes keys out; that one about to take them out has
all that is owed in the store; and that a seeding sent at the schema's head was
shaped on that very schema (`Follows`), so that it removes nothing declared since.

Under the assumption `Keeps(kept)`, a permit of the seed that no
request removes:

* `RulesAlwaysABook`: `Spec => ImplementsRuleBook`.

Each step maps to a declare of the book or to a stutter. The steps that must stutter
are the seedings: a seeding changes no rule if it was shaped on the schema it is
committed on, which `CallKnown` keeps across the steps between (a schema at the same
head is the same schema), and if the schema's rules hold a presence (`Keeping`):
without one, a store reads as one from before permits were presences, with the seed's
beside its own. `Keeps` is what excludes that; the run's instance meets it.

Of writes to tasks:

* `StoreTyped`: `Spec => []TypeOK`;
* `WritesJudged`: `Spec => JudgedWithinCall`;
* `AlwaysOnePerScalar`: `Spec => []OneValuePerScalar`, under the assumption
  `ScalarsStand`: no request and no file makes a target a scalar, and the tasks there
  at first hold one value of those that are. (A target made a scalar over tasks that
  hold two values of it leaves them so; lint says it.)

A write is shaped and judged by rules read before its commit. `WriteInv` says that those
were the store's at some moment of the call, and that what was judged is what will be
sent, of the task as it stood at the head it will be sent at; so a write that lands
lands on that task. `OneInv` adds that the rules judged by know every scalar the store
has, since by `ScalarsStand` none becomes one after they were read.

`JsonlImport_proofs`, for any logs, users, projects and importers, stopping anywhere:

* `ForeignAlwaysKept`: `Spec => ForeignKept`;
* `OnlyRetagsAgain`: `Spec => OnlyRetagsComeAgain`;
* `ImportsOnce`: `Spec => ImportedOnce`, under the assumption `NoRetags`;
* `NothingIsLeft`: `Spec => []NothingLeftBehind`, under the assumption `RepairsStand`;
* `ImportTypeOK`: `Spec => []TypeOK`;
* `ImportedTasksWhole`: every task of a store is whole, `Spec => []` of it;
* `ImportsAsLogged`: `Spec => []ImportedAsLogged`, under the assumptions
  `LoggedInOrder` and `DeferralsAlike`.

An import decides on its fold of the log, not on the store, so what it sends to is
right only if the fold's tasks are. `IInv` says so: a task an import issued and does
not miss has a stream the log began (`FoldSound`), and a stream a user began is the
user's throughout (`Users`). The record stepped and the record run are two steps apart
and other importers and users append between; `FoldSound` lasts because a stream
keeps its first page. An add refused marks its task missing (`NotImported`), and one
found done was recorded under the log's id, in a stream that then is no user's.

The next three are about what an import reports. `ReadInv` follows a record from the
log's lines through the replay's order to its page: what an import has gone past is a
page of its stream, or was lost and is reported so, or repeats an add that another
record repairs; what is still to come is the rest of the order, each record once; and
what is reported was so when it was. A record folded again that is on a stream is found
there, so it is recorded again only if it left no page. Only a tag or an untag can do
nothing to a task that is there, which is what `OnlyRetagsComeAgain` says; the runs'
`ImportedOnce` is its consequence for logs that hold none (`NoRetags`), and finding 2
shows the rest. `RepairsStand` says that an add that is repaired repairs none itself:
with a chain of repairs, `complete` counts an add as repaired by one that is itself
left out, and `NothingLeftBehind` does not hold.

A log's line may hold anything of its fields' types, blank, reserved or contradictory.
`StepTyped` says that what the fold makes of a line is a command of its type, and
`DecidedWhole` that what the task's rules then record is a whole event, so a stream's
task is whole whoever wrote it (`TypedStream`), as in `TaskAggregate` on one stream.

`ImportsAsLogged` compares two folds of one log that share no code: the store's, of the
events some imports recorded, maybe in several runs that stopped, and the log's own, of
all the log's lines. Both are stated over the records themselves: `Takes` says which
records a task takes (from its first add to its removal) and `TaskSays` what the first n
of them leave it, each field by the last record that says it. `AgreeInv` is that

* an import's own fold of the records it has gone past is what they say (`FoldSays`);
* a stream that only imports wrote holds its task's records in their turn: a record is
  there only if those before it that change the task are too, and up to the last of them
  the task is what they say (`InTurn`);
* of the records an import has gone past, those that change the task are on its stream,
  and those the task could not take are reported (`Knows`).

Imports race and stop, so one may be behind what another recorded; what it sends again is
found on the stream, and what it knows is said only of streams no later record reached
(`Ahead`). A log grows while it is imported; `Final` is the order of all that is ever
written to it, of which an import's records are the beginning. That is what
`LoggedInOrder` is for: a line appended later has no earlier instant, so the order it is
replayed in is the order it was read in. `DeferralsAlike` says of each task that all its
deferrals have a trigger, or none has. The runs' logs hold both, which TLC evaluates
(`LogsSuited`); of logs that break either one alone the property is false (findings 12
to 14).

`TaskStore_proofs`, for any clients, requests, keys and probes, failing and retrying
anywhere, prunes among them:

* `NeverEverMerged`: `Spec => []NeverMerged`;
* `EveryPruneFinishes`: `Spec => FinishesUnpurged`;
* `StoreTypeOK`: `Spec => []TypeOK`;
* `StoreTasksWhole`: every task of the store is whole, `Spec => []` of it;

* `PrunesActAsRead`: `Spec => PrunesAsRead`;
* `OwnAnswerEver`: `Spec => OwnAnswer`;

as long as no two attempts of one request run at once:

* `OneTaskEver`: `Spec /\ []OneAttemptAtATime => []OneTaskPerRequest`;

and under the assumption `NoPrunes`, that no client sends one, with any attempts at once:

* `OneEffectEver`: `Spec => []OneEffectPerRequest`;
* `RequestsAlwaysBooked`: `Spec => ImplementsRequestBook`.

`StoreInv` says what a call about to append has decided: an add records only on a
stream with no page, anything else only on one with some (`CallDecided`,
`DecidedEvent`). The append is at the number of pages loaded, so an add's stream is
empty still and another's is not, whatever became of it between: this needs no
stream to have stayed the same, and holds beside purges.

Of prunes, `PruneInv` says that a task a prune listed as removed and unpurged is one it
has still to come to, removed as it was, unless a purge came since (`FoundLeft`, by the
number of purges of the harp). `ReadInv` says of a prune about to remove or to purge that
what it read qualified, or was removed (`Meant`), and that the stream is the one it read,
or has grown since, or was purged since (`Stands`). So where no purge came, an equal head
is the stream read, however many prunes and writers race. Where one came, it may be
another task's at the same head, which is finding 1: the property claims nothing there,
and the theorem says that there is no other way to it.

`OneTaskInv` is about a keyed add beside prunes. A purge can free a place it has gone
past, so that what it passed no longer says anything of the store. What does is
`AddPlaced`: looking, none of the places it has looked at holds its request's add;
adding, no place but the one it is at holds it. Purges only take adds away, and no one
else adds under the key: an earlier attempt has ended, and what it added is found, or was
purged. With another attempt in flight the second part fails, and so does the property
(finding 4), which is why the assumption is on the attempts and not on prunes.

`OwnInv` is about the answer, for any attempts at once: a call that found its own add on
a harp finds it there when it reads the task, unless the harp was purged between
(`OwnThere`): a stream only grows.

`BookInv` is for attempts at once, and says more of what each knows: the stream loaded is
the stream as it stands or that it has grown since (`CallKnown`), which makes an equal
head an equal stream; each place a keyed add has gone past is taken, and not by its own
add (`Passed`); and an add is only at such a place (`AddsPlaced`). Two attempts at two
places then contradict each other. A purge breaks both (a place passed is free again, a
stream of the same length may stand in another's place), which is why these two assume
`NoPrunes`.

That a task is whole is no matter of one stream where prunes race: what was decided on a
task may be appended to the one that took its harp, at the same length. `TypeInv` holds
nevertheless, as a whole event leaves any whole task whole (`AppliedWhole`), and an add
is appended to nothing.

`Readers_proofs`, for any projects, streams, commands, queries and calls:

* `ReadsOneMoment`: `Spec => ImplementsLiveTasks`, under the assumption `~NewerPurges`
  (finding 10);
* `QuietViewIsCurrent`: `Spec => []QuietIsCurrent`, under that assumption and of a
  subscriber that asks for the whole list of the project watched
  (`Whole(ViewQuery, Watched)`, as the run's does);
* `ListingsAreComplete`: `Spec => []ListingComplete`, under `~NewerPurges`;
* `ReadsStayTyped`: `Spec => []TypeOK`, a newer version's purges among the rest.

A list is folded on from where its last catch-up left each stream, from pages some of
which it cannot read; the abstract view is the fold of the whole store at one moment.
`FoldedOn` says that folding the first pages of a stream and then the rest is folding
the stream, by induction on the rest, a page it cannot read leaving the stream out from
there on. `ListInv` says what a list has kept of each stream: nothing, or the fold of a
part of the stream that is there, or of one purged since that `forget` will be told of.
Then each catch-up takes the list to the store's live tasks as they are, and a stream
that failed leaves the list at an earlier moment of it (`CaughtIsLive`).

A view is current when it is shown the whole of the watched project and nothing has
happened since that it was not told of. `ViewInv` says who owes the subscriber what:
unless a commit moved the token since the last poll, a burst is under way or a line
waits (`Owed`), the view, or what the subscriber's call has gathered and has yet to
show, is what the store holds. A catch-up under way is of the store as it then is; a
poll that finds nothing leaves nothing owed only if nothing was; a call that fails gives
the line back. That a listing of a project's whole list shows every task is
`ListedWhole`: the tasks can be put in a strict order (`OrderExists`, by each one's place
among those before it), as each is on the harp of its stream and was added at an instant
(`StampsInv`, `LiveSortable`), so none is lost to the sort.

A listing of several projects is of what each held as it was read, one after another
while others write. `ReadInv` says that what a call has gathered is what it last read of
each project it has reached, once each, and nothing of another. From there the listing
is a matter of its own (`ListingAccounts`): a tag query that is not refused selects some
of the rows and makes up none (`SelectedSound`, by the height of its stack before each
term, which is why its last never reaches into nothing); every row selected is hidden
and counted, or kept; the rows kept are ranked by numbers, as a formula that ranks one by
anything else refuses the listing (`PriorityIs`); whichever way they are to be ordered is
a strict order (`BeforeOrders`), so the sort keeps each row once; and the rows cut off
are those that come after every row listed, so none outranks one of its own project
(`CutParts`).

A list folds what the rules wrote, after what it kept of a stream that may have been
purged and begun again since: a task a list holds need not be any stream's, but it is
whole all the same (`FoldKept`), as whole pages leave any whole task whole. So types do
not rest on `ListInv`, and hold beside purges of a newer version, too. `TypeInv` says the
same of the streams (`StreamTyped`) and of the rows a call has gathered, and that a burst
stays below its ceiling: it is answered at the tick that would reach it.

`PlanFiles_proofs`, for any plans, files, tags, calls and clients, dying anywhere:

* `ListAlwaysAgrees`: `Spec => []ListAgrees`;
* `TagsBecomeLinks`: `Spec => []TagOrLink`;
* `PlansStayTyped`: `Spec => []TypeOK`;

and under the assumptions `OneAdder` (one process at a time adds or imports; any may
read, link and change plans: finding 11), `NamesKept` (no add is given, and no tag names,
the path another plan's own file has by default) and `OutsideKept` (the files outside the
work root are left alone, and what each holds no other file, edit or add does: a copy is
known by its text alone):

* `FilesKeepOnePlan`: `Spec => []FileOnePlan`.

The list is a fold of every plan's stream, one after another. `ListIs` says that it is a
function of the plans' states alone (`ListFor`): each event of a stream takes the list of
a state to the list of the next (`ListedStep`), the last of a task's plans ungoverned
takes its entry out, and the order of the plans does not matter. It rests on what a
stream is (`StreamsSound`): it begins with its adding and adds once, since a commit is
decided on the state it is appended to. `ImportInv` says of each import what it goes by
at each step: the rows it read were so of the streams, and so are still, as nothing takes
an event back (`Grown`); its group's tags name its file; the plan it joins was recorded
at that file or for a copy of it, and each of the group's tasks is one it has still to
join or one the plan has been made to govern. So when a tag is retired its link is made.

`OnceInv` says of an add or an import what keeps a file to one plan at each step. What is
about to be recorded is recorded by no other plan, nor is its text if it came from outside
(`Fresh`): so it was when looked up, and only the adder adds. An import looks nothing up
again: it goes by rows read before its first group. These still tell of every group it
has left whether it is recorded (`RowsTell`), since what it registers meanwhile is of
another path, and of another text, than all it has left (`Apart`, `GroupsOnce`). A file
that holds an outside text is outside or a plan's own (`FilesSound`), so that no plan but
a copy is taken for one.

`RemovalEndsStream`, `ClearingRevives`, `PlanLinks!TypeOK` and that tasks are whole are
stated by theorems and by no run: TLC agreed with them, and the proofs hold for every
instance.

What these take of the constants is named in the modules, and TLC evaluates it on every
run: the starts, requests, commands, logs, files and streams there at first are of their
types (`StartsAssumption`, `CallsAssumption`, `TypesAssumption`, `ReadersAssumption`,
`StreamsAssumption`, `ImportAssumption`, `LogsAssumption`, `PlanFilesAssumption`);
harps are finitely many and ordered (`HarpRankAssumption`), and so are projects
(`ProjectRankAssumption`); what is asked are queries, and the subscriber's is a listing
that is not refused (`QueriesAssumption`); there is a tree, and a worktree's primary checkout is no worktree (`TreesAssumption`, `PrimaryAssumption`);
the plans are finitely many, each with a file name of its own (`PlanNamesAssumption`); the
components of the work root and of plans' file names are names (`NamesAssumption`), and
what an edit, an add or a tag is given is a path (`InputsAssumption`). `ReadersAssumption`
has a burst's ceiling at one tick or more (the code's is ten), and `StreamsAssumption` the
pages there at first written by the rules: each status they set is Deferred exactly if it
comes with a trigger and a status to return to.

Recursive functions (a stream's fold, the links followed, a replay's order) are reasoned
about by induction on the natural numbers, from the well-foundedness of their order
(`Induction` in each module that needs it): that such a function exists, and what it is at
each length.

Every safety property the passing runs check is stated by a theorem, under the
assumptions named above.
Model-checked only: liveness (`EveryCallEnds`, `ViewCatchesUp`), which the prover does
not reach; and what holds beside older markers, on the run's instance.

## 5. Findings

Two runs show code and comment apart:

1. `TaskStoreRemint`. A purge compares the number of events only. After another
   prune's purge, a task minted on the harp and moved once has as many events as the
   removed one, and is purged live; `prune.rs` says it never is. The same holds of the
   removal's append: a head number met again is taken for the stream loaded.
2. `JsonlImportAgain`. A record whose command changes nothing, since a user gave the
   task its tag first, leaves no page to find it by. The next import runs it again,
   and gives the tag back to a task the user took it from; `import.rs` says that
   running an import again duplicates nothing.

Others were met while modelling. No run keeps them; each shows with the change given
to a run's inputs:

3. `deferred_since` is stamped again whenever a change leaves a trigger;
   `tasks.proto` (`TaskState.deferred_since`) says it is when the task last *entered*
   Deferred. `TaskAggregate` with
   `[][task.status = Defers /\ task'.status = Defers => UNCHANGED task.deferred_since]_vars`.
4. Two attempts of one keyed add in flight, with a prune freeing the first harp
   between, add the task twice; `request.rs` says a retry applies nothing. A retry
   sent after the first attempt ended never does. `TaskStorePrunes` with the add sent
   by two processes and one prune, `OneTaskPerRequest`.
5. Two links at once can close a cycle: the check reads the plan list before the
   commit, which looks at one stream. `plans-application/change.rs:59` says a link
   closes none. `PlanLinks` with the invariant `Cyclic = {}`; `CyclesOnlyRaced` says that
   only such a race does.
6. A link that failed after its first write does not keep another plan from
   superseding the same target, since only the target's mark is read. The racing
   form is noted in `docs/plans/plans-aggregate.md`; this one needs no race.
   `PlanLinks` with "no target is in two plans' `supersedes`".
7. A write adopts an older marker by writing `.project-id` after it read both,
   outside the registry's lock. A repoint made between is undone: its marker is
   overwritten, and the tree is its former project again, though the index says
   otherwise; the registry's own doc says markers are changed under the lock only
   while a fresh survey matches. `ProjectRegistry` with a repoint of `k` to `y` beside
   a write in `k`, `ResolutionStands`.
8. A store whose last permit is revoked is read as one from before allowlists, so its
   seed's permits come back; `permit.rs` says an undeclared tag is refused. `StoreRules`
   with revokes of every permit there is, `ImplementsRuleBook`.
9. A revoke lists the tasks that carry what it revokes, and declares later: a task
   given such a tag between keeps it, refused from then on. `StoreRules` with a revoke
   of `gui` beside a retag that adds it, and "every tag a task holds is permitted".
10. A stream the list left out for a page it cannot read, purged by the newer version
    and begun again, may be missed by `forget`, which takes a task off the list only
    if its stream is known. `Readers` with `NewerPurges`, `ImplementsLiveTasks`.
11. Two adds of one path at once, both past the lookup in the list, register it
    twice. `PlanFiles` with two adding clients, `FileOnePlan`.
12. A deferral logged with no trigger is refused of a task that has none, and lost. If
    the log later defers the task with one, importing again finds a task with a trigger:
    the deferral is accepted, last, and its earlier instant is the task's. `JsonlImport`
    with a log of an add, a deferral with no trigger and one with a trigger,
    `ImportedAsLogged`.
13. A deferral logged with a blank trigger is sent with none, so a task already deferred
    keeps the trigger it had, which the log says is gone. `JsonlImport` with a log of an
    add deferred with a trigger and a deferral with a blank one, `ImportedAsLogged`.
14. A line appended after an import with an earlier instant than those imported (a clock
    set back) is recorded last, while the log's replay puts it before them. `JsonlImport`
    with an add and two changes of status, the last appended with the earlier instant,
    `ImportedAsLogged`.

## 6. Plan

Modelled: the task aggregate, the calls on a store, the store's rules, its readers
and the watch, both imports, plans with their links and files, the project registry.
What is left, in order:

1. edits and retags as calls of `TaskStore`; a prune's dry run, tag query and report;
2. plan files written by two clients, with the list read and the commit apart;
3. the kernel runner's two caps and its waits; dead letters;
4. projects pinned by a call; a registry's reads that write nothing.

Proofs to add: what `ImportedAsLogged` may say of a log that breaks `LoggedInOrder` or
`DeferralsAlike`, for the tasks that hold to them.

Not modelled: the command lines, rendering, argument parsing and localisation (no
state, and no property is about their words); the generated wire types; the text of
rejections; the arithmetic of a prune's cut and of durations; the calendar; the
libraries outside the repository, but for what their use here says of them.
