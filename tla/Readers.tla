------------------------------- MODULE Readers -------------------------------
(***************************************************************************)
(* A long-lived service that reads the tasks of several projects while     *)
(* other processes write them: each project's task list, caught up from    *)
(* its store when it is read; the one store held open; the watch of a      *)
(* project's store, its lines debounced; and a subscriber that asks for    *)
(* the list again on each line.                                            *)
(*                                                                         *)
(* The kernel's catch-up and the store are outside the repository: a       *)
(* catch-up hands each stream's pages after those it handed, the whole of  *)
(* a stream that is another than it knew (told by its first event), and    *)
(* says of one that is gone that it is, all from one moment of the store;  *)
(* a stream it failed to hand stays where it was.  A store's change token  *)
(* moves with every commit and is compared for equality alone, so `moved`  *)
(* stands for it: a poll now would find another token than the last one.   *)
(***************************************************************************)
EXTENDS TaskReads

CONSTANTS
  Commands,      \* the commands sent: [project, harp, command, at, here]
  HeldAtFirst,   \* project -> harp -> its stream's pages at first
  Now,           \* the instant the reads are made at
  Asked,         \* the queries asked of the service besides the subscriber's
  WorkRoot,      \* the project the service's work root has, or NoProject
  Rootless,      \* whether it is in no work root of its own
  SeedFormulas,  \* the formulas of a new store's rules
  Watched,       \* the project watched
  ViewQuery,     \* what the subscriber asks on each line
  CeilingTicks,  \* the ticks a burst may withhold its line for
  NewerAt,       \* the harps whose task a newer version may write
  NewerPurges,   \* a newer version purges what it wrote that this one cannot read
  MaxWrites,     \* bound: commits that change a task
  MaxReads,      \* bound: calls besides the subscriber's
  MaxFails       \* bound: calls and polls that fail

NoBurst == -1
WatchOff == [pc |-> "off", burst |-> NoBurst]
NoStore == [project |-> NoProject, writable |-> FALSE]
Unreadable == [type |-> "Unreadable"]

VARIABLES
  there,    \* project -> whether its store is
  streams,  \* project -> harp -> its stream's pages
  births,   \* project -> harp -> how many streams it had before
  lists,    \* project -> the service's task list, and where it is on each stream
  held,     \* the store the service holds open, and whether to write
  call,     \* the call the service is in
  answer,   \* what this step answered a call with
  watch,    \* the watch: where it is, and the burst under way
  moved,    \* the watched store's token is not the last poll's
  unread,   \* a line was written that the subscriber has not acted on
  view,     \* the tasks the subscriber shows
  seen,     \* project -> the tasks last gathered from it (history)
  used      \* the bounds used: writes, reads and failures

vars == <<there, streams, births, lists, held, call, answer, watch, moved, unread, view,
          seen, used>>
storeVars == <<there, streams, births>>
watchVars == <<watch, moved, unread>>

\* Every project of the registry, by id.
Order ==
  CHOOSE order \in SetToSeqs(Projects) :
    \A i, j \in DOMAIN order : i < j => ProjectRank[order[i]] < ProjectRank[order[j]]

ASSUME ReadersAssumption ==
  /\ WorkRoot \in Projects \cup {NoProject}
  /\ Rootless \in BOOLEAN /\ NewerPurges \in BOOLEAN /\ NewerAt \subseteq Harps
  /\ Watched \in Projects
  /\ \A c \in Commands :
       /\ c.harp \in Harps /\ c.at \in Int /\ CheckRefusal(c.command) = Sound
       /\ c.command \in AddTaskCommands \cup SetStatusCommands \cup EditTextCommands
                          \cup RetagCommands \cup RemoveTaskCommands
  /\ CeilingTicks \in Nat \ {0}
  /\ {MaxWrites, MaxReads, MaxFails} \subseteq Nat

\* What is asked are queries, and the subscriber's a listing that is not refused.
ASSUME QueriesAssumption ==
  /\ Asked \cup {ViewQuery} \subseteq Queries
  /\ ViewQuery.kind = "list" /\ QueryRefused(ViewQuery) = Sound

\* A status the rules set is at rest, or Deferred with what revives it and the
\* status it returns to.
DeferralSet(x) ==
  /\ (x.trigger # Empty) <=> (x.status = Defers)
  /\ (x.prior_status # Empty) <=> (x.status = Defers)
  /\ x.prior_status # Defers

\* A stream there at first is of pages the rules wrote, and the adding of its
\* task is the first of them alone.
ASSUME StreamsAssumption ==
  /\ HeldAtFirst \in
       [Projects -> [Harps -> Seq([event: TaskEvents \cup {Unreadable}, recorded_at: Int])]]
  /\ \A p \in Projects : \A h \in Harps : LET pages == HeldAtFirst[p][h] IN
       pages # <<>> => /\ pages[1].event.type = "TaskAdded"
                       /\ pages[1].event.harp_id = h
                       /\ \A i \in DOMAIN pages : LET e == pages[i].event IN
                            /\ e.type = "TaskAdded" => i = 1
                            /\ e.type \in {"TaskAdded", "StatusChanged"} => DeferralSet(e)

------------------------------------------------------------------------------
(* Streams, and the list folded from them. *)

\* Pages applied to a task; Unread where one is none the tasks domain knows.
Unread == [NoTask EXCEPT !.harp_id = Absent]

Folded(from, pages) ==
  LET after[n \in 0..Len(pages)] ==
        IF n = 0 THEN from
        ELSE IF pages[n].event = Unreadable \/ after[n-1] = Unread THEN Unread
        ELSE Apply(after[n-1], pages[n].event, pages[n].recorded_at)
  IN after[Len(pages)]

PrunedLast(pages) ==
  pages # <<>> /\ Last(pages).event = [type |-> "TaskRemoved", reason |-> "Pruned"]

NoEntry == NoTask
EmptyList ==
  [streams |-> [h \in Harps |-> NoEntry], entries |-> [h \in Harps |-> NoEntry],
   unpurged |-> [h \in Harps |-> NoEntry],
   at |-> [h \in Harps |-> [birth |-> 0, pages |-> 0]]]

\* The pages the catch-up hands of a stream, and whether from its start.
IsNew(p, h) == lists[p].at[h].birth # births[p][h] \/ lists[p].at[h].pages = 0
HandedPages(p, h) ==
  IF IsNew(p, h) THEN streams[p][h]
  ELSE SubSeq(streams[p][h], lists[p].at[h].pages + 1, Len(streams[p][h]))

\* A book from sequence 0 starts the stream afresh.
Fold(p, h) ==
  LET pages == HandedPages(p, h) IN
  IF pages = <<>> THEN lists[p].streams[h]
  ELSE Folded(IF IsNew(p, h) THEN NoTask ELSE lists[p].streams[h], pages)

Gone(p, h) == streams[p][h] = <<>> /\ lists[p].at[h].pages > 0
Fails(p, h) == HandedPages(p, h) # <<>> /\ Fold(p, h) = Unread
FailedIn(p) == {h \in Harps : Fails(p, h)}

\* Mutant of Forgotten: a stream's going leaves its task listed.
ForgottenStream(p, h) ==
  [streams |-> NoEntry, entries |-> lists[p].entries[h], unpurged |-> NoEntry,
   at |-> [birth |-> births[p][h], pages |-> 0]]

\* forget: the task of a stream the store no longer holds leaves the list,
\* if its stream is known.
Forgotten(p, h) ==
  LET known == lists[p].streams[h] # NoEntry IN
  [streams |-> NoEntry,
   entries |-> IF known THEN NoEntry ELSE lists[p].entries[h],
   unpurged |-> IF known THEN NoEntry ELSE lists[p].unpurged[h],
   at |-> [birth |-> births[p][h], pages |-> 0]]

\* project and list: the task as its stream's last event leaves it.  One that
\* cannot be read folds nothing, but its stream was taken out to fold it.
Projected(p, h) ==
  LET task == Fold(p, h)
      pages == HandedPages(p, h)
      here == [streams |-> lists[p].streams[h], entries |-> lists[p].entries[h],
               unpurged |-> lists[p].unpurged[h], at |-> lists[p].at[h]] IN
  CASE Gone(p, h) -> Forgotten(p, h)
    [] ~Gone(p, h) /\ pages = <<>> -> here
    [] Fails(p, h) -> [here EXCEPT !.streams = IF IsNew(p, h) THEN @ ELSE NoEntry]
    [] OTHER ->
         [streams |-> task,
          entries |-> IF task.removed THEN NoEntry ELSE task,
          unpurged |-> IF PrunedLast(pages) THEN task ELSE NoEntry,
          at |-> [birth |-> births[p][h], pages |-> Len(streams[p][h])]]

\* A catch-up's step: every stream of the store handed what it is owed.
CaughtUp(p) ==
  LET projected == [h \in Harps |-> Projected(p, h)] IN
  [streams |-> [h \in Harps |-> projected[h].streams],
   entries |-> [h \in Harps |-> projected[h].entries],
   unpurged |-> [h \in Harps |-> projected[h].unpurged],
   at |-> [h \in Harps |-> projected[h].at]]

Entries(list) == {list.entries[h] : h \in Harps} \ {NoEntry}

\* What the store holds: its live tasks, and those removed by a prune and left.
Task(p, h) == Folded(NoTask, streams[p][h])
Live(p) == {Task(p, h) : h \in {g \in Harps : ~Task(p, g).removed}} \ {NoTask}

------------------------------------------------------------------------------
Idle ==
  [pc |-> "idle", query |-> ViewQuery, every |-> FALSE, left |-> <<>>, rows |-> {},
   reached |-> {}, subscriber |-> FALSE]
NoAnswer == [kind |-> "none"]
Refusal(code) == [kind |-> "refused", code |-> code]

TypeOK ==
  /\ there \in [Projects -> BOOLEAN]
  /\ \A p \in Projects : \A h \in Harps :
       /\ births[p][h] \in 0..MaxWrites
       /\ \A i \in DOMAIN streams[p][h] :
            streams[p][h][i].event \in TaskEvents \cup {Unreadable}
       /\ lists[p].at[h].birth <= births[p][h]
       /\ {lists[p].streams[h], lists[p].entries[h], lists[p].unpurged[h]} \subseteq TaskStates
  /\ held.project \in Projects \cup {NoProject} /\ held.writable \in BOOLEAN
  /\ call.pc \in {"idle", "gather", "answer"}
  /\ \A r \in call.rows : r \in Rows
  /\ answer.kind \in {"none", "refused", "failed", "list", "show", "tags", "summary", "statuses",
                     "lint"}
  /\ watch.pc \in {"off", "on", "ended"}
  /\ watch.burst \in NoBurst..(CeilingTicks - 1)
  /\ {moved, unread} \subseteq BOOLEAN
  /\ used.writes \in 0..MaxWrites /\ used.reads \in 0..MaxReads /\ used.fails \in 0..MaxFails

Init ==
  /\ streams = HeldAtFirst
  /\ there = [p \in Projects |-> \E h \in Harps : streams[p][h] # <<>>]
  /\ births = [p \in Projects |-> [h \in Harps |-> 0]]
  /\ lists = [p \in Projects |-> EmptyList]
  /\ held = NoStore
  /\ call = Idle
  /\ answer = NoAnswer
  /\ watch = WatchOff
  /\ moved = FALSE
  /\ unread = FALSE
  /\ view = {}
  /\ seen = [p \in Projects |-> {}]
  /\ used = [writes |-> 0, reads |-> 0, fails |-> 0]

------------------------------------------------------------------------------
(* What happens to a store meanwhile.  A commit moves its token.            *)

Commits(p, h, pages) ==
  /\ used.writes < MaxWrites
  /\ used' = [used EXCEPT !.writes = @ + 1]
  /\ streams' = [streams EXCEPT ![p][h] = pages]
  /\ moved' = (moved \/ (p = Watched /\ watch.pc = "on"))
  /\ answer' = NoAnswer
  /\ UNCHANGED <<lists, call, watch, unread, view, seen>>

\* A command to a harp of p decides, on its task as it is, what is recorded.
Decision(p, h, command) ==
  Decide(Task(p, h), streams[p][h] # <<>>,
         IF command.type = "AddTask" THEN [command EXCEPT !.harp_id = h] ELSE command)

Recording(p, here) ==
  \E c \in {d \in Commands : d.project = p /\ d.here = here} :
    LET decision == Decision(p, c.harp, c.command)
        page == [event |-> decision.event, recorded_at |-> c.at] IN
    /\ Task(p, c.harp) # Unread
    /\ Records(decision)
    /\ Commits(p, c.harp, Append(streams[p][c.harp], page))

\* Another process adds, changes or removes a task; the first makes the store.
Write(p) ==
  /\ Recording(p, FALSE)
  /\ there' = [there EXCEPT ![p] = TRUE]
  /\ UNCHANGED <<births, held>>

\* ... or the service itself does, through a store held to write.
WriteHere(p) ==
  /\ call.pc = "idle"
  /\ Recording(p, TRUE)
  /\ there' = [there EXCEPT ![p] = TRUE]
  /\ held' = [project |-> p, writable |-> TRUE]
  /\ UNCHANGED births

\* A prune's purge of a stream whose task is removed.
Purge(p) ==
  \E h \in Harps :
    /\ streams[p][h] # <<>>
    /\ Task(p, h).removed \/ (NewerPurges /\ Task(p, h) = Unread)
    /\ Commits(p, h, <<>>)
    /\ births' = [births EXCEPT ![p][h] = @ + 1]
    /\ UNCHANGED <<there, held>>

\* A newer version writes an event this one cannot read.
WriteNewer(p) ==
  \E h \in NewerAt :
    /\ streams[p][h] # <<>>
    /\ Task(p, h) # Unread
    /\ Commits(p, h, Append(streams[p][h], [event |-> Unreadable, recorded_at |-> Now]))
    /\ UNCHANGED <<there, births, held>>

\* A commit no task sees: a purge of nothing, the rules', a plan's.
Touch ==
  /\ there[Watched]
  /\ watch.pc = "on"
  /\ moved' = TRUE
  /\ answer' = NoAnswer
  /\ UNCHANGED <<storeVars, lists, held, call, watch, unread, view, seen, used>>

------------------------------------------------------------------------------
(* The store held.                                                          *)

\* hold_existing: the store held for p, or p's opened read-only and held; with
\* none there, none is held.  One opened again has tokens of its own.
HoldExisting(p) ==
  held' = IF held.project = p THEN held
          ELSE IF there[p] THEN [project |-> p, writable |-> FALSE]
          ELSE NoStore

Opens(p) == held.project # p /\ there[p]

------------------------------------------------------------------------------
(* The service's calls: one at a time, each borrowing the service whole.    *)

\* scan: one project, the one pinned or the work root's; or every project,
\* asked for or fallen back to outside a work root; or none.
Scanned(q) ==
  LET one == IF q.project # NoProject THEN q.project ELSE WorkRoot
      every == q.global \/ (one = NoProject /\ Rootless) IN
  [Idle EXCEPT !.query = q, !.every = every,
               !.left = IF every THEN Order ELSE IF one = NoProject THEN <<>> ELSE <<one>>,
               !.pc = IF ~every /\ one = NoProject THEN "answer" ELSE "gather"]

\* A request malformed in itself is refused before anything is read.
Ask(q) ==
  /\ call.pc = "idle"
  /\ used.reads < MaxReads
  /\ used' = [used EXCEPT !.reads = @ + 1]
  /\ \/ /\ QueryRefused(q) # Sound
        /\ answer' = Refusal(QueryRefused(q))
        /\ UNCHANGED call
     \/ /\ QueryRefused(q) = Sound
        /\ answer' = NoAnswer
        /\ call' = Scanned(q)
  /\ UNCHANGED <<storeVars, lists, held, watchVars, view, seen>>

\* The subscriber acts on the lines it has.
Requery ==
  /\ call.pc = "idle"
  /\ unread
  /\ unread' = FALSE
  /\ answer' = NoAnswer
  /\ call' = [Scanned(ViewQuery) EXCEPT !.subscriber = TRUE]
  /\ UNCHANGED <<storeVars, lists, held, watch, moved, view, seen, used>>

\* The call ends in a failure; the subscriber asks again.
CallFails(code) ==
  /\ call' = Idle
  /\ answer' = [kind |-> "failed", code |-> code]
  /\ unread' = (unread \/ call.subscriber)

\* gather: the next project's store is opened if it is there and its list
\* caught up, every stream of it; the first that failed is the call's failure.
Gather ==
  LET p == Head(call.left) IN
  /\ call.pc = "gather"
  /\ call.left # <<>>
  /\ HoldExisting(p)
  /\ moved' = (moved \/ (Opens(p) /\ p = Watched /\ watch.pc = "on"))
  /\ lists' = [lists EXCEPT ![p] = IF there[p] THEN CaughtUp(p) ELSE @]
  /\ \/ /\ FailedIn(p) # {}
        /\ CallFails("list")
        /\ UNCHANGED seen
     \/ /\ FailedIn(p) = {}
        /\ LET found == IF there[p] THEN Entries(CaughtUp(p)) ELSE {} IN
           /\ seen' = [seen EXCEPT ![p] = found]
           /\ call' = [call EXCEPT
                !.left = Tail(@), !.rows = @ \cup [project: {p}, task: found],
                !.reached = @ \cup (IF there[p] THEN {p} ELSE {}),
                !.pc = IF Len(call.left) = 1 THEN "answer" ELSE "gather"]
        /\ answer' = NoAnswer
        /\ UNCHANGED unread
  /\ UNCHANGED <<storeVars, watch, view, used>>

\* The rules a call is held to: the one project's store's, if it has one; of
\* none or every project's, the seeded ones.
HeldFormulas ==
  IF ~call.every /\ call.reached # {} THEN DeclaredIn[CHOOSE p \in call.reached : TRUE]
  ELSE SeedFormulas

\* What a call answers of the rows it gathered.
Answered(q, rows, every) ==
  CASE q.kind = "list" ->
         IF q.sort = "priority" /\ RankRefusal(rows, Now) # Sound
           THEN Refusal(RankRefusal(rows, Now))
           ELSE [kind |-> "list", query |-> q, reached |-> call.reached,
                 listed |-> Listed(rows, q, every, Now),
                 notes |-> IF q.sort = Absent THEN {}
                           ELSE UNION {Warnings(InProject(rows, p), Finished, DeclaredIn[p],
                                                Now) : p \in {r.project : r \in rows}}]
    [] q.kind = "show" ->
         IF Shown(rows, q).refusal # Sound THEN Refusal(Shown(rows, q).refusal)
         ELSE [kind |-> "show", rows |-> Shown(rows, q).rows]
    [] q.kind = "tags" -> [kind |-> "tags", counts |-> TagCounts(rows, q)]
    [] q.kind = "summary" -> [kind |-> "summary", summary |-> Summary(rows)]
    [] q.kind = "statuses" -> [kind |-> "statuses", statuses |-> StatusesInUse(rows)]
    [] q.kind = "lint" -> [kind |-> "lint", formulas |-> FormulaFindings(HeldFormulas)]

Respond ==
  /\ call.pc = "answer"
  /\ call' = Idle
  /\ answer' = Answered(call.query, call.rows, call.every)
  /\ view' = IF call.subscriber THEN {r.task : r \in Range(answer'.listed.rows)} ELSE view
  /\ UNCHANGED <<storeVars, lists, held, watchVars, seen, used>>

\* A layer still sets a moved key, or the identity or a store fails.
Fail ==
  /\ call.pc = "gather"
  /\ used.fails < MaxFails
  /\ used' = [used EXCEPT !.fails = @ + 1]
  /\ CallFails("failed")
  /\ UNCHANGED <<storeVars, lists, held, watch, moved, view, seen>>

------------------------------------------------------------------------------
(* The watch.                                                               *)

\* Mutants of Debounced: a burst's last tick writes nothing; the ceiling is
\* one tick late; there is none.
DebouncedSilently(burst, changed) ==
  IF burst = NoBurst THEN [burst |-> IF changed THEN 0 ELSE NoBurst, line |-> FALSE]
  ELSE IF ~changed THEN [burst |-> NoBurst, line |-> FALSE]
  ELSE IF burst + 1 >= CeilingTicks THEN [burst |-> NoBurst, line |-> TRUE]
  ELSE [burst |-> burst + 1, line |-> FALSE]
DebouncedLate(burst, changed) ==
  IF burst = NoBurst THEN [burst |-> IF changed THEN 0 ELSE NoBurst, line |-> FALSE]
  ELSE IF ~changed THEN [burst |-> NoBurst, line |-> TRUE]
  ELSE IF burst >= CeilingTicks THEN [burst |-> NoBurst, line |-> TRUE]
  ELSE [burst |-> burst + 1, line |-> FALSE]
DebouncedUncapped(burst, changed) ==
  IF burst = NoBurst THEN [burst |-> IF changed THEN 0 ELSE NoBurst, line |-> FALSE]
  ELSE IF ~changed THEN [burst |-> NoBurst, line |-> TRUE]
  ELSE [burst |-> burst, line |-> FALSE]

\* A burst's line is written at its first quiet tick, or at the ceiling.
Debounced(burst, changed) ==
  IF burst = NoBurst THEN [burst |-> IF changed THEN 0 ELSE NoBurst, line |-> FALSE]
  ELSE IF ~changed THEN [burst |-> NoBurst, line |-> TRUE]
  ELSE IF burst + 1 >= CeilingTicks THEN [burst |-> NoBurst, line |-> TRUE]
  ELSE [burst |-> burst + 1, line |-> FALSE]

\* poll: where there is no store, nothing has changed; else whether its token
\* is another than the last poll's, which it is of a store opened again.
Polled == there[Watched] /\ (moved \/ Opens(Watched))

\* The watch starts as the store is, with a line at once.
StartWatch ==
  /\ watch.pc = "off"
  /\ call.pc = "idle"
  /\ HoldExisting(Watched)
  /\ moved' = FALSE
  /\ watch' = [pc |-> "on", burst |-> NoBurst]
  /\ unread' = TRUE
  /\ answer' = NoAnswer
  /\ UNCHANGED <<storeVars, lists, call, view, seen, used>>

Tick ==
  /\ watch.pc = "on"
  /\ call.pc = "idle"
  /\ HoldExisting(Watched)
  /\ moved' = FALSE
  /\ LET next == Debounced(watch.burst, Polled) IN
     /\ watch' = [watch EXCEPT !.burst = next.burst]
     /\ unread' = (unread \/ next.line)
  /\ answer' = NoAnswer
  /\ UNCHANGED <<storeVars, lists, call, view, seen, used>>

\* The stop signal; or a poll, or a line's writing, fails.
StopWatch ==
  /\ watch.pc \in {"off", "on"}
  /\ watch' = [pc |-> "ended", burst |-> NoBurst]
  /\ moved' = FALSE
  /\ unread' = FALSE
  /\ answer' = NoAnswer
  /\ UNCHANGED <<storeVars, lists, held, call, view, seen, used>>

------------------------------------------------------------------------------
Next ==
  \/ \E p \in Projects : Write(p) \/ WriteHere(p) \/ Purge(p) \/ WriteNewer(p)
  \/ Touch
  \/ \E q \in Asked : Ask(q)
  \/ Requery
  \/ Gather
  \/ Respond
  \/ Fail
  \/ StartWatch
  \/ Tick
  \/ StopWatch

\* Ticks keep coming, the subscriber acts on its lines, a call goes on.
Fairness ==
  /\ WF_vars(Tick)
  /\ WF_vars(Requery)
  /\ WF_vars(Gather)
  /\ WF_vars(Respond)

Spec == Init /\ [][Next]_vars /\ Fairness

------------------------------------------------------------------------------
(* Properties. *)

\* The rows a listing was made of.
Gathered == UNION {[project: {p}, task: seen[p]] : p \in answer.reached}

\* A listing accounts for every task its filters match: listed, hidden by the
\* default view and counted, or cut off by the limit and counted; and within a
\* project none cut off outranks one listed (read.rs:593, the limit applied
\* after the sort "keeps the highest priorities"), each shown with its place in
\* the whole project (priority.rs:1).
ListingComplete ==
  answer.kind = "list" =>
    LET q == answer.query
        l == answer.listed
        matched == Matching(Gathered, q)
        ranked == Ranked(Gathered, Now)
        hidden == {r \in matched : q.statuses = {} /\ ~q.all /\ ~IsActive(r.task.status)} IN
    /\ Len(l.rows) + l.omitted + l.completed + l.deferred = Cardinality(matched)
    /\ Range(l.rows) \subseteq matched \ hidden
    /\ l.completed + l.deferred = Cardinality(hidden)
    /\ q.sort = "priority" =>
         /\ \A i \in DOMAIN l.rows : l.priorities[i] = PriorityOf(ranked, l.rows[i])
         /\ \A r \in Range(l.rows), s \in matched \ (hidden \cup Range(l.rows)) :
           r.project = s.project => PriorityOf(ranked, r) >= PriorityOf(ranked, s)

\* A quiet watch is a current view: with no burst under way, nothing moved since
\* the last poll and no line to act on, the subscriber shows what the store holds
\* (tasks-watch: it "stays live without polling").
QuietIsCurrent ==
  watch.pc = "on" /\ watch.burst = NoBurst /\ ~moved /\ ~unread /\ ~call.subscriber
    => view = Live(Watched)

\* What the service reads of a project is its store's live tasks at one moment,
\* through any purge and any stream minted again on a freed harp.
Snapshot == INSTANCE LiveTasks WITH there <- [p \in Projects |-> Live(p)], seen <- seen
ImplementsLiveTasks == Snapshot!Spec

\* However busy the store stays, the subscriber comes to show what it holds, as
\* long as the watch is on and its tasks can be read.
ViewCatchesUp ==
  <>[](\/ watch.pc # "on"
       \/ view = Live(Watched)
       \/ \E h \in Harps : Task(Watched, h) = Unread)
=============================================================================
