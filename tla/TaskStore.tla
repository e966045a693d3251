----------------------------- MODULE TaskStore -----------------------------
(***************************************************************************)
(* A project's task store, and the calls several processes make on it at   *)
(* once: adds, with a request key or without, status changes and prunes.   *)
(* Every read and every write of the store is a step of its own; what a    *)
(* call read before is what it decides by, as of that read.                *)
(*                                                                         *)
(* The kernel and the store are outside the repository.  They are modelled *)
(* as its code uses them: a stream is a sequence of pages, its head their  *)
(* number; a command is decided on the stream as loaded and appended only  *)
(* at the head loaded (a moved head is a conflict, and it is loaded again);*)
(* a command id found on the stream is answered DUPLICATE; a write may     *)
(* fail, landed or not, and is tried again under the same id; a purge      *)
(* deletes the pages at the head given, and the harp's next stream starts  *)
(* from nothing.                                                           *)
(*                                                                         *)
(* Time has two instants, Old (what the store holds at first) and Now.     *)
(***************************************************************************)
EXTENDS TaskRules, Sequences

CONSTANTS
  Clients,       \* processes
  Keys,          \* request keys
  ProbeOrder,    \* key -> its harps, in the order an add under it probes them
  Sends,         \* client -> the requests it may make
  OldTasks,      \* the adds whose task the store may hold at first, one a harp
  PruneStatuses, \* the statuses a prune takes
  Cut,           \* ... last changed before this instant
  Mints,         \* how many harps an unkeyed add mints (HARP_ATTEMPTS)
  Attempts,      \* how many times a command or a purge is tried (KERNEL_RETRY)
  MaxCalls       \* bound: client -> the calls it makes

NoKey  == "<no key>"
NoHarp == "<no harp>"
Old == 0
Now == 1

Prunes  == [op: {"prune"}, key: {NoKey}, harp: {NoHarp}, command: RemoveTaskCommands]
Adds    == [op: {"add"}, key: Keys \cup {NoKey}, harp: {NoHarp}, command: AddTaskCommands]
Changes == [op: {"set_status"}, key: Keys \cup {NoKey}, harp: Harps,
            command: SetStatusCommands]
Requests == Prunes \cup Adds \cup Changes

\* A request passed the rules its carrier alone is held to (tasks::check).
ASSUME RequestsAssumption ==
  /\ NoKey \notin Keys
  /\ NoHarp \notin Harps
  /\ Sends \in [Clients -> SUBSET Requests]
  /\ \A c \in Clients : \A r \in Sends[c] :
       /\ CheckRefusal(r.command) = Sound
       /\ r.op = "prune" => r.command.reason = "Pruned"
  /\ \A e \in OldTasks : e \in AddTaskCommands /\ CheckRefusal(e) = Sound

ASSUME ProbesAssumption ==
  \A k \in Keys : ProbeOrder[k] \in Seq(Harps) /\ ProbeOrder[k] # <<>>

ASSUME BoundsAssumption == 
  /\ {Mints, Attempts} \subseteq Nat \ {0}
  /\ MaxCalls \in [Clients -> Nat]
  /\ Cut \in Nat

------------------------------------------------------------------------------
(* Streams. *)

\* A command id: a request's, the same at every attempt (UUIDv5 of operation
\* and key), or one call's own.
RequestId(op, key) == [op |-> op, key |-> key, client |-> NoKey, call |-> 0]
FreshId(c, n) == [op |-> "fresh", key |-> NoKey, client |-> c, call |-> n]
OldId == FreshId(NoKey, 0)
CommandIds ==
  {OldId}
    \cup {RequestId(op, k) : op \in {"add", "set_status"}, k \in Keys}
    \cup UNION {{FreshId(c, n) : n \in 1..MaxCalls[c]} : c \in Clients}

Pages == [event: TaskEvents, recorded_at: {Old, Now}, command_id: CommandIds]

Folded(pages) ==
  LET after[n \in 0..Len(pages)] ==
        IF n = 0 THEN NoTask ELSE Apply(after[n-1], pages[n].event, pages[n].recorded_at)
  IN after[Len(pages)]

Caused(pages, id) == \E i \in DOMAIN pages : pages[i].command_id = id

VARIABLES
  streams,  \* harp -> its stream's pages
  purges,   \* harp -> how many times its stream was purged (history)
  call,     \* client -> the call it is in
  begun,    \* client -> how many calls it began
  answer    \* client -> what its last call was answered with

vars == <<streams, purges, call, begun, answer>>

Task(h) == Folded(streams[h])

\* Removed by a prune and still held: TaskList's unpurged.
Unpurged(h) ==
  /\ streams[h] # <<>>
  /\ streams[h][Len(streams[h])].event \in [type: {"TaskRemoved"}, reason: {"Pruned"}]

\* What a prune takes: a task live, in one of its statuses, last changed
\* before the cut (Selection::holds; its tag query is left out).
Qualifies(task) ==
  /\ task.harp_id # Empty
  /\ ~task.removed
  /\ task.status \in PruneStatuses
  /\ task.status_set_at < Cut

NoRequest == [op |-> "none", key |-> NoKey, harp |-> NoHarp]
NothingFound == [h \in {} |-> 0]

\* No call.  `pc` is where a call is, `harp` the task it is at, `probe` which
\* of an add's harps that is, `loaded` the pages it decided by, `tries` the
\* failures of what it is trying, `seen` the harp's purges when it read what it
\* goes on (history: no step reads it); of a prune, `todo` and `unpurged` are the
\* tasks it selected and has not come to, and `found` those it listed unpurged,
\* with their harps' purges then.
Idle ==
  [pc |-> "idle", request |-> NoRequest, harp |-> NoHarp, probe |-> 0, loaded |-> <<>>,
   tries |-> 0, seen |-> 0, todo |-> {}, unpurged |-> {}, found |-> NothingFound]

Answer(kind, h) == [kind |-> kind, harp |-> h]
Said(kind) == Answer(kind, NoHarp)
AnswerKinds ==
  {"none", "task", "vanished", "refused", "exhausted", "gave_up", "failed", "pruned"}

TypeOK ==
  /\ streams \in [Harps -> Seq(Pages)]
  /\ purges \in [Harps -> Nat]
  /\ begun \in [Clients -> Nat]
  /\ answer \in [Clients -> [kind: AnswerKinds, harp: Harps \cup {NoHarp}]]
  /\ \A c \in Clients :
       /\ begun[c] <= MaxCalls[c]
       /\ call[c].pc \in {"idle", "look", "own", "load", "append", "list", "take",
                          "purge_load", "purge"}
       /\ call[c].request \in Requests \cup {NoRequest}
       /\ call[c].harp \in Harps \cup {NoHarp}
       /\ call[c].loaded \in Seq(Pages)
       /\ call[c].tries \in 0..(Attempts - 1)
       /\ call[c].seen \in Nat
       /\ call[c].todo \cup call[c].unpurged \subseteq Harps

\* What the store holds at first: on each harp nothing, or a task added of old.
OldStreams(h) ==
  {<<[event |-> TaskAddedOf([a EXCEPT !.harp_id = h]), recorded_at |-> Old,
      command_id |-> OldId]>> : a \in OldTasks}

Init ==
  /\ streams \in {s \in [Harps -> UNION {{<<>>} \cup OldStreams(h) : h \in Harps}] :
                    \A h \in Harps : s[h] \in {<<>>} \cup OldStreams(h)}
  /\ purges = [h \in Harps |-> 0]
  /\ call = [c \in Clients |-> Idle]
  /\ begun = [c \in Clients |-> 0]
  /\ answer = [c \in Clients |-> Said("none")]

------------------------------------------------------------------------------
(* What every call is made of. *)

\* The command id a call sends, and the command, to the harp it is at.
CommandId(c) ==
  LET r == call[c].request IN
  IF r.key # NoKey THEN RequestId(r.op, r.key) ELSE FreshId(c, begun[c])

CommandOf(c) ==
  LET r == call[c].request IN
  IF r.op = "add" THEN [r.command EXCEPT !.harp_id = call[c].harp] ELSE r.command

Held(c) == streams[call[c].harp]
HeadMoved(c) == Len(Held(c)) # Len(call[c].loaded)

Goes(c, next) == call' = [call EXCEPT ![c] = next] /\ UNCHANGED answer
To(c, pc) == [call[c] EXCEPT !.pc = pc, !.tries = 0, !.loaded = <<>>, !.seen = 0]

\* c read the stream it is at, and goes on by what it read; or only found there
\* that its own add was applied.
Reads(c, pc) ==
  [call[c] EXCEPT !.pc = pc, !.loaded = Held(c), !.seen = purges[call[c].harp]]
FoundOwn(c) == [To(c, "own") EXCEPT !.seen = purges[call[c].harp]]

Ends(c, said) ==
  /\ call' = [call EXCEPT ![c] = Idle]
  /\ answer' = [answer EXCEPT ![c] = said]

\* Mutants of Retries: one try past the last; never given up on.
RetriesPastTheLast(c, pc) ==
  IF call[c].tries < Attempts
    THEN Goes(c, [call[c] EXCEPT !.pc = pc, !.tries = @ + 1, !.loaded = <<>>, !.seen = 0])
    ELSE Ends(c, Said("gave_up"))
RetriesForEver(c, pc) ==
  Goes(c, [call[c] EXCEPT !.pc = pc, !.loaded = <<>>, !.seen = 0])

\* The store could not say, or the head had moved: tried again from `pc`, or
\* given up on at the last try.
Retries(c, pc) ==
  IF call[c].tries + 1 < Attempts
    THEN Goes(c, [call[c] EXCEPT !.pc = pc, !.tries = @ + 1, !.loaded = <<>>, !.seen = 0])
    ELSE Ends(c, Said("gave_up"))

\* Mutant of Places: a keyed add's harps are minted, not its key's.
MintedPlaces(r, position) == Harps

\* The harps an add may be at, at a position: its key's, or any (minted).
Places(r, position) ==
  IF r.key = NoKey THEN Harps ELSE {ProbeOrder[r.key][position]}
Positions(r) == IF r.key = NoKey THEN Mints ELSE Len(ProbeOrder[r.key])

Adding(c, position) ==
  \E h \in Places(call[c].request, position) :
    Goes(c, [To(c, "load") EXCEPT !.harp = h, !.probe = position])

------------------------------------------------------------------------------
(* The actions. *)

Begin(c, r) ==
  /\ call[c].pc = "idle"
  /\ begun[c] < MaxCalls[c]
  /\ begun' = [begun EXCEPT ![c] = @ + 1]
  /\ LET begin == [Idle EXCEPT !.request = r, !.harp = r.harp] IN
     \/ /\ r.op = "prune"
        /\ Goes(c, [begin EXCEPT !.pc = "list"])
     \/ /\ r.op = "set_status"
        /\ Goes(c, [begin EXCEPT !.pc = "load"])
     \/ /\ r.op = "add"
        /\ \E h \in Places(r, 1) :
             Goes(c, [begin EXCEPT !.pc = IF r.key = NoKey THEN "load" ELSE "look",
                                   !.harp = h, !.probe = 1])
  /\ UNCHANGED <<streams, purges>>

\* Mutant of Look: a keyed add is added without looking for its own.
LookSkipped(c) ==
  /\ call[c].pc = "look"
  /\ Adding(c, 1)
  /\ UNCHANGED <<streams, purges, begun>>

\* own_add: each of the key's harps, in order, is read for this request's own
\* add; none holding it, it is added from the first again.
Look(c) ==
  /\ call[c].pc = "look"
  /\ LET r == call[c].request
         next == call[c].probe + 1 IN
     \/ /\ Caused(Held(c), CommandId(c))
        /\ Goes(c, FoundOwn(c))
     \/ /\ ~Caused(Held(c), CommandId(c))
        /\ next <= Positions(r)
        /\ Goes(c, [call[c] EXCEPT !.harp = ProbeOrder[r.key][next], !.probe = next])
     \/ /\ ~Caused(Held(c), CommandId(c))
        /\ next > Positions(r)
        /\ Adding(c, 1)
  /\ UNCHANGED <<streams, purges, begun>>

\* task_now: a command already applied (DUPLICATE, or a keyed add's own) is
\* answered with the task its harp holds when read.
ReadOwn(c) ==
  /\ call[c].pc = "own"
  /\ Ends(c, IF Folded(Held(c)).harp_id = Empty THEN Said("vanished")
             ELSE Answer("task", call[c].harp))
  /\ UNCHANGED <<streams, purges, begun>>

\* Mutants of Load: the command id is not looked for on the stream; a harp held
\* is taken to hold this request's own add.
LoadUnlooked(c) ==
  LET r == call[c].request
      held == Held(c)
      d == Decide(Folded(held), held # <<>>, CommandOf(c)) IN
  /\ call[c].pc = "load"
  /\ r.op \in {"add", "set_status"}
  /\ IF Records(d) THEN Goes(c, Reads(c, "append"))
     ELSE IF d.refusal = "TaskExists" /\ call[c].probe < Positions(r)
     THEN Adding(c, call[c].probe + 1)
     ELSE Ends(c, IF d = Unchanged THEN Answer("task", call[c].harp) ELSE Said("refused"))
  /\ UNCHANGED <<streams, purges, begun>>
LoadHeldAsOwn(c) ==
  LET held == Held(c)
      d == Decide(Folded(held), held # <<>>, CommandOf(c)) IN
  /\ call[c].pc = "load"
  /\ call[c].request.op \in {"add", "set_status"}
  /\ IF Records(d) THEN Goes(c, Reads(c, "append"))
     ELSE IF d.refusal = "TaskExists" THEN Goes(c, FoundOwn(c))
     ELSE Ends(c, IF d = Unchanged THEN Answer("task", call[c].harp) ELSE Said("refused"))
  /\ UNCHANGED <<streams, purges, begun>>

\* The kernel loads the stream an add or a change is sent to and decides.
Load(c) ==
  LET r == call[c].request
      held == Held(c)
      d == Decide(Folded(held), held # <<>>, CommandOf(c)) IN
  /\ call[c].pc = "load"
  /\ r.op \in {"add", "set_status"}
  /\ \/ /\ Caused(held, CommandId(c))
        /\ Goes(c, FoundOwn(c))
     \/ /\ ~Caused(held, CommandId(c))
        /\ Records(d)
        /\ Goes(c, Reads(c, "append"))
     \/ /\ ~Caused(held, CommandId(c))
        /\ d = Unchanged
        /\ Ends(c, Answer("task", call[c].harp))
     \/ /\ ~Caused(held, CommandId(c))
        /\ d.refusal = "TaskExists"
        /\ IF call[c].probe < Positions(r) THEN Adding(c, call[c].probe + 1)
           ELSE Ends(c, Said("exhausted"))
     \/ /\ ~Caused(held, CommandId(c))
        /\ d.refusal \notin {Sound, "TaskExists"}
        /\ Ends(c, Said("refused"))
     \/ Retries(c, "load")
  /\ UNCHANGED <<streams, purges, begun>>

\* Mutant of LoadRemoval: what was listed is removed, qualifying or not.
LoadRemovalAsListed(c) ==
  LET held == Held(c)
      d == Decide(Folded(held), held # <<>>, CommandOf(c)) IN
  /\ call[c].pc = "load"
  /\ call[c].request.op = "prune"
  /\ Goes(c, IF Records(d) THEN Reads(c, "append")
             ELSE To(c, IF Caused(held, CommandId(c)) THEN "purge_load" ELSE "take"))
  /\ UNCHANGED <<streams, purges, begun>>

\* A prune's removal, shaped by the task as loaded: one no longer qualifying
\* is declined, one removed since let through, for the kernel to answer.
LoadRemoval(c) ==
  LET held == Held(c)
      d == Decide(Folded(held), held # <<>>, CommandOf(c)) IN
  /\ call[c].pc = "load"
  /\ call[c].request.op = "prune"
  /\ \/ /\ ~Folded(held).removed
        /\ ~Qualifies(Folded(held))
        /\ Goes(c, To(c, "take"))
     \/ /\ Qualifies(Folded(held))
        /\ ~Caused(held, CommandId(c))
        /\ Goes(c, Reads(c, "append"))
     \/ /\ Folded(held).removed
        /\ Goes(c, To(c, IF Caused(held, CommandId(c)) THEN "purge_load" ELSE "take"))
     \/ Retries(c, "load")
  /\ UNCHANGED <<streams, purges, begun>>

\* What was decided is appended at the head loaded; the answer may be lost,
\* or the write fail, and it is tried again under the same id.
Commit(c) ==
  LET held == call[c].loaded
      d == Decide(Folded(held), held # <<>>, CommandOf(c))
      page == [event |-> d.event, recorded_at |-> Now, command_id |-> CommandId(c)] IN
  /\ call[c].pc = "append"
  /\ \/ /\ ~HeadMoved(c)
        /\ streams' = [streams EXCEPT ![call[c].harp] = Append(@, page)]
        /\ \/ /\ call[c].request.op = "prune"
              /\ Goes(c, To(c, "purge_load"))
           \/ /\ call[c].request.op # "prune"
              /\ Ends(c, Answer("task", call[c].harp))
           \/ Retries(c, "load")
     \/ /\ UNCHANGED streams
        /\ Retries(c, "load")
  /\ UNCHANGED <<purges, begun>>

\* Mutant of List: only the tasks that qualify are selected.
ListQualifying(c) ==
  /\ call[c].pc = "list"
  /\ LET left == {h \in Harps : Unpurged(h)} IN
     Goes(c, [To(c, "take") EXCEPT !.todo = {h \in Harps : Qualifies(Task(h))},
                                   !.found = [h \in left |-> purges[h]]])
  /\ UNCHANGED <<streams, purges, begun>>

\* A prune selects, from one moment of the store, each task that qualifies and
\* each a prune removed and left unpurged.
List(c) ==
  /\ call[c].pc = "list"
  /\ LET left == {h \in Harps : Unpurged(h)} IN
     Goes(c, [To(c, "take") EXCEPT !.todo = {h \in Harps : Qualifies(Task(h))},
                                   !.unpurged = left,
                                   !.found = [h \in left |-> purges[h]]])
  /\ UNCHANGED <<streams, purges, begun>>

\* The next task selected, in the order added (any order: its instants are
\* abstracted); one listed removed is only purged.
Take(c) ==
  /\ call[c].pc = "take"
  /\ \/ \E h \in call[c].todo :
          Goes(c, [To(c, "load") EXCEPT !.harp = h, !.todo = @ \ {h}])
     \/ \E h \in call[c].unpurged :
          Goes(c, [To(c, "purge_load") EXCEPT !.harp = h, !.unpurged = @ \ {h}])
     \/ /\ call[c].todo \cup call[c].unpurged = {}
        /\ Ends(c, Said("pruned"))
  /\ UNCHANGED <<streams, purges, begun>>

\* Mutant of LoadPurge: whatever the stream holds is purged.
LoadPurgeUnread(c) ==
  /\ call[c].pc = "purge_load"
  /\ IF Held(c) = <<>> THEN Goes(c, To(c, "take"))
     ELSE \/ Goes(c, Reads(c, "purge"))
          \/ Retries(c, "purge_load")
  /\ UNCHANGED <<streams, purges, begun>>

\* purge_removed reads the stream: holding no removed task, nothing is purged.
LoadPurge(c) ==
  /\ call[c].pc = "purge_load"
  /\ \/ /\ ~Folded(Held(c)).removed
        /\ Goes(c, To(c, "take"))
     \/ /\ Folded(Held(c)).removed
        /\ Goes(c, Reads(c, "purge"))
     \/ Retries(c, "purge_load")
  /\ UNCHANGED <<streams, purges, begun>>

\* ... and purges it at the head read, a moved head refused as a conflict.
PurgeAt(c) ==
  LET h == call[c].harp IN
  /\ call[c].pc = "purge"
  /\ \/ /\ ~HeadMoved(c)
        /\ streams' = [streams EXCEPT ![h] = <<>>]
        /\ purges' = [purges EXCEPT ![h] = @ + 1]
        /\ Goes(c, To(c, "take")) \/ Retries(c, "purge_load")
     \/ /\ UNCHANGED <<streams, purges>>
        /\ Retries(c, "purge_load")
  /\ UNCHANGED begun

\* The process dies, or the call fails in a way no retry mends.
Fail(c) ==
  /\ call[c].pc # "idle"
  /\ Ends(c, Said("failed"))
  /\ UNCHANGED <<streams, purges, begun>>

Step(c) ==
  \/ Look(c)
  \/ ReadOwn(c)
  \/ Load(c)
  \/ LoadRemoval(c)
  \/ Commit(c)
  \/ List(c)
  \/ Take(c)
  \/ LoadPurge(c)
  \/ PurgeAt(c)

Next ==
  \E c \in Clients :
    \/ \E r \in Sends[c] : Begin(c, r)
    \/ Step(c)
    \/ Fail(c)

\* A process keeps running its call; no one need begin one, or fail.
Fairness == \A c \in Clients : WF_vars(Step(c))

Spec == Init /\ [][Next]_vars /\ Fairness

------------------------------------------------------------------------------
(* Properties. *)

\* A stream is one task's: its first event adds it, and nothing adds to it
\* again, whoever decided on what (add.rs: a harp another task holds is passed,
\* "never merged into").
NeverMerged ==
  \A h \in Harps : \A i \in DOMAIN streams[h] :
    streams[h][i].event.type = "TaskAdded" <=> i = 1

\* The harps a request's own add is on.
AddedAt(k) == {h \in Harps : Caused(streams[h], RequestId("add", k))}

\* However often a request is sent, at most one task is there for it
\* (request.rs: a retried request "applies nothing").
OneTaskPerRequest == \A k \in Keys : \A g, h \in AddedAt(k) : g = h

\* However calls interleave, fail and are sent again, adding under a request key
\* does what RequestBook says of it.
AddedHarp(k) == IF AddedAt(k) = {} THEN NoHarp ELSE CHOOSE h \in AddedAt(k) : TRUE
Book == INSTANCE RequestBook WITH added <- [k \in Keys |-> AddedHarp(k)]
ImplementsRequestBook == Book!Spec

\* A request's command is on a stream at most once.
OneEffectPerRequest ==
  \A h \in Harps : \A i, j \in DOMAIN streams[h] :
    streams[h][i].command_id = streams[h][j].command_id => i = j

\* A keyed add is answered with the task its own request added, whichever
\* attempt added it, and that the task is gone (409 vanished) only if it is; both
\* unless its harp was purged between its finding the add and its reading the task.
PurgedSinceSeen(c) == purges[call[c].harp] > call[c].seen
OwnAnswer ==
  [][\A c \in Clients :
       call[c].request.op = "add" /\ call[c].request.key # NoKey /\ call'[c].pc = "idle"
         => /\ answer'[c].kind = "task"
                 => \/ Caused(streams'[answer'[c].harp], CommandId(c))
                    \/ call[c].pc = "own" /\ PurgedSinceSeen(c)
            /\ answer'[c].kind = "vanished" => PurgedSinceSeen(c)]_vars

\* What is purged is a removed task's stream, never a live one's (prune.rs: a
\* task minted on the freed harp meanwhile "is never purged").
PurgesOnlyRemoved ==
  [][\A h \in Harps : streams[h] # <<>> /\ streams'[h] = <<>> => Task(h).removed]_vars

\* A prune, whoever prunes beside it, removes a task only if it qualifies as it
\* is removed, and purges one only if it is removed: one moved on or changed
\* since it was listed or read is left, unless it was purged since, and another
\* minted on its harp to as many pages (PurgesOnlyRemoved is that case).
PrunesAsRead ==
  [][\A c \in Clients :
       LET h == call[c].harp IN
       call'[c] # call[c] /\ call[c].request.op = "prune" /\ streams' # streams
         => \/ PurgedSinceSeen(c)
            \/ call[c].pc = "append" /\ Qualifies(Task(h))
            \/ call[c].pc = "purge" /\ Task(h).removed]_vars

\* A prune that runs to its end finishes every prune it found half done: the
\* stream of each task it listed removed and unpurged was purged since.
FinishesUnpurged ==
  [][\A c \in Clients :
       call[c].request.op = "prune" /\ answer'[c].kind = "pruned" /\ call'[c].pc = "idle"
         => \A h \in DOMAIN call[c].found : purges[h] > call[c].found[h]]_vars

\* Every call is answered: the retries of whatever conflicts and failures it
\* meets end, and a prune comes to the end of what it selected.
EveryCallEnds == \A c \in Clients : call[c].pc # "idle" ~> call[c].pc = "idle"
=============================================================================
