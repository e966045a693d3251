--------------------------- MODULE ProjectRegistry ---------------------------
(***************************************************************************)
(* Which project a directory is: a marker in its tree, an older marker, or *)
(* an entry of the registry under the home, read in that order by every    *)
(* process and written by several.  Only the registry's lock orders the    *)
(* writes, and an older marker is adopted without it.  A process may die   *)
(* between any two steps: its lock goes with it, and what it wrote stays.  *)
(*                                                                         *)
(* Paths are canonical and ids valid.  A pinned project is left out: it is *)
(* resolved without reading a tree, and binds nothing.  A tree is not      *)
(* deleted under a command running in it, and none comes back to its path. *)
(***************************************************************************)
EXTENDS Naturals, FiniteSets, Sequences, Functions

CONSTANTS
  Trees,      \* the work trees' paths
  Ids,        \* project ids, the ones drawn by a mint too
  Clients,    \* processes
  Primary,    \* tree -> its primary checkout, itself but for a linked worktree
  Calls,      \* client -> the calls it may make
  MaxCalls,   \* bound: the calls each makes
  Starts      \* what the first command finds: markers, older markers,
              \* registry and databases

NoId == "<no id>"
Blank == "<blank>"        \* a marker naming nothing
Absent == "<no marker>"
Nobody == "<nobody>"

Entries == [id: Ids, path: Trees]
CallTypes == [op: {"write", "heal", "repoint", "remove"}, tree: Trees,
              ids: SUBSET Ids, share: BOOLEAN]
Markers == [Trees -> Ids \cup {Blank, Absent}]

ASSUME NamesAssumption == {NoId, Blank, Absent} \cap Ids = {} /\ Nobody \notin Clients
ASSUME TreesAssumption == Trees # {}
ASSUME PrimaryAssumption ==
  Primary \in [Trees -> Trees] /\ \A r \in Trees : Primary[Primary[r]] = Primary[r]
ASSUME CallsAssumption ==
  /\ MaxCalls \in Nat
  /\ \A c \in Clients : Calls[c] \subseteq CallTypes
  /\ \A c \in Clients : \A k \in Calls[c] : k.op = "repoint" => \E id \in Ids : k.ids = {id}
ASSUME StartsAssumption ==
  Starts \subseteq [marker: Markers, legacy: Markers, index: Seq(Entries),
                    databases: SUBSET Ids]

VARIABLES
  live,       \* the trees that exist
  marker,     \* tree -> its .project-id
  legacy,     \* tree -> its .ctxloom/project-id, written by an older version
  index,      \* the registry's entries, in order
  databases,  \* the ids with a directory under the home's projects
  lock,       \* who holds the registry's lock
  call,       \* client -> the call it is in
  begun,      \* client -> how many calls it began
  answer      \* client -> how its last call was answered

vars == <<live, marker, legacy, index, databases, lock, call, begun, answer>>
files == <<live, marker, legacy, index, databases>>

ATree == CHOOSE r \in Trees : TRUE
Surveys ==
  [root: Trees, resolved: Ids \cup {NoId}, marker: Ids \cup {NoId}, legacy: Ids \cup {NoId},
   registry: Seq([id: Ids, path: Trees, exists: BOOLEAN]), databases: SUBSET Ids]

\* What a call has seen before its survey.
NoSurvey ==
  [root |-> ATree, resolved |-> NoId, marker |-> NoId, legacy |-> NoId, registry |-> <<>>,
   databases |-> {}]

\* A change: entries registered and unregistered, a marker written, databases
\* removed.
Planned(register, unregister, mark, removes) ==
  [register |-> register, unregister |-> unregister, mark |-> mark, removes |-> removes]
NothingPlanned == Planned({}, {}, FALSE, {})

Idle ==
  [pc |-> "idle", op |-> "write", tree |-> ATree, ids |-> {}, share |-> FALSE,
   root |-> ATree, id |-> NoId, seen |-> NoSurvey, plan |-> NothingPlanned]

TypeOK ==
  /\ live \subseteq Trees
  /\ marker \in Markers
  /\ legacy \in Markers
  /\ index \in Seq(Entries)
  /\ databases \subseteq Ids
  /\ lock \in Clients \cup {Nobody}
  /\ call \in [Clients ->
       [pc: {"idle", "root", "markers", "adopt", "entry", "lock", "mark", "open",
             "survey", "apply", "recheck", "save", "remove"},
        op: {"write", "heal", "repoint", "remove"}, tree: Trees, ids: SUBSET Ids,
        share: BOOLEAN, root: Trees, id: Ids \cup {NoId}, seen: Surveys,
        plan: [register: SUBSET Entries, unregister: SUBSET Entries, mark: BOOLEAN,
               removes: SUBSET Ids]]]
  /\ begun \in [Clients -> 0..MaxCalls]
  /\ answer \in [Clients -> {"none", "written", "done", "refused", "failed"}]

Init ==
  /\ live = Trees
  /\ \E start \in Starts :
       /\ marker = start.marker
       /\ legacy = start.legacy
       /\ index = start.index
       /\ databases = start.databases
  /\ lock = Nobody
  /\ call = [c \in Clients |-> Idle]
  /\ begun = [c \in Clients |-> 0]
  /\ answer = [c \in Clients |-> "none"]

------------------------------------------------------------------------------
(* What a tree's identity rests on. *)

\* Mutant of Named: a blank marker is read as a name.
NamedBlank(m) == IF m = Absent THEN NoId ELSE m

Named(m) == IF m \in Ids THEN m ELSE NoId

HasMarker(r) == marker[r] # Absent \/ legacy[r] # Absent

\* A linked worktree with no marker of its own, blank ones included, is its
\* primary checkout's project; with that gone it is none.
IdentityRoot(r) == IF HasMarker(r) THEN r ELSE Primary[r]
StaleWorktree(r) == IdentityRoot(r) \notin live

\* The first entry registered for the path.
IdFor(r) ==
  LET at == {i \in DOMAIN index : index[i].path = r} IN
  IF at = {} THEN NoId ELSE index[CHOOSE i \in at : \A j \in at : i <= j].id

Bound(r) ==
  IF Named(marker[r]) # NoId THEN marker[r]
  ELSE IF Named(legacy[r]) # NoId THEN legacy[r]
  ELSE IdFor(r)

Resolved(r) == IF StaleWorktree(r) THEN NoId ELSE Bound(IdentityRoot(r))

SurveyAt(r) ==
  LET root == IdentityRoot(r) IN
  [root |-> root, resolved |-> Bound(root),
   marker |-> Named(marker[root]), legacy |-> Named(legacy[root]),
   registry |-> [i \in DOMAIN index |-> [id |-> index[i].id, path |-> index[i].path,
                                         exists |-> index[i].path \in live]],
   databases |-> databases]

------------------------------------------------------------------------------
(* What is planned from a survey. *)

Registered(seen) == {seen.registry[i] : i \in DOMAIN seen.registry}
IdsAt(seen, root) == {e.id : e \in {e \in Registered(seen) : e.path = root}}

Registering(seen, root, id) ==
  IF id \in IdsAt(seen, root) THEN {} ELSE {[id |-> id, path |-> root]}
Gone(seen, id) ==
  {[id |-> id, path |-> e.path] : e \in {e \in Registered(seen) : e.id = id /\ ~e.exists}}

\* Mutant of BindPlan: what else the root is registered as is left.
BindBeside(seen, root, id, mark) ==
  Planned(Registering(seen, root, id), Gone(seen, id), mark, {})

\* root bound to id alone, and id's entries whose paths are gone dropped.
BindPlan(seen, root, id, mark) ==
  Planned(Registering(seen, root, id),
          {[id |-> other, path |-> root] : other \in IdsAt(seen, root) \ {id}} \cup Gone(seen, id),
          mark, {})

\* What the root's marker, or its older one, names.
MarkedAs(seen) == IF seen.marker # NoId THEN seen.marker ELSE seen.legacy

\* The id a heal binds its root to: the marked one, else the only one the root
\* is registered as; two and no marker are left to a repoint.
HealId(seen) ==
  LET at == IdsAt(seen, seen.root) IN
  IF MarkedAs(seen) = NoId /\ Cardinality(at) = 1 THEN CHOOSE id \in at : TRUE
  ELSE MarkedAs(seen)

HealPlan(seen) ==
  IF MarkedAs(seen) = NoId THEN Planned({}, {}, HealId(seen) # NoId, {})
  ELSE BindPlan(seen, seen.root, MarkedAs(seen), seen.marker = NoId)

HeldElsewhere(seen, root, id) ==
  /\ id \notin IdsAt(seen, root)
  /\ \E e \in Registered(seen) : e.id = id /\ e.exists /\ e.path # root

RepointRefused(seen, tree, id, share) ==
  \/ id \notin {e.id : e \in Registered(seen)} \cup seen.databases
  \/ HeldElsewhere(seen, tree, id) /\ ~share /\ seen.resolved # id

RepointPlan(seen, tree, id) ==
  BindPlan(seen, tree, id, ~(seen.root = tree /\ seen.marker = id))

Orphans(seen) ==
  {id \in seen.databases \ {seen.resolved} :
     ~\E e \in Registered(seen) : e.id = id /\ e.exists}

------------------------------------------------------------------------------
(* What `project show` finds wrong in a survey. *)

Problem(what, ids, at) == [what |-> what, ids |-> ids, at |-> at]

\* The root's: bound to two ids, or to one its marker names and the registry
\* does not; no marker, or only an older one.
RootProblems(seen) ==
  LET at == IdsAt(seen, seen.root)
      marked == {MarkedAs(seen)} \ {NoId}
      ids == IF at = {} THEN {} ELSE at \cup marked IN
  (IF Cardinality(ids) > 1 THEN {Problem("TwoIds", ids, seen.root)}
   ELSE IF ids = {} /\ marked # {} THEN {Problem("Unregistered", marked, seen.root)}
   ELSE {})
  \cup (IF marked = {} /\ Cardinality(ids) = 1
          THEN {Problem("MissingMarker", ids, seen.root)}
        ELSE IF seen.marker = NoId /\ seen.legacy # NoId
          THEN {Problem("LegacyMarkerOnly", marked, seen.root)}
        ELSE {})

\* ... then the registry's entries whose paths are gone, and the orphans.
Problems(seen) ==
  RootProblems(seen)
    \cup {Problem("Gone", {e.id}, e.path) : e \in {e \in Registered(seen) : ~e.exists}}
    \cup {Problem("Orphan", {id}, Nobody) : id \in Orphans(seen)}

\* What a heal of it leaves: two ids and no marker to choose by.
Unresolved(seen) ==
  IF MarkedAs(seen) = NoId
    THEN {Problem("TwoIds", ids, seen.root) :
            ids \in {ids \in {IdsAt(seen, seen.root)} : Cardinality(ids) > 1}}
    ELSE {}

------------------------------------------------------------------------------
(* The steps of a call. *)

Goes(c, next) == call' = [call EXCEPT ![c] = next] /\ UNCHANGED answer
To(c, pc) == Goes(c, [call[c] EXCEPT !.pc = pc])

Release(c) == lock' = IF lock = c THEN Nobody ELSE lock

Ends(c, said) ==
  /\ call' = [call EXCEPT ![c] = Idle]
  /\ answer' = [answer EXCEPT ![c] = said]
  /\ Release(c)

\* The project is resolved to id: the lock is dropped, and its store opened.
Resolves(c, id) ==
  /\ Goes(c, [call[c] EXCEPT !.pc = "open", !.id = id])
  /\ Release(c)

Begin(c, k) ==
  /\ call[c].pc = "idle"
  /\ begun[c] < MaxCalls
  /\ k \in Calls[c]
  /\ k.tree \in live
  /\ begun' = [begun EXCEPT ![c] = @ + 1]
  /\ Goes(c, [Idle EXCEPT !.pc = IF k.op = "write" THEN "root" ELSE "survey",
                !.op = k.op, !.tree = k.tree, !.root = k.tree, !.ids = k.ids,
                !.share = k.share])
  /\ UNCHANGED <<files, lock>>

FindRoot(c) ==
  /\ call[c].pc = "root"
  /\ IF StaleWorktree(call[c].tree) THEN Ends(c, "refused")
     ELSE /\ Goes(c, [call[c] EXCEPT !.pc = "markers", !.root = IdentityRoot(call[c].tree)])
          /\ UNCHANGED lock
  /\ UNCHANGED <<files, begun>>

\* bound reads the markers, then the registry: first without the lock, and,
\* finding nothing, once more under it.
ReadMarkers(c) ==
  LET r == call[c].root IN
  /\ call[c].pc = "markers"
  /\ \/ Named(marker[r]) # NoId /\ Resolves(c, marker[r])
     \/ /\ Named(marker[r]) = NoId
        /\ IF Named(legacy[r]) # NoId
           THEN Goes(c, [call[c] EXCEPT !.pc = "adopt", !.id = legacy[r]])
           ELSE To(c, "entry")
        /\ UNCHANGED lock
  /\ UNCHANGED <<files, begun>>

\* The older marker is written into .project-id, whatever that holds by now.
Adopt(c) ==
  /\ call[c].pc = "adopt"
  /\ marker' = [marker EXCEPT ![call[c].root] = call[c].id]
  /\ Resolves(c, call[c].id)
  /\ UNCHANGED <<live, legacy, index, databases, begun>>

ReadEntry(c) ==
  LET id == IdFor(call[c].root) IN
  /\ call[c].pc = "entry"
  /\ \/ id # NoId /\ Resolves(c, id)
     \/ id = NoId /\ lock # c /\ To(c, "lock") /\ UNCHANGED lock
  /\ UNCHANGED <<files, begun>>

\* Mutant of Mint: the registry is not read again under the lock.
MintUnread(c) ==
  LET r == call[c].root
      free == Ids \ (databases \cup {index[i].id : i \in DOMAIN index}) IN
  /\ call[c].pc = "entry"
  /\ lock = c
  /\ \/ /\ free = {}
        /\ Ends(c, "refused")
        /\ UNCHANGED index
     \/ \E id \in free :
          /\ index' = Append(index, [id |-> id, path |-> r])
          /\ Goes(c, [call[c] EXCEPT !.pc = "mark", !.id = id])
          /\ UNCHANGED lock
  /\ UNCHANGED <<live, marker, legacy, databases, begun>>

\* Still unbound under the lock: an id neither the registry nor a database
\* holds is drawn and registered; there may be none.
Mint(c) ==
  LET r == call[c].root
      free == Ids \ (databases \cup {index[i].id : i \in DOMAIN index}) IN
  /\ call[c].pc = "entry"
  /\ lock = c
  /\ IdFor(r) = NoId
  /\ \/ /\ free = {}
        /\ Ends(c, "refused")
        /\ UNCHANGED index
     \/ \E id \in free :
          /\ index' = Append(index, [id |-> id, path |-> r])
          /\ Goes(c, [call[c] EXCEPT !.pc = "mark", !.id = id])
          /\ UNCHANGED lock
  /\ UNCHANGED <<live, marker, legacy, databases, begun>>

TakeLock(c) ==
  /\ call[c].pc \in {"lock", "apply"}
  /\ lock = Nobody
  /\ lock' = c
  /\ To(c, IF call[c].pc = "lock" THEN "markers" ELSE "recheck")
  /\ UNCHANGED <<files, begun>>

\* The wait for whoever holds the lock is bounded.
LockTimeout(c) ==
  /\ call[c].pc \in {"lock", "apply"}
  /\ lock # Nobody
  /\ Ends(c, "refused")
  /\ UNCHANGED <<files, begun>>

\* The marker a mint, a heal or a repoint writes, after the registry.
Mark(c) ==
  /\ call[c].pc = "mark"
  /\ marker' = [marker EXCEPT ![call[c].root] = call[c].id]
  /\ IF call[c].op = "write" THEN Resolves(c, call[c].id) ELSE Ends(c, "done")
  /\ UNCHANGED <<live, legacy, index, databases, begun>>

\* The project's store is opened, its directory made if need be.
OpenStore(c) ==
  /\ call[c].pc = "open"
  /\ databases' = databases \cup {call[c].id}
  /\ Ends(c, "written")
  /\ UNCHANGED <<live, marker, legacy, index, begun>>

------------------------------------------------------------------------------
(* The steps of a change: heal, repoint, and the removal of orphans. *)

\* To root and id what is planned, or ends where nothing is.
Plans(c, seen, plan, root, id) ==
  IF plan = NothingPlanned THEN Ends(c, "done")
  ELSE /\ Goes(c, [call[c] EXCEPT !.pc = "apply", !.seen = seen, !.plan = plan, !.root = root,
                     !.id = id])
       /\ UNCHANGED lock

Survey(c) ==
  LET seen == SurveyAt(call[c].tree)
      tree == call[c].tree
      ids == call[c].ids IN
  /\ call[c].pc = "survey"
  /\ IF StaleWorktree(tree) THEN Ends(c, "refused")
     ELSE \/ /\ call[c].op = "heal"
             /\ Plans(c, seen, HealPlan(seen), seen.root, HealId(seen))
          \/ /\ call[c].op = "repoint"
             /\ \E id \in ids :
                  IF RepointRefused(seen, tree, id, call[c].share) THEN Ends(c, "refused")
                  ELSE Plans(c, seen, RepointPlan(seen, tree, id), tree, id)
          \/ /\ call[c].op = "remove"
             /\ IF ~(ids \subseteq Orphans(seen)) THEN Ends(c, "refused")
                ELSE Plans(c, seen, Planned({}, {}, FALSE, ids), tree, NoId)
  /\ UNCHANGED <<files, begun>>

AfterSave(c) ==
  CASE call[c].plan.mark -> To(c, "mark") /\ UNCHANGED lock
    [] call[c].plan.removes # {} -> To(c, "remove") /\ UNCHANGED lock
    [] OTHER -> Ends(c, "done")

\* Mutant of Unmoved: the survey the change was planned from is trusted.
Trusted(c) == ~StaleWorktree(call[c].tree)

Unmoved(c) == ~StaleWorktree(call[c].tree) /\ SurveyAt(call[c].tree) = call[c].seen

\* Under the lock: made only while a fresh survey is the one seen.
Recheck(c) ==
  /\ call[c].pc = "recheck"
  /\ IF Unmoved(c) THEN To(c, "save") /\ UNCHANGED lock ELSE Ends(c, "refused")
  /\ UNCHANGED <<files, begun>>

\* The entries but the dropped, in order.
Without(entries, dropped) ==
  LET kept[n \in 0..Len(entries)] ==
        IF n = 0 THEN <<>>
        ELSE IF entries[n] \in dropped THEN kept[n - 1] ELSE Append(kept[n - 1], entries[n])
  IN kept[Len(entries)]

\* The registry's changes, in one write, before the others.
Save(c) ==
  LET plan == call[c].plan
      added == IF plan.register = {} THEN <<>> ELSE <<CHOOSE e \in plan.register : TRUE>> IN
  /\ call[c].pc = "save"
  /\ index' = IF plan.register \cup plan.unregister = {} THEN index
              ELSE Without(index \o added, plan.unregister)
  /\ AfterSave(c)
  /\ UNCHANGED <<live, marker, legacy, databases, begun>>

RemoveDatabase(c) ==
  /\ call[c].pc = "remove"
  /\ \E id \in call[c].plan.removes :
       /\ databases' = databases \ {id}
       /\ IF call[c].plan.removes = {id} THEN Ends(c, "done")
          ELSE /\ Goes(c, [call[c] EXCEPT !.plan.removes = @ \ {id}])
               /\ UNCHANGED lock
  /\ UNCHANGED <<live, marker, legacy, index, begun>>

------------------------------------------------------------------------------
\* The process dies, or a read or a write fails it, between two of its steps.
Fail(c) ==
  /\ call[c].pc # "idle"
  /\ Ends(c, "failed")
  /\ UNCHANGED <<files, begun>>

\* A tree is deleted, its markers with it.
Vanish(r) ==
  /\ r \in live
  /\ \A c \in Clients : call[c].pc # "idle" =>
       r \notin {call[c].tree, call[c].root, Primary[call[c].tree]}
  /\ live' = live \ {r}
  /\ marker' = [marker EXCEPT ![r] = Absent]
  /\ legacy' = [legacy EXCEPT ![r] = Absent]
  /\ UNCHANGED <<index, databases, lock, call, begun, answer>>

Next ==
  \/ \E c \in Clients :
       \/ \E k \in Calls[c] : Begin(c, k)
       \/ FindRoot(c)
       \/ ReadMarkers(c)
       \/ Adopt(c)
       \/ ReadEntry(c)
       \/ Mint(c)
       \/ TakeLock(c)
       \/ LockTimeout(c)
       \/ Mark(c)
       \/ OpenStore(c)
       \/ Survey(c)
       \/ Recheck(c)
       \/ Save(c)
       \/ RemoveDatabase(c)
       \/ Fail(c)
  \/ \E r \in Trees : Vanish(r)

Spec == Init /\ [][Next]_vars

------------------------------------------------------------------------------
(* Properties. *)

\* A tree's project, once it has one, changes only by a repoint of the tree, or
\* of the primary checkout it is the project of: binds racing each other, heals,
\* adopted markers and changes that died half made leave it what it was.
ResolutionStands ==
  [][\A r \in live :
       live' = live /\ Resolved(r) # NoId /\ Resolved(r)' # Resolved(r)
         => \E c \in Clients : /\ call[c].op = "repoint"
                               /\ call[c].pc \in {"save", "mark"}
                               /\ call[c].tree \in {r, IdentityRoot(r)}]_vars

\* Two live trees come to be registered as one project only by a heal, whose
\* marker says so, by a repoint told to share, or by one of a tree that is that
\* project already: never by two commands neither of which saw the other.
MergesOnlyMeant ==
  [][\A e \in Range(index') \ Range(index), f \in Range(index') :
       e.id = f.id /\ e.path # f.path /\ f.path \in live
         => \E c \in Clients :
              /\ call[c].pc = "save"
              /\ call[c].op = "heal" \/ call[c].share \/ Resolved(call[c].tree) = e.id]_vars

\* A heal that says it is done leaves `project show` nothing to say of its root
\* but what the heal could not resolve, and it left that alone: one with changes
\* to make, or none, also where what it heals died half made.  Nor is the marked
\* project still registered at a path that was gone.
HealsWhole ==
  [][\A c \in Clients :
       LET seen == IF call[c].pc = "survey" THEN SurveyAt(call[c].tree) ELSE call[c].seen IN
       call[c].op = "heal" /\ call[c].pc # "idle" /\ answer'[c] = "done" /\ call'[c].pc = "idle"
         => \A r \in {seen.root} :
              /\ RootProblems(SurveyAt(r)') = Unresolved(seen)
              /\ \A p \in Problems(seen) \cap Problems(SurveyAt(r)') :
                   p.what = "Gone" => p.ids # {MarkedAs(seen)}]_vars

\* A database removed is of no live registered tree: not of one bound, repointed
\* or healed to it since it was seen orphaned.
RemovesOnlyOrphans ==
  [][\A id \in databases \ databases' :
       ~\E e \in Range(index) : e.id = id /\ e.path \in live]_vars
=============================================================================
