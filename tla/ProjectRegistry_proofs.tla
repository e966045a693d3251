------------------------ MODULE ProjectRegistry_proofs ------------------------
(***************************************************************************)
(* For any trees, ids and processes, dying anywhere: a database is removed *)
(* only while no live registered tree is its project.  A removal was       *)
(* planned from a survey that saw it orphaned, and what a fresh survey     *)
(* under the lock confirmed stays so, since the registry is written under  *)
(* the lock alone (LockHeld) and no path comes back to be live.            *)
(*                                                                         *)
(* Where no older version marked a tree: a tree's project, once it has     *)
(* one, stands but for a repoint, and two trees are made one only as       *)
(* meant.  The invariant (StandInv) says of each call what it saves and    *)
(* marks, and what of the files that rests on while it holds the lock.     *)
(* A heal that says it is done left nothing of its root to heal (HealInv): *)
(* what it saw under the lock is so until its last step.                   *)
(***************************************************************************)
EXTENDS ProjectRegistry, FiniteSetTheorems, SequenceTheorems, WellFoundedInduction, TLAPS

IsPlan(p) ==
  p = [register |-> p.register, unregister |-> p.unregister, mark |-> p.mark,
       removes |-> p.removes]
IsCall(k) ==
  /\ k \in [pc: {k.pc}, op: {k.op}, tree: {k.tree}, ids: {k.ids}, share: {k.share},
            root: {k.root}, id: {k.id}, seen: {k.seen}, plan: {k.plan}]
  /\ IsPlan(k.plan)

Orphaned(id) == ~\E e \in Range(index) : e.id = id /\ e.path \in live

Locking == {"recheck", "save", "mark", "remove"}

\* A plan that removes databases changes nothing else.
RemovesAlone(k) ==
  k.plan.removes # {} => k.plan.register = {} /\ k.plan.unregister = {}
SeenOrphaned(k) ==
  k.pc \in {"apply", "recheck"} => k.plan.removes \subseteq Orphans(k.seen)

CallsShaped == call = [c \in Clients |-> call[c]] /\ \A c \in Clients : IsCall(call[c])
LockHeld == \A c \in Clients : call[c].pc \in Locking => lock = c
RemovalsPlanned == \A c \in Clients : RemovesAlone(call[c]) /\ SeenOrphaned(call[c])
RemovalsOrphaned ==
  \A c \in Clients : call[c].pc \in {"save", "remove"} =>
    \A id \in call[c].plan.removes : Orphaned(id)

IInv ==
  /\ CallsShaped
  /\ LockHeld
  /\ RemovalsPlanned
  /\ RemovalsOrphaned

------------------------------------------------------------------------------
LEMMA IdleShaped ==
  IsCall(Idle) /\ Idle.pc = "idle" /\ Idle.plan.removes = {}
  BY DEF Idle, IsCall, IsPlan, NothingPlanned, Planned

LEMMA InitIInv == Init => IInv
  BY IdleShaped
  DEF Init, IInv, CallsShaped, LockHeld, RemovalsPlanned, RemovalsOrphaned, Locking,
      RemovesAlone, SeenOrphaned

LockMoves(c) ==
  \/ lock' = lock
  \/ lock = c /\ lock' = Nobody
  \/ lock = Nobody /\ lock' = c

(* What a step of one call must do to keep what is claimed of all.         *)
LEMMA CallMoves ==
  ASSUME IInv, NEW c \in Clients, NEW next,
         call' = [call EXCEPT ![c] = next],
         IsCall(next), RemovesAlone(next), SeenOrphaned(next),
         LockMoves(c), next.pc \in Locking => lock' = c,
         index' = index \/ lock = c, live' = live,
         next.pc \in {"save", "remove"} => \A id \in next.plan.removes : Orphaned(id)'
  PROVE  IInv'
<1>1. /\ call'[c] = next
      /\ \A d \in Clients : d # c => call'[d] = call[d]
      /\ call' = [d \in Clients |-> call'[d]]
  BY DEF IInv, CallsShaped
<1>2. CallsShaped'
  BY <1>1 DEF IInv, CallsShaped
<1>3. LockHeld'
  BY <1>1, NamesAssumption DEF IInv, LockHeld, LockMoves
<1>4. RemovalsPlanned'
  BY <1>1 DEF IInv, RemovalsPlanned, RemovesAlone, SeenOrphaned, Orphans, Registered
<1>5. ASSUME NEW d \in Clients, call'[d].pc \in {"save", "remove"},
             NEW id \in call'[d].plan.removes
      PROVE  Orphaned(id)'
  <2>1. CASE d = c
    BY <1>1, <1>5, <2>1
  <2>2. CASE d # c
    <3>1. lock = d /\ Orphaned(id)
      BY <1>1, <1>5, <2>2 DEF IInv, LockHeld, Locking, RemovalsOrphaned
    <3>2. index' = index
      BY <2>2, <3>1
    <3> QED
      BY <3>1, <3>2 DEF Orphaned
  <2> QED
    BY <2>1, <2>2
<1> QED
  BY <1>2, <1>3, <1>4, <1>5 DEF IInv, RemovalsOrphaned

(* A call that ends, and one that goes on with what it planned.            *)
LEMMA CallEnds ==
  ASSUME IInv, NEW c \in Clients, NEW said, Ends(c, said), index' = index \/ lock = c,
         live' = live
  PROVE  IInv'
<1>1. call' = [call EXCEPT ![c] = Idle] /\ LockMoves(c)
  BY DEF Ends, Release, LockMoves
<1>2. RemovesAlone(Idle) /\ SeenOrphaned(Idle)
  BY IdleShaped DEF RemovesAlone, SeenOrphaned
<1> QED
  BY <1>1, <1>2, IdleShaped, CallMoves DEF Locking

LEMMA CallGoes ==
  ASSUME IInv, NEW c \in Clients, NEW next, Goes(c, next), IsCall(next),
         next.plan = call[c].plan, next.pc \notin {"apply", "recheck", "save", "remove"},
         LockMoves(c), next.pc \in Locking => lock' = c,
         index' = index \/ lock = c, live' = live
  PROVE  IInv'
<1>1. RemovesAlone(next) /\ SeenOrphaned(next)
  BY DEF IInv, RemovalsPlanned, RemovesAlone, SeenOrphaned
<1> QED
  BY <1>1, CallMoves DEF Goes

LEMMA CallResolves ==
  ASSUME IInv, NEW c \in Clients, NEW id, Resolves(c, id), index' = index, live' = live
  PROVE  IInv'
<1> DEFINE next == [call[c] EXCEPT !.pc = "open", !.id = id]
<1>1. IsCall(call[c])
  BY DEF IInv, CallsShaped
<1>2. IsCall(next) /\ next.plan = call[c].plan /\ next.pc = "open"
  BY <1>1 DEF IsCall
<1>3. Goes(c, next) /\ LockMoves(c)
  BY DEF Resolves, Release, LockMoves
<1> HIDE DEF next
<1> QED
  BY <1>2, <1>3, CallGoes DEF Locking

(* A call at its next step, with what it planned, and its lock.            *)
LEMMA CallTo ==
  ASSUME IInv, NEW c \in Clients, NEW pc, To(c, pc), index' = index \/ lock = c,
         live' = live, UNCHANGED lock, pc \notin {"apply", "recheck", "save", "remove"},
         pc \in Locking => lock = c
  PROVE  IInv'
<1> DEFINE next == [call[c] EXCEPT !.pc = pc]
<1>1. IsCall(call[c])
  BY DEF IInv, CallsShaped
<1>2. IsCall(next) /\ next.plan = call[c].plan /\ next.pc = pc
  BY <1>1 DEF IsCall
<1>3. Goes(c, next) /\ LockMoves(c)
  BY DEF To, LockMoves
<1> HIDE DEF next
<1> QED
  BY <1>2, <1>3, CallGoes

------------------------------------------------------------------------------
(* Plans. *)

LEMMA PlanShaped ==
  ASSUME NEW register, NEW unregister, NEW mark, NEW removes
  PROVE  LET plan == Planned(register, unregister, mark, removes) IN
         /\ IsPlan(plan)
         /\ plan.register = register
         /\ plan.unregister = unregister
         /\ plan.removes = removes
  BY DEF Planned, IsPlan

LEMMA BindingShaped ==
  ASSUME NEW seen, NEW tree, NEW id
  PROVE  /\ IsPlan(HealPlan(seen)) /\ HealPlan(seen).removes = {}
         /\ IsPlan(RepointPlan(seen, tree, id)) /\ RepointPlan(seen, tree, id).removes = {}
  BY PlanShaped DEF HealPlan, RepointPlan, BindPlan

(* A plan is laid, or there is nothing to do.                              *)
LEMMA CallPlans ==
  ASSUME IInv, NEW c \in Clients, NEW seen, NEW plan, NEW root, NEW id,
         Plans(c, seen, plan, root, id), IsPlan(plan),
         plan.removes # {} => plan.register = {} /\ plan.unregister = {},
         plan.removes \subseteq Orphans(seen), index' = index, live' = live
  PROVE  IInv'
<1>1. CASE Ends(c, "done")
  BY <1>1, CallEnds
<1>2. CASE ~Ends(c, "done")
  <2> DEFINE next == [call[c] EXCEPT !.pc = "apply", !.seen = seen, !.plan = plan,
                        !.root = root, !.id = id]
  <2>1. call' = [call EXCEPT ![c] = next] /\ LockMoves(c)
    BY <1>2 DEF Plans, Goes, LockMoves
  <2>2. IsCall(call[c])
    BY DEF IInv, CallsShaped
  <2>3. IsCall(next) /\ next.pc = "apply" /\ next.plan = plan /\ next.seen = seen
    BY <2>2 DEF IsCall
  <2> HIDE DEF next
  <2>4. RemovesAlone(next) /\ SeenOrphaned(next)
    BY <2>3 DEF RemovesAlone, SeenOrphaned
  <2> QED
    BY <2>1, <2>3, <2>4, CallMoves DEF Locking
<1> QED
  BY <1>1, <1>2

(* What a survey sees orphaned is.                                         *)
LEMMA SurveySees ==
  ASSUME NEW r, NEW id \in Orphans(SurveyAt(r))
  PROVE  Orphaned(id)
<1> SUFFICES ASSUME NEW e \in Range(index), e.id = id, e.path \in live PROVE FALSE
  BY DEF Orphaned
<1> DEFINE seen == SurveyAt(r)
<1>1. PICK i \in DOMAIN index : e = index[i]
  BY DEF Range
<1>2. seen.registry = [j \in DOMAIN index |-> [id |-> index[j].id, path |-> index[j].path,
                                               exists |-> index[j].path \in live]]
  BY DEF SurveyAt
<1> HIDE DEF seen
<1>3. DOMAIN seen.registry = DOMAIN index
      /\ seen.registry[i] = [id |-> id, path |-> e.path, exists |-> TRUE]
  BY <1>1, <1>2
<1>4. seen.registry[i] \in Registered(seen)
  BY <1>1, <1>3 DEF Registered
<1>5. [id |-> id, path |-> e.path, exists |-> TRUE].id = id
      /\ [id |-> id, path |-> e.path, exists |-> TRUE].exists = TRUE
  OBVIOUS
<1> QED
  BY <1>3, <1>4, <1>5 DEF Orphans, seen

------------------------------------------------------------------------------
(* The steps that do more than move their call on. *)

LEMMA BeginIInv ==
  ASSUME IInv, NEW c \in Clients, NEW k, Begin(c, k)
  PROVE  IInv'
<1> DEFINE pc == IF k.op = "write" THEN "root" ELSE "survey"
           next == [Idle EXCEPT !.pc = pc, !.op = k.op, !.tree = k.tree, !.root = k.tree,
                      !.ids = k.ids, !.share = k.share]
<1>1. IsCall(next) /\ next.plan = Idle.plan /\ next.pc = pc
  BY IdleShaped DEF IsCall
<1>2. pc \notin Locking \cup {"apply"}
  BY DEF Locking
<1>3. Goes(c, next) /\ index' = index /\ live' = live /\ lock' = lock
  BY DEF Begin, files
<1> HIDE DEF pc, next
<1>4. RemovesAlone(next) /\ SeenOrphaned(next)
  BY <1>1, IdleShaped DEF RemovesAlone, SeenOrphaned
<1> QED
  BY <1>1, <1>2, <1>3, <1>4, CallMoves DEF Goes, LockMoves, Locking

LEMMA MintIInv ==
  ASSUME IInv, NEW c \in Clients, Mint(c)
  PROVE  IInv'
<1>1. lock = c /\ live' = live
  BY DEF Mint
<1>2. CASE Ends(c, "refused")
  BY <1>1, <1>2, CallEnds
<1>3. ASSUME NEW id, Goes(c, [call[c] EXCEPT !.pc = "mark", !.id = id]), lock' = lock
      PROVE  IInv'
  <2> DEFINE next == [call[c] EXCEPT !.pc = "mark", !.id = id]
  <2>1. IsCall(call[c])
    BY DEF IInv, CallsShaped
  <2>2. IsCall(next) /\ next.plan = call[c].plan /\ next.pc = "mark"
    BY <2>1 DEF IsCall
  <2>3. Goes(c, next)
    BY <1>3
  <2> HIDE DEF next
  <2> QED
    BY <1>1, <1>3, <2>2, <2>3, CallGoes DEF LockMoves
<1> QED
  BY <1>2, <1>3 DEF Mint

LEMMA TakeLockIInv ==
  ASSUME IInv, NEW c \in Clients, TakeLock(c)
  PROVE  IInv'
<1> DEFINE pc == IF call[c].pc = "lock" THEN "markers" ELSE "recheck"
           next == [call[c] EXCEPT !.pc = pc]
<1>1. IsCall(call[c])
  BY DEF IInv, CallsShaped
<1>2. /\ IsCall(next) /\ next.pc = pc
      /\ next.plan = call[c].plan /\ next.seen = call[c].seen
  BY <1>1 DEF IsCall
<1>3. /\ Goes(c, next) /\ lock = Nobody /\ lock' = c /\ index' = index /\ live' = live
      /\ pc = "recheck" => call[c].pc = "apply"
  BY DEF TakeLock, To, files
<1>4. pc \in {"markers", "recheck"}
  OBVIOUS
<1> HIDE DEF pc, next
<1>5. RemovesAlone(next) /\ SeenOrphaned(next)
  BY <1>2, <1>3, <1>4 DEF IInv, RemovalsPlanned, RemovesAlone, SeenOrphaned
<1> QED
  BY <1>2, <1>3, <1>4, <1>5, CallMoves DEF Goes, LockMoves, Locking

LEMMA SurveyIInv ==
  ASSUME IInv, NEW c \in Clients, Survey(c)
  PROVE  IInv'
<1> DEFINE seen == SurveyAt(call[c].tree)
           removal == Planned({}, {}, FALSE, call[c].ids)
<1>1. index' = index /\ live' = live
  BY DEF Survey, files
<1>2. CASE \E said : Ends(c, said)
  BY <1>1, <1>2, CallEnds
<1>3. CASE \E id, root : Plans(c, seen, HealPlan(seen), root, id)
  BY <1>1, <1>3, BindingShaped, CallPlans
<1>4. CASE \E id, tree : Plans(c, seen, RepointPlan(seen, tree, id), tree, id)
  BY <1>1, <1>4, BindingShaped, CallPlans
<1>5. CASE \E tree : Plans(c, seen, removal, tree, NoId) /\ call[c].ids \subseteq Orphans(seen)
  <2>1. IsPlan(removal) /\ removal.register = {} /\ removal.unregister = {}
        /\ removal.removes = call[c].ids
    BY DEF Planned, IsPlan
  <2> HIDE DEF seen, removal
  <2> QED
    BY <1>1, <1>5, <2>1, CallPlans
<1> HIDE DEF removal
<1> QED
  BY <1>2, <1>3, <1>4, <1>5 DEF Survey, removal

LEMMA RecheckIInv ==
  ASSUME IInv, NEW c \in Clients, Recheck(c)
  PROVE  IInv'
<1>1. index' = index /\ live' = live /\ lock = c
  BY DEF Recheck, files, IInv, LockHeld, Locking
<1>2. CASE Ends(c, "refused")
  BY <1>1, <1>2, CallEnds
<1>3. CASE Unmoved(c) /\ To(c, "save") /\ UNCHANGED lock
  <2> DEFINE next == [call[c] EXCEPT !.pc = "save"]
  <2>1. IsCall(call[c])
    BY DEF IInv, CallsShaped
  <2>2. IsCall(next) /\ next.pc = "save" /\ next.plan = call[c].plan
    BY <2>1 DEF IsCall
  <2>3. Goes(c, next)
    BY <1>3 DEF To
  <2> HIDE DEF next
  <2>4. RemovesAlone(next) /\ SeenOrphaned(next)
    BY <2>2 DEF IInv, RemovalsPlanned, RemovesAlone, SeenOrphaned
  <2>5. call[c].plan.removes \subseteq Orphans(SurveyAt(call[c].tree))
    BY <1>3 DEF Recheck, Unmoved, IInv, RemovalsPlanned, SeenOrphaned
  <2>6. \A id \in next.plan.removes : Orphaned(id)'
    BY <1>1, <2>2, <2>5, SurveySees DEF Orphaned
  <2> QED
    BY <1>1, <1>3, <2>2, <2>3, <2>4, <2>6, CallMoves DEF Goes, LockMoves
<1> QED
  BY <1>2, <1>3 DEF Recheck

LEMMA SaveIInv ==
  ASSUME IInv, NEW c \in Clients, Save(c)
  PROVE  IInv'
<1>1. lock = c /\ live' = live /\ call[c].pc = "save"
  BY DEF Save, IInv, LockHeld, Locking
<1>2. CASE Ends(c, "done")
  BY <1>1, <1>2, CallEnds
<1>3. CASE To(c, "mark") /\ UNCHANGED lock
  BY <1>1, <1>3, CallTo
<1>4. CASE call[c].plan.removes # {} /\ To(c, "remove") /\ UNCHANGED lock
  <2> DEFINE next == [call[c] EXCEPT !.pc = "remove"]
  <2>1. IsCall(call[c])
    BY DEF IInv, CallsShaped
  <2>2. IsCall(next) /\ next.pc = "remove" /\ next.plan = call[c].plan
    BY <2>1 DEF IsCall
  <2>3. Goes(c, next)
    BY <1>4 DEF To
  <2> HIDE DEF next
  <2>4. RemovesAlone(next) /\ SeenOrphaned(next)
    BY <2>2 DEF IInv, RemovalsPlanned, RemovesAlone, SeenOrphaned
  <2>5. index' = index
    BY <1>4 DEF Save, IInv, RemovalsPlanned, RemovesAlone
  <2>6. \A id \in next.plan.removes : Orphaned(id)'
    BY <1>1, <2>2, <2>5 DEF IInv, RemovalsOrphaned, Orphaned
  <2> QED
    BY <1>1, <1>4, <2>2, <2>3, <2>4, <2>6, CallMoves DEF Goes, LockMoves
<1> QED
  BY <1>2, <1>3, <1>4 DEF Save, AfterSave

LEMMA RemoveDatabaseIInv ==
  ASSUME IInv, NEW c \in Clients, RemoveDatabase(c)
  PROVE  IInv'
<1>1. lock = c /\ live' = live /\ index' = index /\ call[c].pc = "remove"
  BY DEF RemoveDatabase, IInv, LockHeld, Locking
<1>2. CASE Ends(c, "done")
  BY <1>1, <1>2, CallEnds
<1>3. ASSUME NEW id, Goes(c, [call[c] EXCEPT !.plan.removes = @ \ {id}]), lock' = lock
      PROVE  IInv'
  <2> DEFINE next == [call[c] EXCEPT !.plan.removes = @ \ {id}]
             plan == [call[c].plan EXCEPT !.removes = @ \ {id}]
  <2>1. IsCall(call[c])
    BY DEF IInv, CallsShaped
  <2>2. IsPlan(plan) /\ plan.removes = call[c].plan.removes \ {id}
        /\ plan.register = call[c].plan.register
        /\ plan.unregister = call[c].plan.unregister
    BY <2>1 DEF IsCall, IsPlan
  <2>3. next = [call[c] EXCEPT !.plan = plan]
    OBVIOUS
  <2> HIDE DEF plan
  <2>4. IsCall(next) /\ next.pc = "remove" /\ next.plan = plan
    BY <1>1, <2>1, <2>2, <2>3 DEF IsCall
  <2>5. Goes(c, next)
    BY <1>3
  <2> HIDE DEF next
  <2>6. RemovesAlone(next) /\ SeenOrphaned(next)
    BY <2>2, <2>4 DEF IInv, RemovalsPlanned, RemovesAlone, SeenOrphaned
  <2>7. \A e \in next.plan.removes : Orphaned(e)'
    BY <1>1, <2>2, <2>4 DEF IInv, RemovalsOrphaned, Orphaned
  <2> QED
    BY <1>1, <1>3, <2>4, <2>5, <2>6, <2>7, CallMoves DEF Goes, LockMoves
<1> QED
  BY <1>2, <1>3 DEF RemoveDatabase

LEMMA VanishIInv ==
  ASSUME IInv, NEW r \in Trees, Vanish(r)
  PROVE  IInv'
<1>1. live' \subseteq live /\ index' = index /\ lock' = lock /\ call' = call
  BY DEF Vanish
<1>2. CallsShaped' /\ LockHeld' /\ RemovalsPlanned'
  BY <1>1 DEF IInv, CallsShaped, LockHeld, RemovalsPlanned, RemovesAlone, SeenOrphaned,
              Orphans, Registered
<1>3. RemovalsOrphaned'
  BY <1>1 DEF IInv, RemovalsOrphaned, Orphaned
<1> QED
  BY <1>2, <1>3 DEF IInv

------------------------------------------------------------------------------
LEMMA NextIInv == IInv /\ [Next]_vars => IInv'
<1> SUFFICES ASSUME IInv, [Next]_vars PROVE IInv'
  OBVIOUS
<1>1. CASE UNCHANGED vars
  BY <1>1 DEF vars, IInv, CallsShaped, LockHeld, RemovalsPlanned, RemovalsOrphaned, Orphaned,
              RemovesAlone, SeenOrphaned, Orphans, Registered
<1>2. ASSUME NEW c \in Clients, NEW k \in Calls[c], Begin(c, k) PROVE IInv'
  BY <1>2, BeginIInv
<1>3. ASSUME NEW c \in Clients, FindRoot(c) PROVE IInv'
  <2>1. index' = index /\ live' = live
    BY <1>3 DEF FindRoot, files
  <2>2. CASE Ends(c, "refused")
    BY <2>1, <2>2, CallEnds
  <2>3. CASE /\ Goes(c, [call[c] EXCEPT !.pc = "markers", !.root = IdentityRoot(call[c].tree)])
             /\ UNCHANGED lock
    <3> DEFINE root == IdentityRoot(call[c].tree)
               next == [call[c] EXCEPT !.pc = "markers", !.root = root]
    <3>1. IsCall(call[c])
      BY DEF IInv, CallsShaped
    <3> HIDE DEF root
    <3>2. IsCall(next) /\ next.pc = "markers" /\ next.plan = call[c].plan
      BY <3>1 DEF IsCall
    <3>3. Goes(c, next)
      BY <2>3 DEF root
    <3> HIDE DEF next
    <3> QED
      BY <2>1, <2>3, <3>2, <3>3, CallGoes DEF Locking, LockMoves
  <2> QED
    BY <1>3, <2>2, <2>3 DEF FindRoot
<1>4. ASSUME NEW c \in Clients, ReadMarkers(c) PROVE IInv'
  <2> DEFINE old == legacy[call[c].root]
             next == [call[c] EXCEPT !.pc = "adopt", !.id = old]
  <2>1. index' = index /\ live' = live
    BY <1>4 DEF ReadMarkers, files
  <2>2. CASE \E id : Resolves(c, id)
    BY <2>1, <2>2, CallResolves
  <2>3. CASE Goes(c, next) /\ UNCHANGED lock
    <3>1. IsCall(call[c])
      BY DEF IInv, CallsShaped
    <3> HIDE DEF old
    <3>2. IsCall(next) /\ next.pc = "adopt" /\ next.plan = call[c].plan
      BY <3>1 DEF IsCall
    <3> HIDE DEF next
    <3> QED
      BY <2>1, <2>3, <3>2, CallGoes DEF Locking, LockMoves
  <2>4. CASE To(c, "entry") /\ UNCHANGED lock
    BY <2>1, <2>4, CallTo DEF Locking
  <2> QED
    BY <1>4, <2>2, <2>3, <2>4 DEF ReadMarkers
<1>5. ASSUME NEW c \in Clients, Adopt(c) PROVE IInv'
  BY <1>5, CallResolves DEF Adopt
<1>6. ASSUME NEW c \in Clients, ReadEntry(c) PROVE IInv'
  <2>1. index' = index /\ live' = live
    BY <1>6 DEF ReadEntry, files
  <2>2. CASE \E id : Resolves(c, id)
    BY <2>1, <2>2, CallResolves
  <2>3. CASE To(c, "lock") /\ UNCHANGED lock
    BY <2>1, <2>3, CallTo DEF Locking
  <2> QED
    BY <1>6, <2>2, <2>3 DEF ReadEntry
<1>7. ASSUME NEW c \in Clients, Mint(c) PROVE IInv'
  BY <1>7, MintIInv
<1>8. ASSUME NEW c \in Clients, TakeLock(c) PROVE IInv'
  BY <1>8, TakeLockIInv
<1>9. ASSUME NEW c \in Clients, LockTimeout(c) PROVE IInv'
  BY <1>9, CallEnds DEF LockTimeout, files
<1>10. ASSUME NEW c \in Clients, Mark(c) PROVE IInv'
  BY <1>10, CallEnds, CallResolves DEF Mark
<1>11. ASSUME NEW c \in Clients, OpenStore(c) PROVE IInv'
  BY <1>11, CallEnds DEF OpenStore
<1>12. ASSUME NEW c \in Clients, Survey(c) PROVE IInv'
  BY <1>12, SurveyIInv
<1>13. ASSUME NEW c \in Clients, Recheck(c) PROVE IInv'
  BY <1>13, RecheckIInv
<1>14. ASSUME NEW c \in Clients, Save(c) PROVE IInv'
  BY <1>14, SaveIInv
<1>15. ASSUME NEW c \in Clients, RemoveDatabase(c) PROVE IInv'
  BY <1>15, RemoveDatabaseIInv
<1>16. ASSUME NEW c \in Clients, Fail(c) PROVE IInv'
  BY <1>16, CallEnds DEF Fail, files
<1>17. ASSUME NEW r \in Trees, Vanish(r) PROVE IInv'
  BY <1>17, VanishIInv
<1> QED
  BY <1>1, <1>2, <1>3, <1>4, <1>5, <1>6, <1>7, <1>8, <1>9, <1>10, <1>11, <1>12, <1>13,
     <1>14, <1>15, <1>16, <1>17 DEF Next

(* Who holds a lock, and what every plan to remove rests on, from the      *)
(* first command to the last.                                              *)
THEOREM SpecIInv == Spec => []IInv
  BY InitIInv, NextIInv, PTL DEF Spec

(* Only RemoveDatabase takes a database away, and only one its call still  *)
(* knows orphaned.                                                         *)
LEMMA StepRemovesOnlyOrphans ==
  ASSUME IInv, [Next]_vars
  PROVE  \A id \in databases \ databases' :
           ~\E e \in Range(index) : e.id = id /\ e.path \in live
<1>1. ASSUME NEW id \in databases \ databases'
      PROVE  \E c \in Clients : call[c].pc = "remove" /\ id \in call[c].plan.removes
  <2>1. PICK c \in Clients : RemoveDatabase(c)
    BY <1>1 DEF Next, vars, files, Begin, FindRoot, ReadMarkers, Adopt, ReadEntry, Mint,
                TakeLock, LockTimeout, Mark, OpenStore, Survey, Recheck, Save, Fail, Vanish
  <2> QED
    BY <1>1, <2>1 DEF RemoveDatabase
<1> QED
  BY <1>1 DEF IInv, RemovalsOrphaned, Orphaned

(* A database is removed only while no live registered tree is its         *)
(* project, whatever was bound, healed or repointed since it was seen      *)
(* orphaned.                                                               *)
THEOREM RemovalSafe == Spec => RemovesOnlyOrphans
<1>1. IInv /\ [Next]_vars => [\A id \in databases \ databases' :
                               ~\E e \in Range(index) : e.id = id /\ e.path \in live]_vars
  BY StepRemovesOnlyOrphans
<1> QED
  BY <1>1, SpecIInv, PTL DEF Spec, RemovesOnlyOrphans

------------------------------------------------------------------------------
(* Registries: what is left of one without the entries dropped.            *)

LEMMA Induction ==
  ASSUME NEW T, 0 \in T, \A n \in Nat : n \in T => n + 1 \in T
  PROVE  Nat \subseteq T
<1> DEFINE R == {ss \in Nat \X Nat : ss[1] < ss[2]}
           Rest == Nat \ T
<1> SUFFICES ASSUME Rest # {} PROVE FALSE
  OBVIOUS
<1>1. IsWellFoundedOn(R, Nat)
  BY NatLessThanWellFounded DEF OpToRel
<1>2. PICK n \in Rest : \A m \in Rest : <<m, n>> \notin R
  <2> Rest \subseteq Nat
    OBVIOUS
  <2> HIDE DEF R, Rest
  <2> QED BY <1>1, WFMin
<1>3. n \in Nat /\ n # 0 /\ n - 1 \in Nat /\ (n - 1) + 1 = n
  BY <1>2
<1>4. n - 1 \in Rest
  BY <1>2, <1>3
<1>5. <<n - 1, n>> \in R
  BY <1>3
<1> QED BY <1>2, <1>4, <1>5

\* f[n] is what is kept of the first n entries.
Keeps(f, entries, dropped, m) ==
  f = [n \in 0..m |-> IF n = 0 THEN <<>>
                      ELSE IF entries[n] \in dropped THEN f[n - 1]
                      ELSE Append(f[n - 1], entries[n])]

LEMMA KeepsExist ==
  ASSUME NEW entries, NEW dropped PROVE \A m \in Nat : \E f : Keeps(f, entries, dropped, m)
<1> DEFINE T == {m \in Nat : \E f : Keeps(f, entries, dropped, m)}
<1>1. 0 \in T
  <2>1. Keeps([n \in 0..0 |-> <<>>], entries, dropped, 0)
    BY DEF Keeps
  <2> QED BY <2>1
<1>2. ASSUME NEW m \in Nat, m \in T PROVE m + 1 \in T
  <2>1. PICK f : Keeps(f, entries, dropped, m)
    BY <1>2
  <2> DEFINE on == IF entries[m + 1] \in dropped THEN f[m] ELSE Append(f[m], entries[m + 1])
             g == [n \in 0..(m + 1) |-> IF n <= m THEN f[n] ELSE on]
  <2>2. (\A n \in 0..m : g[n] = f[n]) /\ g[m + 1] = on
    OBVIOUS
  <2>3. g = [n \in 0..(m + 1) |-> g[n]]
    OBVIOUS
  <2>4. \A n \in 0..m : f[n] = IF n = 0 THEN <<>>
                               ELSE IF entries[n] \in dropped THEN f[n - 1]
                               ELSE Append(f[n - 1], entries[n])
    BY <2>1 DEF Keeps
  <2> HIDE DEF g
  <2>5. ASSUME NEW n \in 0..(m + 1)
        PROVE  g[n] = IF n = 0 THEN <<>>
                      ELSE IF entries[n] \in dropped THEN g[n - 1]
                      ELSE Append(g[n - 1], entries[n])
    <3>1. CASE n = m + 1
      <4>1. n # 0 /\ n - 1 = m /\ m \in 0..m
        BY <3>1
      <4> QED BY <2>2, <3>1, <4>1
    <3>2. CASE n \in 0..m
      <4>1. n # 0 => n - 1 \in 0..m
        BY <3>2
      <4> QED BY <2>2, <2>4, <3>2, <4>1
    <3> QED BY <3>1, <3>2
  <2>6. Keeps(g, entries, dropped, m + 1)
    BY <2>3, <2>5 DEF Keeps
  <2> QED BY <2>6
<1>3. Nat \subseteq T
  <2> HIDE DEF T
  <2> QED BY <1>1, <1>2, Induction
<1> QED BY <1>3

\* The id the first entry for a path gives, if one does.
FirstAt(entries, r) ==
  LET at == {i \in DOMAIN entries : entries[i].path = r} IN
  IF at = {} THEN NoId ELSE entries[CHOOSE i \in at : \A j \in at : i <= j].id

\* Of some positions one is the first.
LEMMA FirstOf ==
  ASSUME NEW at, at # {}, at \subseteq Nat
  PROVE  /\ (CHOOSE i \in at : \A j \in at : i <= j) \in at
         /\ \A j \in at : (CHOOSE i \in at : \A k \in at : i <= k) <= j
<1> DEFINE R == {ss \in Nat \X Nat : ss[1] < ss[2]}
<1>1. IsWellFoundedOn(R, Nat)
  BY NatLessThanWellFounded DEF OpToRel
<1>2. PICK n \in at : \A m \in at : <<m, n>> \notin R
  <2> HIDE DEF R
  <2> QED BY <1>1, WFMin
<1>3. ASSUME NEW m \in at PROVE n <= m
  <2>1. m \in Nat /\ n \in Nat
    OBVIOUS
  <2>2. ~(m < n)
    <3> SUFFICES ASSUME m < n PROVE FALSE
      OBVIOUS
    <3>1. <<m, n>> \in R
      BY <2>1
    <3> QED BY <1>2, <3>1
  <2> QED BY <2>1, <2>2
<1> DEFINE first == CHOOSE i \in at : \A j \in at : i <= j
<1>4. first \in at /\ \A j \in at : first <= j
  BY <1>3
<1> QED BY <1>4

LEMMA FirstIs ==
  ASSUME NEW entries \in Seq(Entries), NEW r, NEW n \in 1..Len(entries),
         entries[n].path = r, \A i \in 1..(n - 1) : entries[i].path # r
  PROVE  FirstAt(entries, r) = entries[n].id
<1> DEFINE at == {i \in DOMAIN entries : entries[i].path = r}
           first == CHOOSE i \in at : \A j \in at : i <= j
<1>1. n \in at /\ at \subseteq Nat /\ Len(entries) \in Nat /\ DOMAIN entries = 1..Len(entries)
  OBVIOUS
<1>2. first \in at /\ \A j \in at : first <= j
  <2> HIDE DEF at
  <2> QED BY <1>1, FirstOf
<1>3. first = n
  <2>1. first \in 1..Len(entries) /\ first <= n /\ entries[first].path = r
    BY <1>1, <1>2
  <2> HIDE DEF first
  <2>2. ~(first < n)
    <3> SUFFICES ASSUME first < n PROVE FALSE
      OBVIOUS
    <3>1. first \in 1..(n - 1)
      BY <1>1, <2>1
    <3> QED BY <2>1, <3>1
  <2> QED BY <1>1, <2>1, <2>2
<1>4. FirstAt(entries, r) = entries[first].id
  BY <1>1 DEF FirstAt
<1> QED BY <1>3, <1>4

LEMMA FirstNone ==
  ASSUME NEW entries \in Seq(Entries), NEW r
  PROVE  /\ FirstAt(entries, r) \in Ids \cup {NoId}
         /\ FirstAt(entries, r) = NoId <=> \A i \in 1..Len(entries) : entries[i].path # r
         /\ FirstAt(entries, r) # NoId =>
              \E n \in 1..Len(entries) : /\ entries[n].path = r
                                         /\ entries[n].id = FirstAt(entries, r)
                                         /\ \A i \in 1..(n - 1) : entries[i].path # r
<1> DEFINE at == {i \in DOMAIN entries : entries[i].path = r}
           first == CHOOSE i \in at : \A j \in at : i <= j
<1>1. at \subseteq Nat /\ Len(entries) \in Nat /\ DOMAIN entries = 1..Len(entries)
  OBVIOUS
<1>2. CASE at = {}
  BY <1>1, <1>2 DEF FirstAt
<1>3. CASE at # {}
  <2>1. first \in at /\ \A j \in at : first <= j
    <3> HIDE DEF at
    <3> QED BY <1>1, <1>3, FirstOf
  <2>2. FirstAt(entries, r) = entries[first].id
    BY <1>3 DEF FirstAt
  <2>3. first \in 1..Len(entries) /\ entries[first].path = r /\ entries[first].id \in Ids
    <3>1. first \in DOMAIN entries /\ entries[first].path = r
      <4> HIDE DEF first
      <4> QED BY <2>1
    <3> HIDE DEF first
    <3>2. entries[first] \in Entries
      BY <1>1, <3>1
    <3> QED BY <1>1, <3>1, <3>2 DEF Entries
  <2>4. \A i \in 1..(first - 1) : entries[i].path # r
    <3> SUFFICES ASSUME NEW i \in 1..(first - 1), entries[i].path = r PROVE FALSE
      OBVIOUS
    <3>1. i \in 1..Len(entries) /\ i < first
      BY <1>1, <2>3
    <3>2. i \in at
      BY <1>1, <3>1
    <3> HIDE DEF first, at
    <3> QED BY <1>1, <2>1, <2>3, <3>1, <3>2
  <2> HIDE DEF first
  <2> QED BY <2>2, <2>3, <2>4, NamesAssumption
<1> QED BY <1>2, <1>3

\* An entry appended is the first of its path where none was.
LEMMA FirstAppended ==
  ASSUME NEW entries \in Seq(Entries), NEW e \in Entries, NEW r
  PROVE  FirstAt(Append(entries, e), r) =
           IF FirstAt(entries, r) # NoId THEN FirstAt(entries, r)
           ELSE IF e.path = r THEN e.id ELSE NoId
<1> DEFINE s == Append(entries, e)
           L == Len(entries)
<1>1. /\ s \in Seq(Entries) /\ Len(s) = L + 1 /\ L \in Nat /\ s[L + 1] = e
      /\ \A i \in 1..L : s[i] = entries[i]
  BY AppendProperties
<1> HIDE DEF s
<1>2. CASE FirstAt(entries, r) # NoId
  <2>1. PICK n \in 1..L : /\ entries[n].path = r /\ entries[n].id = FirstAt(entries, r)
                          /\ \A i \in 1..(n - 1) : entries[i].path # r
    BY <1>2, FirstNone
  <2>2. n \in 1..Len(s) /\ s[n].path = r /\ \A i \in 1..(n - 1) : s[i].path # r
    <3>1. \A i \in 1..(n - 1) : i \in 1..L
      BY <1>1
    <3> QED BY <1>1, <2>1, <3>1
  <2>3. FirstAt(s, r) = s[n].id
    BY <1>1, <2>2, FirstIs
  <2> QED BY <1>1, <1>2, <2>1, <2>3 DEF s
<1>3. CASE FirstAt(entries, r) = NoId /\ e.path = r
  <2>1. \A i \in 1..L : s[i].path # r
    BY <1>1, <1>3, FirstNone
  <2>2. L + 1 \in 1..Len(s) /\ s[L + 1].path = r /\ (L + 1) - 1 = L
    BY <1>1, <1>3
  <2>3. FirstAt(s, r) = s[L + 1].id
    BY <1>1, <2>1, <2>2, FirstIs
  <2> QED BY <1>1, <1>3, <2>3 DEF s
<1>4. CASE FirstAt(entries, r) = NoId /\ e.path # r
  <2>1. \A i \in 1..L : s[i].path # r
    BY <1>1, <1>4, FirstNone
  <2>2. \A i \in 1..Len(s) : s[i].path # r
    BY <1>1, <1>4, <2>1
  <2>3. FirstAt(s, r) = NoId
    BY <1>1, <2>2, FirstNone
  <2> QED BY <1>4, <2>3 DEF s
<1> QED BY <1>2, <1>3, <1>4

LEMMA WithoutKeeps ==
  ASSUME NEW entries, NEW dropped, Len(entries) \in Nat
  PROVE  \E f : Keeps(f, entries, dropped, Len(entries)) /\ Without(entries, dropped) = f[Len(entries)]
<1>1. \E f : Keeps(f, entries, dropped, Len(entries))
  BY KeepsExist
<1> QED BY <1>1 DEF Without, Keeps

LEMMA WithoutIs ==
  ASSUME NEW entries \in Seq(Entries), NEW dropped
  PROVE  /\ Without(entries, dropped) \in Seq(Entries)
         /\ Range(Without(entries, dropped)) \subseteq Range(entries)
         /\ \A r : (\A e \in dropped : e.path # r) =>
              FirstAt(Without(entries, dropped), r) = FirstAt(entries, r)
<1> DEFINE L == Len(entries)
<1>1. L \in Nat /\ DOMAIN entries = 1..L
  OBVIOUS
<1>2. PICK f : Keeps(f, entries, dropped, L) /\ Without(entries, dropped) = f[L]
  BY <1>1, WithoutKeeps
<1>3. Without(entries, dropped) = f[L]
  BY <1>2
<1>4. \A n \in 0..L : f[n] = IF n = 0 THEN <<>>
                             ELSE IF entries[n] \in dropped THEN f[n - 1]
                             ELSE Append(f[n - 1], entries[n])
  BY <1>2 DEF Keeps
<1> DEFINE Alike(n, r) == (\A e \in dropped : e.path # r) =>
                            FirstAt(f[n], r) = FirstAt(SubSeq(entries, 1, n), r)
           T == {n \in Nat : n <= L => /\ f[n] \in Seq(Entries)
                                       /\ Range(f[n]) \subseteq Range(entries)
                                       /\ \A r : Alike(n, r)}
<1>5. 0 \in T
  <2>1. f[0] = <<>>
    BY <1>1, <1>4
  <2>2. SubSeq(entries, 1, 0) = <<>>
    BY SubSeqEmpty
  <2>3. <<>> \in Seq(Entries) /\ Range(<<>>) = {}
    BY DEF Range
  <2> QED BY <2>1, <2>2, <2>3
<1>6. ASSUME NEW n \in Nat, n \in T, n + 1 <= L
      PROVE  /\ f[n + 1] \in Seq(Entries)
             /\ Range(f[n + 1]) \subseteq Range(entries)
             /\ \A r : Alike(n + 1, r)
  <2> DEFINE e == entries[n + 1]
  <2>1. /\ n + 1 \in 0..L /\ n + 1 # 0 /\ (n + 1) - 1 = n /\ n <= L
        /\ n + 1 \in 1..L /\ n \in 0..L
    BY <1>1, <1>6
  <2>2. f[n] \in Seq(Entries) /\ Range(f[n]) \subseteq Range(entries) /\ \A r : Alike(n, r)
    BY <1>6, <2>1
  <2>3. f[n + 1] = IF e \in dropped THEN f[n] ELSE Append(f[n], e)
    BY <1>4, <2>1
  <2>4. e \in Entries /\ e \in Range(entries)
    BY <1>1, <2>1 DEF Range
  <2>5. /\ SubSeq(entries, 1, n) \in Seq(Entries)
        /\ SubSeq(entries, 1, n + 1) = Append(SubSeq(entries, 1, n), e)
    <3>1. \A i \in 1..n : entries[i] \in Entries
      BY <1>1, <2>1
    <3>2. SubSeq(entries, 1, n) \in Seq(Entries)
      BY <2>1, <3>1, SubSeqProperties
    <3>3. 1 \in 1..Len(entries) /\ n + 1 \in 1..Len(entries)
      BY <1>1, <2>1
    <3>4. SubSeq(entries, 1, n + 1) = SubSeq(entries, 1, (n + 1) - 1) \o <<entries[n + 1]>>
      BY <3>3, SubSeqRecursiveSecond
    <3> QED BY <2>1, <2>4, <3>2, <3>4, AppendIsConcat
  <2> HIDE DEF e, L
  <2>6. f[n + 1] \in Seq(Entries) /\ Range(f[n + 1]) \subseteq Range(entries)
    <3>1. CASE e \in dropped
      BY <2>2, <2>3, <3>1
    <3>2. CASE e \notin dropped
      <4>1. f[n + 1] = Append(f[n], e)
        BY <2>3, <3>2
      <4>2. /\ Append(f[n], e) \in Seq(Entries) /\ Len(Append(f[n], e)) = Len(f[n]) + 1
            /\ \A i \in 1..Len(f[n]) : Append(f[n], e)[i] = f[n][i]
            /\ Append(f[n], e)[Len(f[n]) + 1] = e
        BY <2>2, <2>4, AppendProperties
      <4>3. \A i \in 1..(Len(f[n]) + 1) : Append(f[n], e)[i] \in Range(f[n]) \cup {e}
        BY <2>2, <4>2 DEF Range
      <4>4. Range(Append(f[n], e)) \subseteq Range(f[n]) \cup {e}
        <5>1. DOMAIN Append(f[n], e) = 1..(Len(f[n]) + 1)
          BY <4>2
        <5> QED BY <4>3, <5>1 DEF Range
      <4> QED BY <2>2, <2>4, <4>1, <4>2, <4>4
    <3> QED BY <3>1, <3>2
  <2>7. ASSUME NEW r, \A d \in dropped : d.path # r
        PROVE  FirstAt(f[n + 1], r) = FirstAt(SubSeq(entries, 1, n + 1), r)
    <3>1. FirstAt(f[n], r) = FirstAt(SubSeq(entries, 1, n), r)
      BY <2>2, <2>7
    <3>2. FirstAt(SubSeq(entries, 1, n + 1), r) =
            IF FirstAt(f[n], r) # NoId THEN FirstAt(f[n], r)
            ELSE IF e.path = r THEN e.id ELSE NoId
      <4>1. FirstAt(Append(SubSeq(entries, 1, n), e), r) =
              IF FirstAt(SubSeq(entries, 1, n), r) # NoId THEN FirstAt(SubSeq(entries, 1, n), r)
              ELSE IF e.path = r THEN e.id ELSE NoId
        BY <2>4, <2>5, FirstAppended
      <4> QED BY <2>5, <3>1, <4>1
    <3>3. CASE e \in dropped
      BY <2>3, <2>7, <3>2, <3>3
    <3>4. CASE e \notin dropped
      BY <2>2, <2>3, <2>4, <3>2, <3>4, FirstAppended
    <3> QED BY <3>3, <3>4
  <2> QED BY <2>6, <2>7
<1>7. Nat \subseteq T
  <2>1. \A n \in Nat : n \in T => n + 1 \in T
    BY <1>1, <1>6
  <2> HIDE DEF T
  <2> QED BY <1>5, <2>1, Induction
<1>8. L \in T /\ L <= L
  BY <1>1, <1>7
<1>9. SubSeq(entries, 1, L) = entries
  BY SubSeqFull
<1> QED BY <1>3, <1>8, <1>9

\* The registry a change leaves: what is registered and unregistered changes
\* only what it names.
LEMMA SavedIndex ==
  ASSUME NEW entries \in Seq(Entries), NEW e \in Entries, NEW added \in {<<>>, <<e>>}, NEW dropped
  PROVE  LET next == Without(entries \o added, dropped) IN
         /\ next \in Seq(Entries)
         /\ Range(next) \subseteq Range(entries) \cup {e}
         /\ added = <<>> => Range(next) \subseteq Range(entries)
         /\ \A r : (\A d \in dropped : d.path # r) /\ (added = <<e>> => e.path # r) =>
              FirstAt(next, r) = FirstAt(entries, r)
<1> DEFINE all == entries \o added
<1>1. /\ all = entries \/ all = Append(entries, e)
      /\ added = <<>> => all = entries
      /\ added = <<e>> => all = Append(entries, e)
  <2>1. CASE added = <<>>
    BY <2>1, ConcatEmptySeq
  <2>2. CASE added = <<e>>
    BY <2>2, AppendIsConcat
  <2> QED BY <2>1, <2>2
<1>2. Append(entries, e) \in Seq(Entries) /\ (all = entries \/ all = Append(entries, e))
  BY <1>1, AppendProperties
<1>3. Range(Append(entries, e)) \subseteq Range(entries) \cup {e}
  <2>1. /\ Append(entries, e) \in Seq(Entries) /\ Len(Append(entries, e)) = Len(entries) + 1
        /\ \A i \in 1..Len(entries) : Append(entries, e)[i] = entries[i]
        /\ Append(entries, e)[Len(entries) + 1] = e
    BY AppendProperties
  <2>2. \A i \in 1..(Len(entries) + 1) : Append(entries, e)[i] \in Range(entries) \cup {e}
    BY <2>1 DEF Range
  <2> QED BY <2>1, <2>2 DEF Range
<1>4. \A r : (added = <<e>> => e.path # r) => FirstAt(all, r) = FirstAt(entries, r)
  <2> SUFFICES ASSUME NEW r, added = <<e>> => e.path # r
               PROVE  FirstAt(all, r) = FirstAt(entries, r)
    OBVIOUS
  <2>1. CASE all = entries
    BY <2>1
  <2>2. CASE added = <<e>> /\ all = Append(entries, e)
    <3>1. e.path # r /\ FirstAt(entries, r) \in Ids \cup {NoId}
      BY <2>2, FirstNone
    <3> HIDE DEF all
    <3> QED BY <2>2, <3>1, FirstAppended
  <2>3. added = <<>> \/ added = <<e>>
    OBVIOUS
  <2> HIDE DEF all
  <2> QED BY <1>1, <2>1, <2>2, <2>3
<1> HIDE DEF all
<1>5. /\ Without(all, dropped) \in Seq(Entries)
      /\ Range(Without(all, dropped)) \subseteq Range(all)
      /\ \A r : (\A d \in dropped : d.path # r) =>
           FirstAt(Without(all, dropped), r) = FirstAt(all, r)
  BY <1>2, WithoutIs
<1> QED BY <1>1, <1>3, <1>4, <1>5 DEF all

------------------------------------------------------------------------------
(* Types.                                                                   *)

AnyPlan == [register: SUBSET Entries, unregister: SUBSET Entries, mark: BOOLEAN,
           removes: SUBSET Ids]
InCall ==
  [pc: {"idle", "root", "markers", "adopt", "entry", "lock", "mark", "open",
        "survey", "apply", "recheck", "save", "remove"},
   op: {"write", "heal", "repoint", "remove"}, tree: Trees, ids: SUBSET Ids,
   share: BOOLEAN, root: Trees, id: Ids \cup {NoId}, seen: Surveys, plan: AnyPlan]
Pcs == {"idle", "root", "markers", "adopt", "entry", "lock", "mark", "open",
        "survey", "apply", "recheck", "save", "remove"}

\* A call that writes an id, or opens its store, has one.
Given(k) ==
  (k.pc \in {"adopt", "open", "mark"} \/ (k.pc \in {"apply", "recheck", "save"} /\ k.plan.mark))
    => k.id \in Ids
Calling == {k \in InCall : Given(k)}

TInv == TypeOK /\ \A c \in Clients : Given(call[c])

LEMMA IdleTyped == Idle \in InCall /\ Given(Idle)
<1>1. ATree \in Trees
  BY TreesAssumption DEF ATree
<1>2. NoSurvey \in Surveys
  <2>1. <<>> \in Seq([id: Ids, path: Trees, exists: BOOLEAN])
    OBVIOUS
  <2> QED BY <1>1, <2>1 DEF NoSurvey, Surveys
<1>3. NothingPlanned \in AnyPlan
  BY DEF NothingPlanned, Planned, AnyPlan
<1> HIDE DEF AnyPlan
<1> QED BY <1>1, <1>2, <1>3 DEF Idle, InCall, Given

LEMMA InCallStays ==
  ASSUME NEW k \in Calling, NEW pc \in Pcs
  PROVE  /\ pc \in {"entry", "lock", "markers"} => [k EXCEPT !.pc = pc] \in Calling
         /\ pc = "recheck" /\ k.pc = "apply" => [k EXCEPT !.pc = pc] \in Calling
         /\ pc \in {"save", "mark", "remove"} /\ k.pc \in {"recheck", "save"} /\ (pc = "mark" => k.plan.mark)
              => [k EXCEPT !.pc = pc] \in Calling
         /\ \A id \in Ids : [k EXCEPT !.pc = pc, !.id = id] \in Calling
         /\ \A root \in Trees : pc = "markers" => [k EXCEPT !.pc = pc, !.root = root] \in Calling
BY DEF Calling, Given, InCall, Pcs

LEMMA RootTyped ==
  ASSUME NEW r \in Trees PROVE IdentityRoot(r) \in Trees /\ Primary[r] \in Trees
BY PrimaryAssumption DEF IdentityRoot

LEMMA IdForTyped ==
  ASSUME TypeOK, NEW r PROVE IdFor(r) = FirstAt(index, r) /\ IdFor(r) \in Ids \cup {NoId}
<1>1. IdFor(r) = FirstAt(index, r)
  BY DEF IdFor, FirstAt
<1> QED BY <1>1, FirstNone DEF TypeOK

LEMMA BoundTyped ==
  ASSUME TypeOK, NEW r \in Trees PROVE Bound(r) \in Ids \cup {NoId}
BY IdForTyped, NamesAssumption DEF Bound, Named

LEMMA SurveyTyped == ASSUME TypeOK, NEW r \in Trees PROVE SurveyAt(r) \in Surveys
<1> DEFINE root == IdentityRoot(r)
           registry == [i \in DOMAIN index |-> [id |-> index[i].id, path |-> index[i].path,
                                                exists |-> index[i].path \in live]]
<1>1. root \in Trees
  BY RootTyped
<1>2. Named(marker[root]) \in Ids \cup {NoId} /\ Named(legacy[root]) \in Ids \cup {NoId}
  BY DEF Named
<1>3. Bound(root) \in Ids \cup {NoId}
  BY <1>1, BoundTyped
<1>4. registry \in Seq([id: Ids, path: Trees, exists: BOOLEAN])
  <2>1. index \in Seq(Entries)
    BY DEF TypeOK
  <2>2. DOMAIN index = 1..Len(index) /\ Len(index) \in Nat
    BY <2>1
  <2>3. \A i \in 1..Len(index) : index[i].id \in Ids /\ index[i].path \in Trees
    <3>1. \A i \in 1..Len(index) : index[i] \in Entries
      BY <2>1, <2>2
    <3> QED BY <3>1 DEF Entries
  <2>4. registry \in [1..Len(index) -> [id: Ids, path: Trees, exists: BOOLEAN]]
    BY <2>2, <2>3
  <2> HIDE DEF registry
  <2> QED BY <2>2, <2>4, SeqDef
<1>5. databases \in SUBSET Ids
  BY DEF TypeOK
<1>6. SurveyAt(r) = [root |-> root, resolved |-> Bound(root), marker |-> Named(marker[root]),
                     legacy |-> Named(legacy[root]), registry |-> registry,
                     databases |-> databases]
  BY DEF SurveyAt
<1> HIDE DEF root, registry
<1> QED BY <1>1, <1>2, <1>3, <1>4, <1>5, <1>6 DEF Surveys

LEMMA RegisteredTyped ==
  ASSUME NEW seen \in Surveys
  PROVE  /\ Registered(seen) \subseteq [id: Ids, path: Trees, exists: BOOLEAN]
         /\ \A root : IdsAt(seen, root) \subseteq Ids
<1>1. seen.registry \in Seq([id: Ids, path: Trees, exists: BOOLEAN])
  BY DEF Surveys
<1> DEFINE S == [id: Ids, path: Trees, exists: BOOLEAN]
<1> HIDE DEF S
<1>2. \A i \in DOMAIN seen.registry : seen.registry[i] \in S
  <2>1. seen.registry \in Seq(S)
    BY <1>1 DEF S
  <2> QED BY <2>1
<1>3. Registered(seen) \subseteq [id: Ids, path: Trees, exists: BOOLEAN]
  BY <1>2 DEF Registered, S
<1>4. \A e \in Registered(seen) : e.id \in Ids
  BY <1>3
<1> QED BY <1>3, <1>4 DEF IdsAt

LEMMA PlansTyped ==
  ASSUME NEW seen \in Surveys, NEW root \in Trees, NEW id \in Ids, NEW mark \in BOOLEAN
  PROVE  BindPlan(seen, root, id, mark) \in AnyPlan
<1>1. Registering(seen, root, id) \in SUBSET Entries
  BY DEF Registering, Entries
<1>2. Gone(seen, id) \in SUBSET Entries
  BY RegisteredTyped DEF Gone, Entries
<1>3. {[id |-> other, path |-> root] : other \in IdsAt(seen, root) \ {id}} \in SUBSET Entries
  BY RegisteredTyped DEF Entries
<1> QED BY <1>1, <1>2, <1>3 DEF BindPlan, Planned, AnyPlan

LEMMA HealTyped ==
  ASSUME NEW seen \in Surveys
  PROVE  HealPlan(seen) \in AnyPlan /\ HealId(seen) \in Ids \cup {NoId} /\ seen.root \in Trees
<1>1. seen.root \in Trees /\ MarkedAs(seen) \in Ids \cup {NoId}
  BY DEF Surveys, MarkedAs
<1>2. HealId(seen) \in Ids \cup {NoId}
  <2> DEFINE at == IdsAt(seen, seen.root)
  <2>1. at \subseteq Ids
    BY RegisteredTyped
  <2>2. Cardinality(at) = 1 => at # {}
    BY FS_EmptySet
  <2> QED BY <1>1, <2>1, <2>2 DEF HealId
<1>3. CASE MarkedAs(seen) = NoId
  <2>1. Planned({}, {}, HealId(seen) # NoId, {}) \in AnyPlan
    BY DEF Planned, AnyPlan
  <2> QED BY <1>1, <1>2, <1>3, <2>1 DEF HealPlan
<1>4. CASE MarkedAs(seen) # NoId
  <2>1. BindPlan(seen, seen.root, MarkedAs(seen), seen.marker = NoId) \in AnyPlan
    BY <1>1, <1>4, PlansTyped
  <2> QED BY <1>1, <1>2, <1>4, <2>1 DEF HealPlan
<1> QED BY <1>3, <1>4

LEMMA InitTyped == Init => TInv
<1> SUFFICES ASSUME Init PROVE TInv
  OBVIOUS
<1>1. PICK start \in Starts : marker = start.marker /\ legacy = start.legacy
                               /\ index = start.index /\ databases = start.databases
  BY DEF Init
<1>2. marker \in Markers /\ legacy \in Markers /\ index \in Seq(Entries) /\ databases \in SUBSET Ids
  BY <1>1, StartsAssumption
<1>3. call \in [Clients -> Calling]
  BY IdleTyped DEF Init, Calling
<1> QED BY <1>2, <1>3, CallsAssumption DEF Init, TInv, TypeOK, Calling, InCall, AnyPlan

\* A call goes on, or ends, the rest typed.
FilesTyped ==
  /\ live \subseteq Trees
  /\ marker \in Markers
  /\ legacy \in Markers
  /\ index \in Seq(Entries)
  /\ databases \subseteq Ids

LEMMA TInvIs ==
  TInv <=> /\ FilesTyped
             /\ lock \in Clients \cup {Nobody}
             /\ call \in [Clients -> Calling]
             /\ begun \in [Clients -> 0..MaxCalls]
             /\ answer \in [Clients -> {"none", "written", "done", "refused", "failed"}]
BY DEF TInv, TypeOK, FilesTyped, Calling, InCall, AnyPlan

LEMMA TypedGoes ==
  ASSUME TInv, FilesTyped', NEW c \in Clients, NEW next \in Calling, Goes(c, next),
         lock' \in {lock, Nobody, c}, begun' = begun
  PROVE  TInv'
<1>1. call' \in [Clients -> Calling] /\ lock' \in Clients \cup {Nobody}
  BY TInvIs DEF Goes
<1>2. TInv' <=> /\ FilesTyped'
             /\ lock' \in Clients \cup {Nobody}
             /\ call' \in [Clients -> Calling]
             /\ begun' \in [Clients -> 0..MaxCalls]
             /\ answer' \in [Clients -> {"none", "written", "done", "refused", "failed"}]
  BY DEF TInv, TypeOK, FilesTyped, Calling, InCall, AnyPlan
<1> QED BY <1>1, <1>2, TInvIs DEF Goes

LEMMA TypedEnds ==
  ASSUME TInv, FilesTyped', NEW c \in Clients,
         NEW said \in {"written", "done", "refused", "failed"}, Ends(c, said), begun' = begun
  PROVE  TInv'
<1>1. call' \in [Clients -> Calling] /\ lock' \in Clients \cup {Nobody}
  BY TInvIs, IdleTyped DEF Ends, Release, Calling
<1>2. TInv' <=> /\ FilesTyped'
             /\ lock' \in Clients \cup {Nobody}
             /\ call' \in [Clients -> Calling]
             /\ begun' \in [Clients -> 0..MaxCalls]
             /\ answer' \in [Clients -> {"none", "written", "done", "refused", "failed"}]
  BY DEF TInv, TypeOK, FilesTyped, Calling, InCall, AnyPlan
<1> QED BY <1>1, <1>2, TInvIs DEF Ends

LEMMA TypedTo ==
  ASSUME TInv, FilesTyped', NEW c \in Clients, NEW pc, To(c, pc),
         [call[c] EXCEPT !.pc = pc] \in Calling,
         lock' \in {lock, Nobody, c}, begun' = begun
  PROVE  TInv'
BY TypedGoes DEF To

LEMMA TypedResolves ==
  ASSUME TInv, FilesTyped', NEW c \in Clients, NEW id \in Ids, Resolves(c, id),
         begun' = begun
  PROVE  TInv'
<1>1. [call[c] EXCEPT !.pc = "open", !.id = id] \in Calling
  BY TInvIs, InCallStays DEF Pcs
<1> QED BY <1>1, TypedGoes DEF Resolves, Release

LEMMA FilesStay == ASSUME TInv, UNCHANGED files PROVE FilesTyped'
BY TInvIs DEF files, FilesTyped

LEMMA BeginTyped ==
  ASSUME TInv, NEW c \in Clients, NEW k \in Calls[c], Begin(c, k) PROVE TInv'
<1> DEFINE pc == IF k.op = "write" THEN "root" ELSE "survey"
           next == [Idle EXCEPT !.pc = pc, !.op = k.op, !.tree = k.tree, !.root = k.tree,
                      !.ids = k.ids, !.share = k.share]
<1>1. k \in CallTypes
  BY CallsAssumption
<1>2. next \in Calling
  BY <1>1, IdleTyped DEF CallTypes, InCall, Given, Calling
<1> HIDE DEF next
<1>3. call' = [call EXCEPT ![c] = next] /\ answer' = answer /\ lock' = lock
  BY DEF Begin, Goes, next
<1>4. FilesTyped'
  BY FilesStay DEF Begin
<1>5. begun' \in [Clients -> 0..MaxCalls]
  <2>1. begun' = [begun EXCEPT ![c] = @ + 1] /\ begun[c] < MaxCalls
    BY DEF Begin
  <2>2. begun \in [Clients -> 0..MaxCalls]
    BY TInvIs
  <2> QED BY <2>1, <2>2, CallsAssumption
<1>6. call' \in [Clients -> Calling]
  BY <1>2, <1>3, TInvIs
<1>7. TInv' <=> /\ FilesTyped'
             /\ lock' \in Clients \cup {Nobody}
             /\ call' \in [Clients -> Calling]
             /\ begun' \in [Clients -> 0..MaxCalls]
             /\ answer' \in [Clients -> {"none", "written", "done", "refused", "failed"}]
  BY DEF TInv, TypeOK, FilesTyped, Calling, InCall, AnyPlan
<1> QED BY <1>3, <1>4, <1>5, <1>6, <1>7, TInvIs

LEMMA SurveyStepTyped == ASSUME TInv, NEW c \in Clients, Survey(c) PROVE TInv'
<1> DEFINE tree == call[c].tree
           seen == SurveyAt(tree)
<1>1. FilesTyped' /\ begun' = begun
  BY FilesStay DEF Survey
<1>2. call[c] \in InCall /\ tree \in Trees /\ call[c].ids \subseteq Ids
  BY TInvIs DEF Calling, InCall
<1>3. seen \in Surveys
  BY <1>2, SurveyTyped DEF TInv
<1>4. ASSUME NEW plan \in AnyPlan, NEW root \in Trees, NEW id \in Ids \cup {NoId},
             plan.mark => id \in Ids, Plans(c, seen, plan, root, id)
      PROVE  TInv'
  <2>1. CASE Ends(c, "done")
    BY <1>1, <2>1, TypedEnds
  <2>2. CASE ~Ends(c, "done")
    <3> DEFINE next == [call[c] EXCEPT !.pc = "apply", !.seen = seen, !.plan = plan, !.root = root,
                          !.id = id]
    <3>1. Goes(c, next) /\ lock' = lock
      BY <1>4, <2>2 DEF Plans
    <3> HIDE DEF seen
    <3>2. next \in Calling
      <4>1. call[c] \in InCall /\ next \in InCall
        BY <1>2, <1>3, <1>4 DEF InCall
      <4> QED BY <1>4, <4>1 DEF InCall, Given, Calling
    <3> HIDE DEF next
    <3> QED BY <1>1, <3>1, <3>2, TypedGoes
  <2> QED BY <2>1, <2>2
<1>5. CASE Ends(c, "refused")
  BY <1>1, <1>5, TypedEnds
<1>6. CASE Plans(c, seen, HealPlan(seen), seen.root, HealId(seen))
  <2>1. HealPlan(seen).mark => HealId(seen) \in Ids
    <3>1. HealPlan(seen).mark => HealId(seen) # NoId
      BY DEF HealPlan, BindPlan, Planned, HealId
    <3> QED BY <1>3, <3>1, HealTyped
  <2> QED BY <1>3, <1>4, <1>6, <2>1, HealTyped
<1>7. ASSUME NEW id \in call[c].ids, Plans(c, seen, RepointPlan(seen, tree, id), tree, id)
      PROVE  TInv'
  <2>1. RepointPlan(seen, tree, id) \in AnyPlan
    BY <1>2, <1>3, <1>7, PlansTyped DEF RepointPlan
  <2> QED BY <1>2, <1>4, <1>7, <2>1
<1>8. CASE Plans(c, seen, Planned({}, {}, FALSE, call[c].ids), tree, NoId)
  <2>1. Planned({}, {}, FALSE, call[c].ids) \in AnyPlan
    BY <1>2 DEF Planned, AnyPlan
  <2>2. ~Planned({}, {}, FALSE, call[c].ids).mark
    BY DEF Planned
  <2> QED BY <1>2, <1>4, <1>8, <2>1, <2>2
<1> QED BY <1>5, <1>6, <1>7, <1>8 DEF Survey

LEMMA SaveIndexIs ==
  ASSUME TInv, NEW c \in Clients, Save(c)
  PROVE  LET plan == call[c].plan IN
         /\ index' \in Seq(Entries)
         /\ Range(index') \subseteq Range(index) \cup plan.register
         /\ \A r : (\A e \in plan.register \cup plan.unregister : e.path # r) =>
              FirstAt(index', r) = FirstAt(index, r)
         /\ plan.register \cup plan.unregister = {} => index' = index
<1> DEFINE plan == call[c].plan
           e == CHOOSE x \in plan.register : TRUE
           added == IF plan.register = {} THEN <<>> ELSE <<e>>
<1>1. index \in Seq(Entries) /\ plan \in AnyPlan
  BY TInvIs DEF FilesTyped, Calling, InCall
<1>2. plan.register \subseteq Entries
  BY <1>1 DEF AnyPlan
<1>3. index' = IF plan.register \cup plan.unregister = {} THEN index
               ELSE Without(index \o added, plan.unregister)
  BY DEF Save
<1>4. CASE plan.register \cup plan.unregister = {}
  BY <1>1, <1>3, <1>4
<1>5. CASE plan.register = {} /\ plan.unregister # {}
  <2>1. index' = Without(index \o <<>>, plan.unregister)
    BY <1>3, <1>5
  <2>2. index \o <<>> = index
    BY <1>1, ConcatEmptySeq
  <2> DEFINE dropped == plan.unregister
  <2> HIDE DEF dropped
  <2>3. /\ Without(index, dropped) \in Seq(Entries)
        /\ Range(Without(index, dropped)) \subseteq Range(index)
        /\ \A r : (\A x \in dropped : x.path # r) =>
             FirstAt(Without(index, dropped), r) = FirstAt(index, r)
    BY <1>1, WithoutIs
  <2> QED BY <1>5, <2>1, <2>2, <2>3 DEF dropped
<1>6. CASE plan.register # {}
  <2>1. e \in plan.register /\ e \in Entries
    BY <1>2, <1>6
  <2>2. index' = Without(index \o <<e>>, plan.unregister)
    BY <1>3, <1>6
  <2>3. <<e>> \in {<<>>, <<e>>}
    OBVIOUS
  <2> HIDE DEF plan, e
  <2>4. /\ index' \in Seq(Entries)
        /\ Range(index') \subseteq Range(index) \cup {e}
        /\ \A r : (\A x \in plan.unregister : x.path # r) /\ e.path # r =>
             FirstAt(index', r) = FirstAt(index, r)
    BY <1>1, <2>1, <2>2, <2>3, SavedIndex
  <2> QED BY <1>6, <2>1, <2>4 DEF plan
<1> QED BY <1>4, <1>5, <1>6

LEMMA SaveTyped == ASSUME TInv, NEW c \in Clients, Save(c) PROVE TInv'
<1>1. FilesTyped' /\ begun' = begun
  BY TInvIs, SaveIndexIs DEF Save, FilesTyped
<1>2. CASE Ends(c, "done")
  BY <1>1, <1>2, TypedEnds
<1>3. ASSUME NEW pc \in {"mark", "remove"}, To(c, pc), lock' = lock,
             pc = "mark" => call[c].plan.mark
      PROVE  TInv'
  <2>1. call[c] \in Calling /\ call[c].pc = "save" /\ pc \in Pcs
    BY TInvIs DEF Save, Pcs
  <2>2. [call[c] EXCEPT !.pc = pc] \in Calling
    BY <1>3, <2>1, InCallStays
  <2> QED BY <1>1, <1>3, <2>2, TypedTo
<1> QED BY <1>2, <1>3 DEF Save, AfterSave

LEMMA NextTyped == TInv /\ [Next]_vars => TInv'
<1> SUFFICES ASSUME TInv, [Next]_vars PROVE TInv'
  OBVIOUS
<1>a. /\ FilesTyped /\ \A c \in Clients : call[c] \in Calling /\ call[c].tree \in Trees
                                          /\ call[c].root \in Trees
                                          /\ Given(call[c])
  BY TInvIs DEF Calling, InCall
<1>1. CASE UNCHANGED vars
  BY <1>1 DEF vars, TInv, TypeOK
<1>2. ASSUME NEW c \in Clients, NEW k \in Calls[c], Begin(c, k) PROVE TInv'
  BY <1>2, BeginTyped
<1>3. ASSUME NEW c \in Clients, FindRoot(c) PROVE TInv'
  <2>1. FilesTyped' /\ begun' = begun
    BY <1>3, FilesStay DEF FindRoot
  <2>2. CASE Ends(c, "refused")
    BY <2>1, <2>2, TypedEnds
  <2>3. CASE Goes(c, [call[c] EXCEPT !.pc = "markers", !.root = IdentityRoot(call[c].tree)])
             /\ UNCHANGED lock
    <3> DEFINE root == IdentityRoot(call[c].tree)
               next == [call[c] EXCEPT !.pc = "markers", !.root = root]
    <3>1. root \in Trees
      BY <1>a, RootTyped
    <3>2. Goes(c, next) /\ lock' = lock
      BY <2>3
    <3> HIDE DEF root
    <3>3. next \in Calling
      BY <1>a, <3>1, InCallStays DEF Pcs
    <3> HIDE DEF next
    <3> QED BY <2>1, <3>2, <3>3, TypedGoes
  <2> QED BY <1>3, <2>2, <2>3 DEF FindRoot
<1>4. ASSUME NEW c \in Clients, ReadMarkers(c) PROVE TInv'
  <2>1. FilesTyped' /\ begun' = begun
    BY <1>4, FilesStay DEF ReadMarkers
  <2>2. CASE Named(marker[call[c].root]) # NoId /\ Resolves(c, marker[call[c].root])
    <3>1. marker[call[c].root] \in Ids
      BY <2>2 DEF Named
    <3> QED BY <2>1, <2>2, <3>1, TypedResolves
  <2>3. CASE /\ Named(legacy[call[c].root]) # NoId /\ UNCHANGED lock
             /\ Goes(c, [call[c] EXCEPT !.pc = "adopt", !.id = legacy[call[c].root]])
    <3> DEFINE id == legacy[call[c].root]
               next == [call[c] EXCEPT !.pc = "adopt", !.id = id]
    <3>1. id \in Ids
      BY <2>3 DEF Named
    <3>2. Goes(c, next)
      BY <2>3
    <3> HIDE DEF id
    <3>3. next \in Calling
      BY <1>a, <3>1, InCallStays DEF Pcs
    <3> HIDE DEF next
    <3> QED BY <2>1, <2>3, <3>2, <3>3, TypedGoes
  <2>4. CASE To(c, "entry") /\ UNCHANGED lock
    <3>1. [call[c] EXCEPT !.pc = "entry"] \in Calling
      BY <1>a, InCallStays DEF Pcs
    <3> QED BY <2>1, <2>4, <3>1, TypedTo
  <2> QED BY <1>4, <2>2, <2>3, <2>4 DEF ReadMarkers
<1>marks. ASSUME NEW r \in Trees, NEW id \in Ids, marker' = [marker EXCEPT ![r] = id],
                 UNCHANGED <<live, legacy, index, databases>>
          PROVE  FilesTyped'
  BY <1>a, <1>marks DEF FilesTyped, Markers
<1>5. ASSUME NEW c \in Clients, Adopt(c) PROVE TInv'
  <2>1. call[c].id \in Ids
    BY <1>a, <1>5 DEF Adopt, Given
  <2>2. FilesTyped' /\ begun' = begun
    BY <1>a, <1>5, <1>marks, <2>1 DEF Adopt
  <2> QED BY <1>5, <2>1, <2>2, TypedResolves DEF Adopt
<1>6. ASSUME NEW c \in Clients, ReadEntry(c) PROVE TInv'
  <2>1. FilesTyped' /\ begun' = begun
    BY <1>6, FilesStay DEF ReadEntry
  <2>2. CASE IdFor(call[c].root) # NoId /\ Resolves(c, IdFor(call[c].root))
    <3>1. IdFor(call[c].root) \in Ids
      BY <2>2, IdForTyped DEF TInv
    <3> QED BY <2>1, <2>2, <3>1, TypedResolves
  <2>3. CASE To(c, "lock") /\ UNCHANGED lock
    <3>1. [call[c] EXCEPT !.pc = "lock"] \in Calling
      BY <1>a, InCallStays DEF Pcs
    <3> QED BY <2>1, <2>3, <3>1, TypedTo
  <2> QED BY <1>6, <2>2, <2>3 DEF ReadEntry
<1>7. ASSUME NEW c \in Clients, Mint(c) PROVE TInv'
  <2>1. CASE Ends(c, "refused") /\ UNCHANGED index
    <3>1. FilesTyped' /\ begun' = begun
      BY <1>7, <1>a, <2>1 DEF Mint, FilesTyped
    <3> QED BY <2>1, <3>1, TypedEnds
  <2>2. ASSUME NEW id \in Ids, index' = Append(index, [id |-> id, path |-> call[c].root]),
               Goes(c, [call[c] EXCEPT !.pc = "mark", !.id = id]), UNCHANGED lock
        PROVE  TInv'
    <3>1. FilesTyped' /\ begun' = begun
      <4>1. [id |-> id, path |-> call[c].root] \in Entries
        BY <1>a DEF Entries
      <4>2. index' \in Seq(Entries)
        BY <1>a, <2>2, <4>1 DEF FilesTyped
      <4> QED BY <1>7, <1>a, <4>2 DEF Mint, FilesTyped
    <3>2. [call[c] EXCEPT !.pc = "mark", !.id = id] \in Calling
      BY <1>a, InCallStays DEF Pcs
    <3> QED BY <2>2, <3>1, <3>2, TypedGoes
  <2> QED BY <1>7, <2>1, <2>2 DEF Mint
<1>8. ASSUME NEW c \in Clients, TakeLock(c) PROVE TInv'
  <2> DEFINE pc == IF call[c].pc = "lock" THEN "markers" ELSE "recheck"
  <2>1. FilesTyped' /\ begun' = begun /\ lock' = c
    BY <1>8, FilesStay DEF TakeLock
  <2>2. call[c].pc \in {"lock", "apply"} /\ pc \in Pcs
    BY <1>8 DEF TakeLock, Pcs
  <2>3. [call[c] EXCEPT !.pc = pc] \in Calling
    BY <1>a, <2>2, InCallStays
  <2> QED BY <1>8, <2>1, <2>3, TypedTo DEF TakeLock
<1>9. ASSUME NEW c \in Clients, LockTimeout(c) PROVE TInv'
  BY <1>9, FilesStay, TypedEnds DEF LockTimeout
<1>10. ASSUME NEW c \in Clients, Mark(c) PROVE TInv'
  <2>1. call[c].id \in Ids
    BY <1>a, <1>10 DEF Mark, Given
  <2>2. FilesTyped' /\ begun' = begun
    BY <1>a, <1>10, <1>marks, <2>1 DEF Mark
  <2> QED BY <1>10, <2>1, <2>2, TypedResolves, TypedEnds DEF Mark
<1>11. ASSUME NEW c \in Clients, OpenStore(c) PROVE TInv'
  <2>1. call[c].id \in Ids
    BY <1>a, <1>11 DEF OpenStore, Given
  <2>2. FilesTyped' /\ begun' = begun
    BY <1>a, <1>11, <2>1 DEF OpenStore, FilesTyped
  <2> QED BY <1>11, <2>2, TypedEnds DEF OpenStore
<1>12. ASSUME NEW c \in Clients, Survey(c) PROVE TInv'
  BY <1>12, SurveyStepTyped
<1>13. ASSUME NEW c \in Clients, Recheck(c) PROVE TInv'
  <2>1. FilesTyped' /\ begun' = begun
    BY <1>13, FilesStay DEF Recheck
  <2>2. [call[c] EXCEPT !.pc = "save"] \in Calling
    BY <1>13, <1>a, InCallStays DEF Pcs, Recheck
  <2> QED BY <1>13, <2>1, <2>2, TypedTo, TypedEnds DEF Recheck
<1>14. ASSUME NEW c \in Clients, Save(c) PROVE TInv'
  BY <1>14, SaveTyped
<1>15. ASSUME NEW c \in Clients, RemoveDatabase(c) PROVE TInv'
  <2>1. FilesTyped' /\ begun' = begun
    BY <1>15, <1>a DEF RemoveDatabase, FilesTyped
  <2>2. CASE Ends(c, "done")
    BY <2>1, <2>2, TypedEnds
  <2>3. ASSUME NEW id, Goes(c, [call[c] EXCEPT !.plan.removes = @ \ {id}]), UNCHANGED lock
        PROVE  TInv'
    <3> DEFINE next == [call[c] EXCEPT !.plan.removes = @ \ {id}]
    <3>1. next \in Calling
      <4>1. call[c].plan \in AnyPlan /\ call[c].pc = "remove"
        BY <1>a, <1>15 DEF Calling, InCall, RemoveDatabase
      <4> DEFINE plan == [call[c].plan EXCEPT !.removes = @ \ {id}]
      <4>2. plan \in AnyPlan
        BY <4>1 DEF AnyPlan
      <4>3. next = [call[c] EXCEPT !.plan = plan]
        OBVIOUS
      <4> HIDE DEF plan
      <4> QED BY <1>a, <4>1, <4>2, <4>3 DEF Calling, InCall, Given
    <3> HIDE DEF next
    <3>2. Goes(c, next)
      BY <2>3 DEF next
    <3> QED BY <2>1, <2>3, <3>1, <3>2, TypedGoes
  <2> QED BY <1>15, <2>2, <2>3 DEF RemoveDatabase
<1>16. ASSUME NEW c \in Clients, Fail(c) PROVE TInv'
  BY <1>16, FilesStay, TypedEnds DEF Fail
<1>17. ASSUME NEW r \in Trees, Vanish(r) PROVE TInv'
  <2>1. FilesTyped'
    BY <1>17, <1>a DEF Vanish, FilesTyped, Markers
  <2>2. TInv' <=> /\ FilesTyped'
             /\ lock' \in Clients \cup {Nobody}
             /\ call' \in [Clients -> Calling]
             /\ begun' \in [Clients -> 0..MaxCalls]
             /\ answer' \in [Clients -> {"none", "written", "done", "refused", "failed"}]
    BY DEF TInv, TypeOK, FilesTyped, Calling, InCall, AnyPlan
  <2> QED BY <1>17, <2>1, <2>2, TInvIs DEF Vanish
<1> QED
  BY <1>1, <1>2, <1>3, <1>4, <1>5, <1>6, <1>7, <1>8, <1>9, <1>10, <1>11, <1>12, <1>13,
     <1>14, <1>15, <1>16, <1>17 DEF Next

\* Every value stays of its type; and a call that writes an id, or opens its
\* store, has one to write (bound and apply_changes).
THEOREM RegistryTyped == Spec => []TypeOK
<1>1. TInv => TypeOK
  BY DEF TInv
<1> QED BY <1>1, InitTyped, NextTyped, PTL DEF Spec

------------------------------------------------------------------------------
(* Where no tree was marked by an older version.                            *)

NoOlderMarkers == \A start \in Starts : \A r \in Trees : start.legacy[r] \notin Ids

LegacyNameless == \A r \in Trees : legacy[r] \notin Ids

\* Which steps a call of its kind takes.
InKind(k) ==
  /\ k.pc \in {"root", "markers", "entry", "lock", "open"} => k.op = "write"
  /\ k.pc \in {"survey", "apply", "recheck", "save", "remove"} => k.op # "write"
  /\ k.pc = "mark" => k.op # "remove"
  /\ k.pc # "adopt"

\* What a change planned from its survey.
AsPlanned(k) ==
  k.pc \in {"apply", "recheck", "save"} =>
    /\ k.op = "heal" =>
         k.plan = HealPlan(k.seen) /\ k.root = k.seen.root /\ k.id = HealId(k.seen)
    /\ k.op = "repoint" =>
         /\ k.plan = RepointPlan(k.seen, k.tree, k.id) /\ k.root = k.tree
         /\ ~RepointRefused(k.seen, k.tree, k.id, k.share)
    /\ k.op = "remove" => k.plan.register = {} /\ k.plan.unregister = {} /\ ~k.plan.mark

\* A write's root, and a heal's, is its own identity root.
RootOwn(k) ==
  (k.op = "write" /\ k.pc \notin {"idle", "root"}) \/ (k.op = "heal" /\ k.pc \in {"save", "mark"})
    => HasMarker(k.root) \/ Primary[k.root] = k.root

\* The root's marker names nothing, and the registry has it as the call's id.
OnlyEntered(k) == Named(marker[k.root]) = NoId /\ IdFor(k.root) = k.id

\* What a call about to mint, and one about to write a marker, rests on.
Marking(k) ==
  /\ k.op = "write" /\ k.pc = "mark" => OnlyEntered(k)
  /\ k.op = "heal" /\ k.pc = "mark" => OnlyEntered(k)
  /\ k.op = "repoint" /\ k.pc = "mark" => k.root = k.tree

\* What a change about to be saved changes, and rests on.
Saving(k) ==
  k.pc = "save" =>
    /\ \A e \in k.plan.register : e.path = k.root /\ e.id = k.id
    /\ \A e \in k.plan.unregister : e.path = k.root \/ e.path \notin live
    /\ k.op = "heal" =>
         IF k.plan.mark THEN k.plan.register \cup k.plan.unregister = {} /\ OnlyEntered(k)
         ELSE k.plan.register \cup k.plan.unregister # {} => Named(marker[k.root]) # NoId
    /\ k.op = "repoint" => k.root = k.tree
    /\ k.op = "repoint" /\ k.plan.register # {} =>
         \/ k.share
         \/ Resolved(k.tree) = k.id
         \/ \A f \in Range(index) : f.id = k.id /\ f.path # k.tree => f.path \notin live

Stands(k) == InKind(k) /\ AsPlanned(k) /\ RootOwn(k) /\ Marking(k) /\ Saving(k)

\* A call that holds the lock with its root unbound.
Minting(c) ==
  call[c].pc = "entry" /\ lock = c => Named(marker[call[c].root]) = NoId

StandInv ==
  /\ IInv
  /\ TInv
  /\ LegacyNameless
  /\ \A c \in Clients : Stands(call[c]) /\ Minting(c)

\* What a call that holds the lock rests on stays while the files it read do.
Undisturbed(k) ==
  /\ index' = index
  /\ live' \subseteq live
  /\ k.pc # "idle" =>
       /\ \A r \in {k.tree, k.root, Primary[k.tree]} :
            /\ marker'[r] = marker[r] /\ legacy'[r] = legacy[r]
            /\ r \in live' <=> r \in live

LEMMA StandsUndisturbed ==
  ASSUME StandInv, NEW k, Stands(k), Undisturbed(k)
  PROVE  Stands(k)'
<1>1. InKind(k)' /\ AsPlanned(k)'
  BY DEF Stands, InKind, AsPlanned, HealPlan, HealId
<1>2. RootOwn(k)'
  BY DEF Stands, RootOwn, Undisturbed, HasMarker
<1>3. Marking(k)'
  BY DEF Stands, Marking, OnlyEntered, Undisturbed, IdFor
<1>4. Saving(k)'
  <2> SUFFICES ASSUME k.pc = "save" PROVE Saving(k)'
    BY DEF Saving
  <2>1. Saving(k)
    BY DEF Stands
  <2>2. OnlyEntered(k)' <=> OnlyEntered(k)
    BY DEF OnlyEntered, Undisturbed, IdFor
  <2>3. Resolved(k.tree)' = Resolved(k.tree)
    <3> DEFINE root == IdentityRoot(k.tree)
    <3>1. \A r \in {k.tree, Primary[k.tree]} :
            /\ marker'[r] = marker[r] /\ legacy'[r] = legacy[r] /\ (r \in live' <=> r \in live)
            /\ HasMarker(r)' = HasMarker(r) /\ Bound(r)' = Bound(r)
      BY DEF Undisturbed, Bound, HasMarker, IdFor
    <3>2. PICK h : h = k.tree
      OBVIOUS
    <3>3. IdentityRoot(h)' = IdentityRoot(h) /\ IdentityRoot(h) \in {h, Primary[h]}
      BY <3>1, <3>2 DEF IdentityRoot
    <3>4. Bound(IdentityRoot(h))' = Bound(IdentityRoot(h))
      BY <3>1, <3>2, <3>3 DEF Bound, IdFor, Undisturbed
    <3>5. StaleWorktree(h)' = StaleWorktree(h)
      BY <3>1, <3>2, <3>3 DEF StaleWorktree
    <3>6. Resolved(h)' = Resolved(h)
      BY <3>4, <3>5 DEF Resolved
    <3> QED BY <3>2, <3>6
  <2>4. Named(marker[k.root])' = Named(marker[k.root]) /\ index' = index /\ live' \subseteq live
    BY DEF Undisturbed
  <2> QED BY <2>1, <2>2, <2>3, <2>4 DEF Saving
<1> QED BY <1>1, <1>2, <1>3, <1>4 DEF Stands

\* What a call rests on that holds no lock, as markers are written elsewhere.
LEMMA StandsElsewhere ==
  ASSUME StandInv, NEW k, Stands(k), k.pc \notin {"save", "mark"},
         k.pc # "idle" => (HasMarker(k.root) => HasMarker(k.root)')
  PROVE  Stands(k)'
<1>1. InKind(k)' /\ AsPlanned(k)'
  BY DEF Stands, InKind, AsPlanned, HealPlan, HealId
<1>2. RootOwn(k)'
  <2>1. CASE k.pc = "idle"
    BY <2>1 DEF RootOwn
  <2>2. CASE k.pc # "idle"
    <3>1. RootOwn(k) /\ (HasMarker(k.root) => HasMarker(k.root)')
      BY <2>2 DEF Stands
    <3> QED BY <3>1 DEF RootOwn
  <2> QED BY <2>1, <2>2
<1>3. Marking(k)' /\ Saving(k)'
  BY DEF Marking, Saving
<1> QED BY <1>1, <1>2, <1>3 DEF Stands

LEMMA IdleStands == Stands(Idle)
BY DEF Idle, Stands, InKind, AsPlanned, RootOwn, Marking, Saving

\* A marker is written for an id: a tree marked stays so.
LEMMA MarkedStays ==
  ASSUME StandInv, NEW r \in Trees, NEW id \in Ids, marker' = [marker EXCEPT ![r] = id],
         legacy' = legacy
  PROVE  \A q \in Trees : HasMarker(q) => HasMarker(q)'
<1>1. marker \in [Trees -> Ids \cup {Blank, Absent}]
  BY DEF StandInv, TInv, TypeOK, Markers
<1>2. id # Absent
  BY NamesAssumption
<1> QED BY <1>1, <1>2 DEF HasMarker

\* A call steps; every other rests on what it did.
LEMMA StandMoves ==
  ASSUME StandInv, IInv', TInv', NEW c \in Clients, NEW next,
         call' = [call EXCEPT ![c] = next], Stands(next)',
         next.pc = "entry" /\ lock' = c => (Named(marker[next.root]) = NoId)',
         LockMoves(c), live' = live, legacy' = legacy,
         index' = index \/ lock = c,
         marker' = marker \/ lock = c,
         \A q \in Trees : HasMarker(q) => HasMarker(q)'
  PROVE  StandInv'
<1>1. /\ call'[c] = next
      /\ \A d \in Clients : d # c => call'[d] = call[d]
  BY DEF StandInv, IInv, CallsShaped
<1>2. LegacyNameless'
  BY DEF StandInv, LegacyNameless
<1>3. ASSUME NEW d \in Clients, d # c PROVE Stands(call[d])' /\ Minting(d)'
  <2>1. call'[d] = call[d] /\ Stands(call[d]) /\ Minting(d)
    BY <1>1, <1>3 DEF StandInv
  <2>2. call[d].root \in Trees
    BY TInvIs DEF StandInv, Calling, InCall
  <2>3. lock # d => lock' # d
    BY <1>3, NamesAssumption DEF LockMoves
  <2>4. lock = d => index' = index /\ marker' = marker
    BY <1>3
  <2>5. call[d].pc \in {"save", "mark"} => lock = d
    BY DEF StandInv, IInv, LockHeld, Locking
  <2>6. PICK k : k = call[d]
    OBVIOUS
  <2>7. Stands(k)'
    <3>1. CASE lock = d
      <4>1. Undisturbed(k)
        BY <2>4, <3>1 DEF Undisturbed
      <4> QED BY <2>1, <2>6, <4>1, StandsUndisturbed
    <3>2. CASE lock # d
      <4>1. k.pc \notin {"save", "mark"} /\ (HasMarker(k.root) => HasMarker(k.root)')
        BY <2>2, <2>5, <2>6, <3>2
      <4> QED BY <2>1, <2>6, <4>1, StandsElsewhere
    <3> QED BY <3>1, <3>2
  <2>8. Stands(call[d])'
    BY <2>1, <2>6, <2>7
  <2>9. Minting(d)'
    BY <2>1, <2>3, <2>4 DEF Minting
  <2> QED BY <2>8, <2>9
<1>4. Stands(call[c])' /\ Minting(c)'
  BY <1>1 DEF Minting
<1> QED BY <1>2, <1>3, <1>4 DEF StandInv

LEMMA StandEnds ==
  ASSUME StandInv, IInv', TInv', NEW c \in Clients, NEW said, Ends(c, said),
         live' = live, legacy' = legacy, index' = index \/ lock = c, marker' = marker \/ lock = c,
         \A q \in Trees : HasMarker(q) => HasMarker(q)'
  PROVE  StandInv'
<1>1. call' = [call EXCEPT ![c] = Idle] /\ LockMoves(c)
  BY DEF Ends, Release, LockMoves
<1>2. Stands(Idle)'
  BY DEF Idle, Stands, InKind, AsPlanned, RootOwn, Marking, Saving
<1>3. Idle.pc = "idle"
  BY DEF Idle
<1> QED BY <1>1, <1>2, <1>3, StandMoves

\* The steps that write no file.
LEMMA StandGoes ==
  ASSUME StandInv, IInv', TInv', NEW c \in Clients, NEW next, Goes(c, next), UNCHANGED files,
         LockMoves(c), Stands(next),
         next.pc = "entry" /\ lock' = c => Named(marker[next.root]) = NoId
  PROVE  StandInv'
<1>1. /\ live' = live /\ legacy' = legacy /\ index' = index /\ marker' = marker
      /\ \A q \in Trees : HasMarker(q) => HasMarker(q)'
  BY DEF files, HasMarker
<1>2. Stands(next)'
  <2>1. Undisturbed(next)
    BY <1>1 DEF Undisturbed
  <2> QED BY <2>1, StandsUndisturbed
<1>3. next.pc = "entry" /\ lock' = c => (Named(marker[next.root]) = NoId)'
  BY <1>1
<1> QED BY <1>1, <1>2, <1>3, StandMoves DEF Goes

LEMMA StandEndsQuietly ==
  ASSUME StandInv, IInv', TInv', NEW c \in Clients, NEW said, Ends(c, said), UNCHANGED files
  PROVE  StandInv'
BY StandEnds DEF files, HasMarker

LEMMA StandResolves ==
  ASSUME StandInv, IInv', TInv', NEW c \in Clients, NEW id, Resolves(c, id), call[c].op = "write",
         call[c].pc \notin {"idle", "root"},
         live' = live, legacy' = legacy, index' = index, marker' = marker \/ lock = c,
         \A q \in Trees : HasMarker(q) => HasMarker(q)'
  PROVE  StandInv'
<1>1. PICK k : k = [call[c] EXCEPT !.pc = "open", !.id = id]
  OBVIOUS
<1>2. call' = [call EXCEPT ![c] = k] /\ LockMoves(c)
  BY <1>1 DEF Resolves, Goes, Release, LockMoves
<1>3. call[c] \in InCall /\ Stands(call[c])
  BY TInvIs DEF StandInv, Calling
<1>4. k.pc = "open" /\ k.op = "write" /\ k.root = call[c].root
  BY <1>1, <1>3 DEF InCall
<1>5. PICK h : h = call[c]
  OBVIOUS
<1>6. (HasMarker(k.root) \/ Primary[k.root] = k.root)'
  <2>1. HasMarker(k.root) \/ Primary[k.root] = k.root
    BY <1>3, <1>4 DEF Stands, RootOwn
  <2>2. k.root \in Trees
    BY <1>3, <1>4 DEF InCall
  <2> QED BY <2>1, <2>2
<1>7. Stands(k)'
  BY <1>4, <1>6 DEF Stands, InKind, AsPlanned, RootOwn, Marking, Saving
<1> QED BY <1>2, <1>4, <1>7, StandMoves

LEMMA BeginStands ==
  ASSUME StandInv, IInv', TInv', NEW c \in Clients, NEW k \in Calls[c], Begin(c, k)
  PROVE  StandInv'
<1> DEFINE pc == IF k.op = "write" THEN "root" ELSE "survey"
<1>1. PICK next : next = [Idle EXCEPT !.pc = pc, !.op = k.op, !.tree = k.tree, !.root = k.tree,
                      !.ids = k.ids, !.share = k.share]
  OBVIOUS
<1>2. Goes(c, next) /\ UNCHANGED files /\ LockMoves(c)
  BY <1>1 DEF Begin, LockMoves
<1>3. next.pc = pc /\ next.op = k.op
  BY <1>1 DEF Idle
<1>4. Stands(next)
  BY <1>3 DEF Stands, InKind, AsPlanned, RootOwn, Marking, Saving
<1> QED BY <1>2, <1>3, <1>4, StandGoes

LEMMA FindRootStands ==
  ASSUME StandInv, IInv', TInv', NEW c \in Clients, FindRoot(c) PROVE StandInv'
<1>1. CASE Ends(c, "refused")
  BY <1>1, StandEndsQuietly DEF FindRoot
<1>2. CASE /\ Goes(c, [call[c] EXCEPT !.pc = "markers", !.root = IdentityRoot(call[c].tree)])
           /\ UNCHANGED lock
  <2>1. call[c] \in InCall /\ Stands(call[c]) /\ call[c].pc = "root"
    BY TInvIs DEF StandInv, Calling, FindRoot
  <2>2. PICK root : root = IdentityRoot(call[c].tree)
    OBVIOUS
  <2>3. PICK next : next = [call[c] EXCEPT !.pc = "markers", !.root = root]
    OBVIOUS
  <2>4. next.pc = "markers" /\ next.op = "write" /\ next.root = root
    BY <2>1, <2>3 DEF InCall, Stands, InKind
  <2>5. HasMarker(root) \/ Primary[root] = root
    BY <2>1, <2>2, PrimaryAssumption DEF IdentityRoot, InCall
  <2>6. Stands(next)
    BY <2>4, <2>5 DEF Stands, InKind, AsPlanned, RootOwn, Marking, Saving
  <2> QED BY <1>2, <2>2, <2>3, <2>4, <2>6, StandGoes DEF FindRoot, LockMoves
<1> QED BY <1>1, <1>2 DEF FindRoot

\* A write at its root, on to the registry, or the lock.
LEMMA StandTo ==
  ASSUME StandInv, IInv', TInv', NEW c \in Clients, NEW pc \in {"entry", "lock", "markers"},
         To(c, pc), UNCHANGED files, LockMoves(c), call[c].op = "write",
         call[c].pc \notin {"idle", "root"},
         pc = "entry" /\ lock' = c => Named(marker[call[c].root]) = NoId
  PROVE  StandInv'
<1>1. PICK next : next = [call[c] EXCEPT !.pc = pc]
  OBVIOUS
<1>2. call[c] \in InCall /\ Stands(call[c])
  BY TInvIs DEF StandInv, Calling
<1>3. next.pc = pc /\ next.op = "write" /\ next.root = call[c].root
  BY <1>1, <1>2 DEF InCall
<1>4. HasMarker(next.root) \/ Primary[next.root] = next.root
  BY <1>2, <1>3 DEF Stands, RootOwn
<1>5. Stands(next)
  BY <1>3, <1>4 DEF Stands, InKind, AsPlanned, RootOwn, Marking, Saving
<1> QED BY <1>1, <1>3, <1>5, StandGoes DEF To

LEMMA ReadMarkersStands ==
  ASSUME StandInv, IInv', TInv', NEW c \in Clients, ReadMarkers(c) PROVE StandInv'
<1>1. call[c] \in InCall /\ Stands(call[c]) /\ call[c].pc = "markers"
  BY TInvIs DEF StandInv, Calling, ReadMarkers
<1>2. call[c].op = "write" /\ UNCHANGED files
  BY <1>1 DEF Stands, InKind, ReadMarkers
<1>3. CASE Resolves(c, marker[call[c].root])
  BY <1>1, <1>2, <1>3, StandResolves DEF files, HasMarker
<1>4. CASE Named(marker[call[c].root]) = NoId /\ UNCHANGED lock /\ To(c, "entry")
  BY <1>1, <1>2, <1>4, StandTo DEF LockMoves
<1>5. Named(legacy[call[c].root]) = NoId
  BY <1>1 DEF StandInv, LegacyNameless, InCall, Named
<1> QED BY <1>3, <1>4, <1>5 DEF ReadMarkers

LEMMA ReadEntryStands ==
  ASSUME StandInv, IInv', TInv', NEW c \in Clients, ReadEntry(c) PROVE StandInv'
<1>1. call[c] \in InCall /\ Stands(call[c]) /\ call[c].pc = "entry"
  BY TInvIs DEF StandInv, Calling, ReadEntry
<1>2. call[c].op = "write" /\ UNCHANGED files
  BY <1>1 DEF Stands, InKind, ReadEntry
<1>3. CASE Resolves(c, IdFor(call[c].root))
  BY <1>1, <1>2, <1>3, StandResolves DEF files, HasMarker
<1>4. CASE UNCHANGED lock /\ To(c, "lock")
  BY <1>1, <1>2, <1>4, StandTo DEF LockMoves
<1> QED BY <1>3, <1>4 DEF ReadEntry

LEMMA MintStands ==
  ASSUME StandInv, IInv', TInv', NEW c \in Clients, Mint(c) PROVE StandInv'
<1>1. call[c] \in InCall /\ Stands(call[c]) /\ call[c].pc = "entry" /\ lock = c /\ Minting(c)
  BY TInvIs DEF StandInv, Calling, Mint
<1>2. call[c].op = "write" /\ live' = live /\ legacy' = legacy /\ marker' = marker
  BY <1>1 DEF Stands, InKind, Mint
<1>3. CASE Ends(c, "refused")
  BY <1>1, <1>2, <1>3, StandEnds DEF HasMarker
<1>4. ASSUME NEW id \in Ids, index' = Append(index, [id |-> id, path |-> call[c].root]),
             Goes(c, [call[c] EXCEPT !.pc = "mark", !.id = id]), UNCHANGED lock
      PROVE  StandInv'
  <2>1. PICK next : next = [call[c] EXCEPT !.pc = "mark", !.id = id]
    OBVIOUS
  <2>2. /\ next.pc = "mark" /\ next.op = "write" /\ next.root = call[c].root /\ next.id = id
        /\ next.root \in Trees
    BY <1>1, <1>2, <2>1 DEF InCall
  <2>3. PICK e : e = [id |-> id, path |-> next.root]
    OBVIOUS
  <2>4. e \in Entries /\ e.path = next.root /\ e.id = id
    BY <2>2, <2>3 DEF Entries
  <2>5. IdFor(next.root)' = id
    <3>1. index \in Seq(Entries) /\ index' = Append(index, e)
      BY <1>4, <2>2, <2>3, TInvIs DEF StandInv, FilesTyped
    <3>2. FirstAt(index, next.root) = NoId
      BY <1>1, <2>2, IdForTyped DEF Mint, StandInv, TInv
    <3>3. FirstAt(index', next.root) = id
      BY <2>4, <3>1, <3>2, FirstAppended
    <3> QED BY <3>3 DEF IdFor, FirstAt
  <2>6. HasMarker(next.root)' \/ Primary[next.root] = next.root
    BY <1>1, <1>2, <2>2 DEF Stands, RootOwn, HasMarker
  <2>7. Named(marker'[next.root]) = NoId
    BY <1>1, <1>2, <2>2 DEF Minting
  <2>8. Stands(next)'
    BY <2>2, <2>5, <2>6, <2>7 DEF Stands, InKind, AsPlanned, RootOwn, Marking, Saving, OnlyEntered
  <2> QED BY <1>1, <1>2, <1>4, <2>1, <2>2, <2>8, StandMoves DEF Goes, LockMoves, HasMarker
<1> QED BY <1>3, <1>4 DEF Mint

LEMMA TakeLockStands ==
  ASSUME StandInv, IInv', TInv', NEW c \in Clients, TakeLock(c) PROVE StandInv'
<1>1. call[c] \in InCall /\ Stands(call[c]) /\ UNCHANGED files /\ LockMoves(c)
  BY TInvIs DEF StandInv, Calling, TakeLock, LockMoves
<1>2. CASE call[c].pc = "lock"
  <2>1. call[c].op = "write" /\ To(c, "markers")
    BY <1>1, <1>2 DEF Stands, InKind, TakeLock
  <2> QED BY <1>1, <1>2, <2>1, StandTo
<1>3. CASE call[c].pc = "apply"
  <2>1. PICK next : next = [call[c] EXCEPT !.pc = "recheck"]
    OBVIOUS
  <2>2. Goes(c, next)
    BY <1>3, <2>1 DEF TakeLock, To
  <2>3. /\ next.pc = "recheck" /\ next.op = call[c].op /\ next.plan = call[c].plan
        /\ next.seen = call[c].seen /\ next.root = call[c].root /\ next.id = call[c].id
        /\ next.tree = call[c].tree /\ next.share = call[c].share
    BY <1>1, <2>1 DEF InCall
  <2>4. InKind(next) /\ AsPlanned(next)
    <3>1. InKind(call[c]) /\ AsPlanned(call[c])
      BY <1>1 DEF Stands
    <3> QED BY <1>3, <2>3, <3>1 DEF InKind, AsPlanned
  <2>5. RootOwn(next) /\ Marking(next) /\ Saving(next)
    <3>1. next.op # "write"
      BY <2>3, <2>4 DEF InKind
    <3> QED BY <2>3, <3>1 DEF RootOwn, Marking, Saving
  <2> QED BY <1>1, <2>2, <2>3, <2>4, <2>5, StandGoes DEF Stands
<1> QED BY <1>2, <1>3 DEF TakeLock

LEMMA MarkStands ==
  ASSUME StandInv, IInv', TInv', NEW c \in Clients, Mark(c) PROVE StandInv'
<1>1. /\ call[c] \in InCall /\ Given(call[c]) /\ Stands(call[c]) /\ call[c].pc = "mark"
      /\ lock = c
  BY TInvIs DEF StandInv, Calling, Mark, IInv, LockHeld, Locking
<1>2. /\ call[c].root \in Trees /\ call[c].id \in Ids
      /\ live' = live /\ legacy' = legacy /\ index' = index
      /\ marker' = [marker EXCEPT ![call[c].root] = call[c].id]
  BY <1>1 DEF InCall, Given, Mark
<1>3. \A q \in Trees : HasMarker(q) => HasMarker(q)'
  BY <1>2, MarkedStays
<1>4. CASE call[c].op = "write" /\ Resolves(c, call[c].id)
  BY <1>1, <1>2, <1>3, <1>4, StandResolves
<1>5. CASE Ends(c, "done")
  BY <1>1, <1>2, <1>3, <1>5, StandEnds
<1> QED BY <1>4, <1>5 DEF Mark

LEMMA RemoveDatabaseStands ==
  ASSUME StandInv, IInv', TInv', NEW c \in Clients, RemoveDatabase(c) PROVE StandInv'
<1>1. call[c] \in InCall /\ Stands(call[c]) /\ call[c].pc = "remove"
  BY TInvIs DEF StandInv, Calling, RemoveDatabase
<1>2. /\ live' = live /\ legacy' = legacy /\ index' = index /\ marker' = marker
      /\ \A q \in Trees : HasMarker(q) => HasMarker(q)'
  BY DEF RemoveDatabase, HasMarker
<1>3. CASE Ends(c, "done")
  BY <1>2, <1>3, StandEnds
<1>4. ASSUME NEW id, Goes(c, [call[c] EXCEPT !.plan.removes = @ \ {id}]), UNCHANGED lock
      PROVE  StandInv'
  <2>1. PICK next : next = [call[c] EXCEPT !.plan.removes = @ \ {id}]
    OBVIOUS
  <2>2. next.pc = "remove" /\ next.op = call[c].op
    BY <1>1, <2>1 DEF InCall
  <2>3. Stands(next)'
    BY <1>1, <2>2 DEF Stands, InKind, AsPlanned, RootOwn, Marking, Saving
  <2> QED BY <1>2, <1>4, <2>1, <2>2, <2>3, StandMoves DEF Goes, LockMoves
<1> QED BY <1>3, <1>4 DEF RemoveDatabase

LEMMA VanishStands ==
  ASSUME StandInv, IInv', TInv', NEW r \in Trees, Vanish(r) PROVE StandInv'
<1>1. /\ live' = live \ {r} /\ index' = index /\ lock' = lock /\ call' = call
      /\ marker' = [marker EXCEPT ![r] = Absent] /\ legacy' = [legacy EXCEPT ![r] = Absent]
  BY DEF Vanish
<1>2. LegacyNameless'
  BY <1>1, NamesAssumption DEF StandInv, TInv, TypeOK, LegacyNameless, Markers
<1>3. ASSUME NEW c \in Clients PROVE Stands(call[c])' /\ Minting(c)'
  <2>1. PICK k : k = call[c]
    OBVIOUS
  <2>2. Stands(k) /\ Minting(c) /\ k \in InCall
    BY <2>1, TInvIs DEF StandInv, Calling
  <2>3. k.pc # "idle" => r \notin {k.tree, k.root, Primary[k.tree]}
    BY <2>1 DEF Vanish
  <2>4. k.pc # "idle" => \A q \in {k.tree, k.root, Primary[k.tree]} :
                           /\ marker'[q] = marker[q] /\ legacy'[q] = legacy[q]
                           /\ (q \in live' <=> q \in live)
    BY <1>1, <2>2, <2>3 DEF StandInv, TInv, TypeOK, Markers
  <2>5. Undisturbed(k)
    BY <1>1, <2>4 DEF Undisturbed
  <2>6. Stands(k)'
    BY <2>2, <2>5, StandsUndisturbed
  <2>7. Stands(call[c])'
    BY <1>1, <2>1, <2>6
  <2>8. Minting(c)'
    BY <1>1, <2>1, <2>2, <2>4 DEF Minting
  <2> QED BY <2>7, <2>8
<1> QED BY <1>2, <1>3 DEF StandInv

LEMMA SurveyStands ==
  ASSUME StandInv, IInv', TInv', NEW c \in Clients, Survey(c) PROVE StandInv'
<1> DEFINE tree == call[c].tree
           seen == SurveyAt(tree)
<1>1. /\ call[c] \in InCall /\ Stands(call[c]) /\ call[c].pc = "survey" /\ UNCHANGED files
      /\ call[c].op # "write"
  BY TInvIs DEF StandInv, Calling, Survey, Stands, InKind
<1>2. ASSUME NEW said, Ends(c, said) PROVE StandInv'
  BY <1>1, <1>2, StandEndsQuietly
<1>3. ASSUME NEW plan, NEW root, NEW id, Plans(c, seen, plan, root, id),
             call[c].op = "heal" => plan = HealPlan(seen) /\ root = seen.root /\ id = HealId(seen),
             call[c].op = "repoint" => /\ plan = RepointPlan(seen, tree, id) /\ root = tree
                                       /\ ~RepointRefused(seen, tree, id, call[c].share),
             call[c].op = "remove" => plan.register = {} /\ plan.unregister = {} /\ ~plan.mark
      PROVE  StandInv'
  <2>1. CASE ~Ends(c, "done")
    <3>1. PICK s : s = seen
      OBVIOUS
    <3>2. PICK next : next = [call[c] EXCEPT !.pc = "apply", !.seen = s, !.plan = plan,
                                !.root = root, !.id = id]
      OBVIOUS
    <3>3. Goes(c, next) /\ LockMoves(c)
      BY <1>3, <2>1, <3>1, <3>2 DEF Plans, LockMoves
    <3>4. /\ next.pc = "apply" /\ next.op = call[c].op /\ next.plan = plan /\ next.seen = s
          /\ next.root = root /\ next.id = id /\ next.tree = tree /\ next.share = call[c].share
      BY <1>1, <3>2 DEF InCall
    <3> HIDE DEF seen, tree
    <3>5. AsPlanned(next)
      BY <1>3, <3>1, <3>4 DEF AsPlanned
    <3>6. Stands(next)
      BY <1>1, <3>4, <3>5 DEF Stands, InKind, RootOwn, Marking, Saving
    <3> QED BY <1>1, <3>3, <3>4, <3>6, StandGoes
  <2> QED BY <1>2, <2>1
<1>4. CASE call[c].op = "heal"
  <2>1. Ends(c, "refused") \/ Plans(c, seen, HealPlan(seen), seen.root, HealId(seen))
    BY <1>4 DEF Survey
  <2> HIDE DEF seen
  <2> QED BY <1>2, <1>3, <1>4, <2>1
<1>5. CASE call[c].op = "repoint"
  <2>1. \/ Ends(c, "refused")
        \/ \E id \in call[c].ids : /\ ~RepointRefused(seen, tree, id, call[c].share)
                                   /\ Plans(c, seen, RepointPlan(seen, tree, id), tree, id)
    BY <1>5 DEF Survey
  <2> HIDE DEF seen
  <2> QED BY <1>2, <1>3, <1>5, <2>1
<1>6. CASE call[c].op = "remove"
  <2>1. \/ Ends(c, "refused")
        \/ Plans(c, seen, Planned({}, {}, FALSE, call[c].ids), tree, NoId)
    BY <1>6 DEF Survey
  <2>2. PICK plan : plan = Planned({}, {}, FALSE, call[c].ids)
    OBVIOUS
  <2>3. plan.register = {} /\ plan.unregister = {} /\ ~plan.mark
    BY <2>2 DEF Planned
  <2> HIDE DEF seen
  <2> QED BY <1>2, <1>3, <1>6, <2>1, <2>2, <2>3
<1>7. call[c].op \in {"write", "heal", "repoint", "remove"}
  BY <1>1 DEF InCall
<1> QED BY <1>1, <1>4, <1>5, <1>6, <1>7

\* What a survey sees is registered, and whether it is there.
LEMMA SurveyRegisters ==
  ASSUME TypeOK, NEW r, NEW seen, seen = SurveyAt(r)
  PROVE  /\ \A e \in Registered(seen) : /\ e.exists <=> e.path \in live
                                        /\ \E f \in Range(index) : f.id = e.id /\ f.path = e.path
         /\ \A f \in Range(index) : \E e \in Registered(seen) :
              e.id = f.id /\ e.path = f.path /\ (e.exists <=> f.path \in live)
<1>1. /\ DOMAIN seen.registry = DOMAIN index
      /\ \A i \in DOMAIN index : seen.registry[i] =
           [id |-> index[i].id, path |-> index[i].path, exists |-> index[i].path \in live]
  BY DEF SurveyAt
<1>2. ASSUME NEW i \in DOMAIN index
      PROVE  /\ index[i] \in Range(index) /\ seen.registry[i] \in Registered(seen)
             /\ seen.registry[i].id = index[i].id /\ seen.registry[i].path = index[i].path
             /\ (seen.registry[i].exists <=> index[i].path \in live)
  <2>1. /\ index[i] \in Range(index) /\ seen.registry[i] \in Registered(seen)
        /\ seen.registry[i] = [id |-> index[i].id, path |-> index[i].path,
                               exists |-> index[i].path \in live]
    BY <1>1 DEF Range, Registered
  <2>2. seen.registry[i].id = index[i].id /\ seen.registry[i].path = index[i].path
    BY <2>1
  <2>3. seen.registry[i].exists <=> index[i].path \in live
    <3>1. PICK b : b = (index[i].path \in live)
      OBVIOUS
    <3>2. seen.registry[i].exists = b
      BY <2>1, <3>1
    <3> QED BY <3>1, <3>2, Zenon
  <2> QED BY <2>1, <2>2, <2>3
<1>3. ASSUME NEW e \in Registered(seen)
      PROVE  /\ e.exists <=> e.path \in live
             /\ \E f \in Range(index) : f.id = e.id /\ f.path = e.path
  <2>1. PICK i \in DOMAIN index : e = seen.registry[i]
    BY <1>1 DEF Registered
  <2> QED BY <1>2, <2>1
<1>4. ASSUME NEW f \in Range(index)
      PROVE  \E e \in Registered(seen) : e.id = f.id /\ e.path = f.path /\ (e.exists <=> f.path \in live)
  <2>1. PICK i \in DOMAIN index : f = index[i]
    BY DEF Range
  <2> QED BY <1>2, <2>1
<1> QED BY <1>3, <1>4

\* The only id a root is registered as is its first.
LEMMA OnlyIdFirst ==
  ASSUME TypeOK, NEW r, NEW seen, seen = SurveyAt(r), NEW root,
         Cardinality(IdsAt(seen, root)) = 1
  PROVE  IdFor(root) = CHOOSE id \in IdsAt(seen, root) : TRUE
<1> DEFINE at == IdsAt(seen, root)
<1>1. index \in Seq(Entries)
  BY DEF TypeOK
<1>2. IsFiniteSet(at)
  <2> DEFINE f == [i \in 1..Len(index) |-> index[i].id]
             T == {f[i] : i \in 1..Len(index)}
  <2>1. f \in Surjection(1..Len(index), T)
    BY DEF Surjection
  <2>2. IsFiniteSet(1..Len(index))
    BY <1>1, FS_Interval
  <2>3. IsFiniteSet(T)
    <3> HIDE DEF T, f
    <3> QED BY <2>1, <2>2, FS_Surjection
  <2>4. at \subseteq T
    <3> SUFFICES ASSUME NEW id \in at PROVE id \in T
      OBVIOUS
    <3>1. PICK e \in Registered(seen) : id = e.id
      BY DEF IdsAt
    <3>2. PICK g \in Range(index) : g.id = id
      BY <3>1, SurveyRegisters
    <3>3. PICK i \in 1..Len(index) : g = index[i]
      BY <1>1, <3>2 DEF Range
    <3> QED BY <3>2, <3>3
  <2> HIDE DEF T, at
  <2> QED BY <2>3, <2>4, FS_Subset
<1>3. PICK id : at = {id}
  <2> HIDE DEF at
  <2> QED BY <1>2, FS_Singleton DEF at
<1>4. IdFor(root) \in at
  <2>1. PICK e \in Registered(seen) : e.path = root /\ e.id = id
    <3>1. id \in IdsAt(seen, root)
      BY <1>3
    <3> QED BY <3>1 DEF IdsAt
  <2>2. PICK g \in Range(index) : g.path = root
    BY <2>1, SurveyRegisters
  <2>3. PICK i \in 1..Len(index) : index[i].path = root
    BY <1>1, <2>2 DEF Range
  <2>4. FirstAt(index, root) # NoId
    BY <1>1, <2>3, FirstNone
  <2>5. PICK n \in 1..Len(index) : index[n].path = root /\ index[n].id = FirstAt(index, root)
    BY <1>1, <2>4, FirstNone
  <2>6. index[n] \in Range(index)
    BY <1>1, <2>5 DEF Range
  <2>7. PICK x \in Registered(seen) : x.path = root /\ x.id = FirstAt(index, root)
    BY <2>5, <2>6, SurveyRegisters
  <2>8. FirstAt(index, root) \in IdsAt(seen, root)
    BY <2>7 DEF IdsAt
  <2> QED BY <2>8, IdForTyped
<1> HIDE DEF at
<1> QED BY <1>3, <1>4 DEF at

\* What binding a root to an id registers, and what it unregisters.
LEMMA BindingChanges ==
  ASSUME TypeOK, NEW r, NEW seen, seen = SurveyAt(r), NEW root, NEW id, NEW mark,
         NEW plan, plan = BindPlan(seen, root, id, mark)
  PROVE  /\ \A e \in plan.register : e.path = root /\ e.id = id
         /\ \A e \in plan.unregister : e.path = root \/ e.path \notin live
         /\ plan.mark = mark
         /\ plan.register # {} => id \notin IdsAt(seen, root)
<1>1. /\ plan.register = Registering(seen, root, id)
      /\ plan.unregister = {[id |-> other, path |-> root] : other \in IdsAt(seen, root) \ {id}}
                             \cup Gone(seen, id)
      /\ plan.mark = mark
  BY DEF BindPlan, Planned
<1>2. \A e \in plan.register : e.path = root /\ e.id = id
  BY <1>1 DEF Registering
<1>3. plan.register # {} => id \notin IdsAt(seen, root)
  BY <1>1 DEF Registering
<1>4. ASSUME NEW e \in Gone(seen, id) PROVE e.path \notin live
  <2>1. PICK f \in Registered(seen) : ~f.exists /\ e = [id |-> id, path |-> f.path]
    BY <1>4 DEF Gone
  <2>2. e.path = f.path
    BY <2>1
  <2>3. f.exists <=> f.path \in live
    BY SurveyRegisters
  <2> QED BY <2>1, <2>2, <2>3
<1>5. ASSUME NEW e \in {[id |-> other, path |-> root] : other \in IdsAt(seen, root) \ {id}}
      PROVE  e.path = root
  BY <1>5
<1> QED BY <1>1, <1>2, <1>3, <1>4, <1>5

\* What an undisturbed heal is about to save.
LEMMA HealSaving ==
  ASSUME StandInv, NEW tree \in Trees, NEW seen, seen = SurveyAt(tree), NEW k,
         k.op = "heal", k.plan = HealPlan(seen), k.root = seen.root, k.id = HealId(seen)
  PROVE  Saving(k) /\ (HasMarker(k.root) \/ Primary[k.root] = k.root)
<1>1. /\ TypeOK /\ LegacyNameless /\ k.root = IdentityRoot(tree) /\ k.root \in Trees
      /\ seen.marker = Named(marker[k.root]) /\ seen.legacy = Named(legacy[k.root])
  <2>1. seen.root = IdentityRoot(tree)
    BY DEF SurveyAt
  <2> QED BY <2>1, RootTyped DEF SurveyAt, StandInv, TInv
<1>2. seen.legacy = NoId
  BY <1>1 DEF LegacyNameless, Named
<1>3. MarkedAs(seen) = seen.marker
  BY <1>2 DEF MarkedAs
<1>4. HasMarker(k.root) \/ Primary[k.root] = k.root
  BY <1>1, PrimaryAssumption DEF IdentityRoot
<1>5. CASE seen.marker = NoId
  <2>1. k.plan = Planned({}, {}, k.id # NoId, {})
    BY <1>3, <1>5 DEF HealPlan
  <2>2. k.plan.register = {} /\ k.plan.unregister = {} /\ k.plan.mark = (k.id # NoId)
    BY <2>1 DEF Planned
  <2>3. ASSUME k.id # NoId PROVE OnlyEntered(k)
    <3>1. Cardinality(IdsAt(seen, seen.root)) = 1 /\ k.id = CHOOSE id \in IdsAt(seen, seen.root) : TRUE
      BY <1>3, <1>5, <2>3 DEF HealId
    <3>2. IdFor(seen.root) = k.id
      BY <1>1, <3>1, OnlyIdFirst
    <3> QED BY <1>1, <1>5, <3>2 DEF OnlyEntered
  <2> QED BY <1>4, <2>2, <2>3 DEF Saving
<1>6. CASE seen.marker # NoId
  <2>1. k.id = seen.marker /\ k.plan = BindPlan(seen, k.root, k.id, FALSE)
    BY <1>3, <1>6 DEF HealPlan, HealId
  <2>2. PICK plan, mark : plan = k.plan /\ mark = FALSE
    OBVIOUS
  <2>3. plan = BindPlan(seen, k.root, k.id, mark)
    BY <2>1, <2>2
  <2>4. /\ \A e \in plan.register : e.path = k.root /\ e.id = k.id
        /\ \A e \in plan.unregister : e.path = k.root \/ e.path \notin live
        /\ plan.mark = mark
    BY <1>1, <2>3, BindingChanges
  <2> QED BY <1>1, <1>4, <1>6, <2>2, <2>4 DEF Saving
<1> QED BY <1>5, <1>6

\* What an undisturbed repoint is about to save.
LEMMA RepointSaving ==
  ASSUME StandInv, NEW tree \in Trees, NEW seen, seen = SurveyAt(tree), NEW k,
         ~StaleWorktree(tree), k.op = "repoint", k.tree = tree, k.root = tree,
         k.plan = RepointPlan(seen, tree, k.id), ~RepointRefused(seen, tree, k.id, k.share)
  PROVE  Saving(k)
<1>1. TypeOK
  BY DEF StandInv, TInv
<1>2. PICK mark : mark = ~(seen.root = tree /\ seen.marker = k.id)
  OBVIOUS
<1>3. PICK plan : plan = k.plan
  OBVIOUS
<1>4. plan = BindPlan(seen, tree, k.id, mark)
  BY <1>2, <1>3 DEF RepointPlan
<1>5. /\ \A e \in plan.register : e.path = tree /\ e.id = k.id
      /\ \A e \in plan.unregister : e.path = tree \/ e.path \notin live
      /\ plan.register # {} => k.id \notin IdsAt(seen, tree)
  BY <1>1, <1>4, BindingChanges
<1>6. ASSUME plan.register # {}
      PROVE  \/ k.share
             \/ Resolved(tree) = k.id
             \/ \A f \in Range(index) : f.id = k.id /\ f.path # tree => f.path \notin live
  <2>1. CASE HeldElsewhere(seen, tree, k.id)
    <3>1. k.share \/ seen.resolved = k.id
      BY <2>1 DEF RepointRefused
    <3>2. Resolved(tree) = seen.resolved
      BY DEF Resolved, SurveyAt
    <3> QED BY <3>1, <3>2
  <2>2. CASE ~HeldElsewhere(seen, tree, k.id)
    <3>1. \A e \in Registered(seen) : e.id = k.id /\ e.exists => e.path = tree
      BY <1>5, <1>6, <2>2 DEF HeldElsewhere
    <3>2. \A f \in Range(index) : \E e \in Registered(seen) :
             e.id = f.id /\ e.path = f.path /\ (e.exists <=> f.path \in live)
      BY <1>1, SurveyRegisters
    <3> QED BY <3>1, <3>2
  <2> QED BY <2>1, <2>2
<1> QED BY <1>3, <1>5, <1>6 DEF Saving

LEMMA RecheckStands ==
  ASSUME StandInv, IInv', TInv', NEW c \in Clients, Recheck(c) PROVE StandInv'
<1>1. /\ call[c] \in InCall /\ Stands(call[c]) /\ call[c].pc = "recheck" /\ UNCHANGED files
      /\ call[c].tree \in Trees
  BY TInvIs DEF StandInv, Calling, Recheck, InCall
<1>2. CASE Ends(c, "refused")
  BY <1>1, <1>2, StandEndsQuietly
<1>3. CASE Unmoved(c) /\ To(c, "save") /\ UNCHANGED lock
  <2>1. PICK next : next = [call[c] EXCEPT !.pc = "save"]
    OBVIOUS
  <2>2. PICK k : k = call[c]
    OBVIOUS
  <2>3. /\ next.pc = "save" /\ next.op = k.op /\ next.plan = k.plan /\ next.seen = k.seen
        /\ next.root = k.root /\ next.id = k.id /\ next.tree = k.tree /\ next.share = k.share
    BY <1>1, <2>1, <2>2 DEF InCall
  <2>4. k.seen = SurveyAt(k.tree) /\ ~StaleWorktree(k.tree) /\ k.tree \in Trees
    BY <1>1, <1>3, <2>2 DEF Unmoved
  <2>5. InKind(next) /\ AsPlanned(next)
    <3>1. InKind(k) /\ AsPlanned(k) /\ k.pc = "recheck"
      BY <1>1, <2>2 DEF Stands
    <3> QED BY <2>3, <3>1 DEF InKind, AsPlanned
  <2>6. Saving(next) /\ RootOwn(next)
    <3>1. CASE next.op = "heal"
      <4>1. next.plan = HealPlan(next.seen) /\ next.root = next.seen.root /\ next.id = HealId(next.seen)
        BY <2>3, <2>5, <3>1 DEF AsPlanned
      <4> QED BY <2>3, <2>4, <3>1, <4>1, HealSaving DEF RootOwn
    <3>2. CASE next.op = "repoint"
      <4>1. /\ next.plan = RepointPlan(next.seen, next.tree, next.id) /\ next.root = next.tree
            /\ ~RepointRefused(next.seen, next.tree, next.id, next.share)
        BY <2>3, <2>5, <3>2 DEF AsPlanned
      <4>2. next.seen = SurveyAt(next.tree) /\ ~StaleWorktree(next.tree) /\ next.tree \in Trees
        BY <2>3, <2>4
      <4>3. Saving(next)
        BY <3>2, <4>1, <4>2, RepointSaving
      <4> QED BY <3>2, <4>3 DEF RootOwn
    <3>3. CASE next.op = "remove"
      <4>1. next.plan.register = {} /\ next.plan.unregister = {}
        BY <2>3, <2>5, <3>3 DEF AsPlanned
      <4> QED BY <3>3, <4>1 DEF Saving, RootOwn
    <3>4. next.op \in {"heal", "repoint", "remove"}
      BY <1>1, <2>2, <2>3, <2>5 DEF InKind, InCall
    <3> QED BY <3>1, <3>2, <3>3, <3>4
  <2>7. Stands(next)
    BY <2>3, <2>5, <2>6 DEF Stands, Marking
  <2> QED BY <1>1, <1>3, <2>1, <2>3, <2>7, StandGoes DEF To, LockMoves
<1> QED BY <1>2, <1>3 DEF Recheck

LEMMA SaveStands ==
  ASSUME StandInv, IInv', TInv', NEW c \in Clients, Save(c) PROVE StandInv'
<1>1. /\ call[c] \in InCall /\ Stands(call[c]) /\ call[c].pc = "save" /\ lock = c
  BY TInvIs DEF StandInv, Calling, Save, IInv, LockHeld, Locking
<1>2. /\ live' = live /\ legacy' = legacy /\ marker' = marker
      /\ \A q \in Trees : HasMarker(q) => HasMarker(q)'
  BY DEF Save, HasMarker
<1>3. PICK k : k = call[c]
  OBVIOUS
<1>4. InKind(k) /\ AsPlanned(k) /\ RootOwn(k) /\ Saving(k) /\ k.pc = "save" /\ k.op # "write"
  BY <1>1, <1>3 DEF Stands, InKind
<1>5. ASSUME NEW pc, To(c, pc), UNCHANGED lock, (pc = "mark" /\ k.plan.mark) \/ pc = "remove"
      PROVE  StandInv'
  <2>1. PICK next : next = [call[c] EXCEPT !.pc = pc]
    OBVIOUS
  <2>2. call' = [call EXCEPT ![c] = next]
    BY <1>5, <2>1 DEF To, Goes
  <2>3. next.pc = pc /\ next.op = k.op /\ next.root = k.root /\ next.id = k.id /\ next.tree = k.tree
    BY <1>1, <1>3, <2>1 DEF InCall
  <2>4. InKind(next)'
    <3>1. pc = "mark" => k.op # "remove"
      BY <1>4, <1>5 DEF AsPlanned
    <3> QED BY <1>4, <1>5, <2>3, <3>1 DEF InKind
  <2>5. AsPlanned(next)' /\ Saving(next)'
    BY <1>5, <2>3 DEF AsPlanned, Saving
  <2>6. RootOwn(next)'
    <3>1. k.op = "heal" => (HasMarker(k.root)' \/ Primary[k.root] = k.root)
      BY <1>2, <1>4 DEF RootOwn, HasMarker
    <3> QED BY <1>4, <2>3, <3>1 DEF RootOwn
  <2>7. Marking(next)'
    <3>1. CASE pc = "mark" /\ k.op = "heal"
      <4>1. k.plan.register \cup k.plan.unregister = {} /\ OnlyEntered(k)
        BY <1>4, <1>5, <3>1 DEF Saving
      <4>2. index' = index
        BY <1>3, <4>1, SaveIndexIs DEF StandInv
      <4>3. OnlyEntered(next)
        BY <2>3, <4>1 DEF OnlyEntered
      <4>4. OnlyEntered(next)'
        BY <1>2, <4>2, <4>3 DEF OnlyEntered, IdFor
      <4> QED BY <2>3, <3>1, <4>4 DEF Marking
    <3>2. CASE ~(pc = "mark" /\ k.op = "heal")
      BY <1>4, <2>3, <3>2 DEF Marking, Saving
    <3> QED BY <3>1, <3>2
  <2>8. Stands(next)'
    BY <2>4, <2>5, <2>6, <2>7 DEF Stands
  <2>9. next.pc # "entry" /\ LockMoves(c)
    BY <1>5, <2>3 DEF LockMoves
  <2> QED BY <1>1, <1>2, <2>2, <2>8, <2>9, StandMoves
<1>6. CASE Ends(c, "done")
  BY <1>1, <1>2, <1>6, StandEnds
<1> QED BY <1>3, <1>5, <1>6 DEF Save, AfterSave

\* Of a start without older markers every step leaves what the calls rest on.
LEMMA InitStands == ASSUME NoOlderMarkers PROVE Init => StandInv
<1> SUFFICES ASSUME Init PROVE StandInv
  OBVIOUS
<1>1. IInv /\ TInv
  BY InitIInv, InitTyped
<1>2. LegacyNameless
  BY DEF NoOlderMarkers, Init, LegacyNameless
<1>3. ASSUME NEW c \in Clients PROVE Stands(call[c]) /\ Minting(c)
  <2>1. call[c] = Idle
    BY DEF Init
  <2>2. Minting(c)
    BY <2>1 DEF Minting, Idle
  <2> QED BY <2>1, <2>2, IdleStands
<1> QED BY <1>1, <1>2, <1>3 DEF StandInv

LEMMA NextStands == StandInv /\ [Next]_vars => StandInv'
<1> SUFFICES ASSUME StandInv, [Next]_vars PROVE StandInv'
  OBVIOUS
<1>1. IInv' /\ TInv'
  BY NextIInv, NextTyped DEF StandInv
<1>2. CASE UNCHANGED vars
  <2>1. LegacyNameless'
    BY <1>2 DEF StandInv, LegacyNameless, vars
  <2>2. ASSUME NEW c \in Clients PROVE Stands(call[c])' /\ Minting(c)'
    <3>1. PICK k : k = call[c]
      OBVIOUS
    <3>2. Stands(k) /\ Undisturbed(k) /\ call'[c] = k /\ Minting(c)
      BY <1>2, <3>1 DEF StandInv, Undisturbed, vars
    <3>3. Stands(k)'
      BY <3>2, StandsUndisturbed
    <3>4. Minting(c)'
      BY <1>2, <3>2 DEF Minting, vars
    <3> QED BY <3>2, <3>3, <3>4
  <2> QED BY <1>1, <2>1, <2>2 DEF StandInv
<1>3. ASSUME NEW c \in Clients, NEW k \in Calls[c], Begin(c, k) PROVE StandInv'
  BY <1>1, <1>3, BeginStands
<1>4. ASSUME NEW c \in Clients, FindRoot(c) \/ ReadMarkers(c) \/ ReadEntry(c) \/ Mint(c) PROVE StandInv'
  BY <1>1, <1>4, FindRootStands, ReadMarkersStands, ReadEntryStands, MintStands
<1>5. ASSUME NEW c \in Clients PROVE ~Adopt(c)
  BY DEF StandInv, Stands, InKind, Adopt
<1>6. ASSUME NEW c \in Clients, TakeLock(c) \/ Mark(c) \/ Survey(c) \/ Recheck(c) PROVE StandInv'
  BY <1>1, <1>6, TakeLockStands, MarkStands, SurveyStands, RecheckStands
<1>7. ASSUME NEW c \in Clients, Save(c) \/ RemoveDatabase(c) PROVE StandInv'
  BY <1>1, <1>7, SaveStands, RemoveDatabaseStands
<1>8. ASSUME NEW c \in Clients, LockTimeout(c) PROVE StandInv'
  BY <1>1, <1>8, StandEndsQuietly DEF LockTimeout
<1>9. ASSUME NEW c \in Clients, OpenStore(c) PROVE StandInv'
  BY <1>1, <1>9, StandEnds DEF OpenStore, HasMarker
<1>10. ASSUME NEW c \in Clients, Fail(c) PROVE StandInv'
  BY <1>1, <1>10, StandEndsQuietly DEF Fail
<1>11. ASSUME NEW r \in Trees, Vanish(r) PROVE StandInv'
  BY <1>1, <1>11, VanishStands
<1> QED
  BY <1>2, <1>3, <1>4, <1>5, <1>6, <1>7, <1>8, <1>9, <1>10, <1>11 DEF Next

\* Where no older marker names a project, what a call is about to save or mark
\* was planned so, and what that rests on is still there (bound, mint, and
\* apply_changes, under the lock).
THEOREM SpecStandInv == ASSUME NoOlderMarkers PROVE Spec => []StandInv
<1>1. Init => StandInv
  BY InitStands
<1> QED BY <1>1, NextStands, PTL DEF Spec

\* A step registers an entry of an id live elsewhere only where one is meant.
LEMMA StepMergesOnlyMeant ==
  ASSUME StandInv, [Next]_vars,
         NEW e \in Range(index') \ Range(index), NEW f \in Range(index'),
         e.id = f.id, e.path # f.path, f.path \in live
  PROVE  \E c \in Clients :
           /\ call[c].pc = "save"
           /\ call[c].op = "heal" \/ call[c].share \/ Resolved(call[c].tree) = e.id
<1>1. index \in Seq(Entries)
  BY DEF StandInv, TInv, TypeOK
<1>2. ASSUME NEW c \in Clients, Mint(c) PROVE FALSE
  <2>1. PICK id \in Ids \ (databases \cup {index[i].id : i \in DOMAIN index}) :
          index' = Append(index, [id |-> id, path |-> call[c].root])
    BY <1>2 DEF Mint
  <2>2. PICK new : new = [id |-> id, path |-> call[c].root]
    OBVIOUS
  <2>3. new \in Entries /\ new.id = id
    <3>1. call[c].root \in Trees
      BY TInvIs DEF StandInv, Calling, InCall
    <3> QED BY <2>2, <3>1 DEF Entries
  <2>4. /\ Len(index') = Len(index) + 1 /\ Len(index) \in Nat /\ index'[Len(index) + 1] = new
        /\ \A i \in 1..Len(index) : index'[i] = index[i]
        /\ DOMAIN index' = 1..Len(index') /\ DOMAIN index = 1..Len(index)
    <3>1. index' = Append(index, new)
      BY <2>1, <2>2
    <3> QED BY <1>1, <2>3, <3>1, AppendProperties
  <2>5. \A x \in Range(index') : x = new \/ x \in Range(index)
    <3> SUFFICES ASSUME NEW x \in Range(index') PROVE x = new \/ x \in Range(index)
      OBVIOUS
    <3>1. PICK i \in 1..Len(index') : x = index'[i]
      BY <2>4 DEF Range
    <3>2. i \in 1..Len(index) \/ i = Len(index) + 1
      BY <2>4
    <3> QED BY <2>4, <3>1, <3>2 DEF Range
  <2>6. e = new /\ f \in Range(index)
    BY <2>5
  <2>7. PICK i \in DOMAIN index : f = index[i]
    BY <2>6 DEF Range
  <2> QED BY <2>1, <2>3, <2>6, <2>7
<1>3. ASSUME NEW c \in Clients, Save(c)
      PROVE  /\ call[c].pc = "save"
             /\ call[c].op = "heal" \/ call[c].share \/ Resolved(call[c].tree) = e.id
  <2>1. PICK k : k = call[c]
    OBVIOUS
  <2>2. Range(index') \subseteq Range(index) \cup k.plan.register
    BY <1>3, <2>1, SaveIndexIs DEF StandInv
  <2>3. k.pc = "save" /\ Saving(k) /\ AsPlanned(k) /\ InKind(k) /\ k \in InCall
    BY <1>3, <2>1, TInvIs DEF StandInv, Stands, Save, Calling
  <2>4. e \in k.plan.register /\ e.path = k.root /\ e.id = k.id
    BY <2>2, <2>3 DEF Saving
  <2>5. f \in Range(index) /\ f.id = k.id /\ f.path # k.root
    BY <2>2, <2>3, <2>4 DEF Saving
  <2>6. k.op \in {"heal", "repoint"}
    BY <2>3, <2>4 DEF AsPlanned, InKind, InCall
  <2>7. k.op = "repoint" => k.share \/ Resolved(k.tree) = k.id
    BY <2>3, <2>4, <2>5 DEF Saving
  <2> QED BY <2>1, <2>3, <2>4, <2>6, <2>7
<1>4. (\E c \in Clients : Mint(c) \/ Save(c)) \/ index' = index
  BY DEF Next, vars, files, Begin, FindRoot, ReadMarkers, Adopt, ReadEntry, TakeLock, LockTimeout,
         Mark, OpenStore, Survey, Recheck, RemoveDatabase, Fail, Vanish
<1> QED BY <1>2, <1>3, <1>4

\* Where no older marker names a project, two live trees come to be registered
\* as one only by a heal, a repoint told to share, or one of a tree that is that
\* project already (mint, and apply_changes under the lock).
THEOREM MergesAreMeant == ASSUME NoOlderMarkers PROVE Spec => MergesOnlyMeant
<1>1. StandInv /\ [Next]_vars =>
        [\A e \in Range(index') \ Range(index), f \in Range(index') :
           e.id = f.id /\ e.path # f.path /\ f.path \in live
             => \E c \in Clients :
                  /\ call[c].pc = "save"
                  /\ call[c].op = "heal" \/ call[c].share \/ Resolved(call[c].tree) = e.id]_vars
  BY StepMergesOnlyMeant
<1> QED BY <1>1, SpecStandInv, PTL DEF Spec, MergesOnlyMeant

\* A tree's identity rests on its markers, its primary checkout's, and the
\* entry of the one its identity is.
LEMMA ResolvedStays ==
  ASSUME NEW r \in Trees, live' = live, NEW root, root = IdentityRoot(r),
         HasMarker(r)' <=> HasMarker(r), Bound(root)' = Bound(root)
  PROVE  Resolved(r)' = Resolved(r)
<1>1. IdentityRoot(r)' = root
  BY DEF IdentityRoot
<1>2. Bound(IdentityRoot(r))' = Bound(root)
  BY <1>1 DEF Bound, IdFor
<1>3. StaleWorktree(r)' <=> StaleWorktree(r)
  BY <1>1 DEF StaleWorktree
<1> QED BY <1>2, <1>3 DEF Resolved

LEMMA FilesResolve ==
  ASSUME NEW r \in Trees, UNCHANGED <<live, marker, legacy, index>>
  PROVE  Resolved(r)' = Resolved(r)
<1>1. PICK root : root = IdentityRoot(r)
  OBVIOUS
<1>2. (HasMarker(r)' <=> HasMarker(r)) /\ Bound(root)' = Bound(root)
  BY DEF HasMarker, Bound, IdFor
<1> QED BY <1>1, <1>2, ResolvedStays

\* A mint registers only what nothing had named.
LEMMA MintResolves ==
  ASSUME StandInv, NEW c \in Clients, Mint(c), NEW r \in Trees, Resolved(r) # NoId
  PROVE  Resolved(r)' = Resolved(r)
<1>1. PICK root : root = IdentityRoot(r)
  OBVIOUS
<1>2. UNCHANGED <<live, marker, legacy>> /\ (HasMarker(r)' <=> HasMarker(r))
  BY DEF Mint, HasMarker
<1>3. Bound(root) # NoId
  BY <1>1 DEF Resolved
<1>4. IdFor(root) # NoId => IdFor(root)' = IdFor(root)
  <2>1. CASE index' = index
    BY <2>1 DEF IdFor
  <2>2. ASSUME NEW id \in Ids, index' = Append(index, [id |-> id, path |-> call[c].root])
        PROVE  IdFor(root) # NoId => IdFor(root)' = IdFor(root)
    <3>1. PICK new : new = [id |-> id, path |-> call[c].root]
      OBVIOUS
    <3>2. call[c].root \in Trees /\ index \in Seq(Entries)
      BY TInvIs DEF StandInv, Calling, InCall, FilesTyped
    <3>3. new \in Entries /\ index' = Append(index, new)
      BY <2>2, <3>1, <3>2 DEF Entries
    <3>4. FirstAt(index, root) # NoId => FirstAt(index', root) = FirstAt(index, root)
      BY <3>2, <3>3, FirstAppended
    <3> QED BY <3>4 DEF FirstAt, IdFor
  <2> QED BY <2>1, <2>2 DEF Mint
<1>5. Bound(root)' = Bound(root)
  BY <1>2, <1>3, <1>4 DEF Bound
<1> QED BY <1>1, <1>2, <1>5, ResolvedStays

\* A marker names what its tree was resolved as, but a repoint's.
LEMMA MarkResolves ==
  ASSUME StandInv, NEW c \in Clients, Mark(c), NEW r \in Trees, Resolved(r) # NoId,
         ~(call[c].op = "repoint" /\ call[c].tree \in {r, IdentityRoot(r)})
  PROVE  Resolved(r)' = Resolved(r)
<1>1. PICK k : k = call[c]
  OBVIOUS
<1>2. PICK root : root = IdentityRoot(r)
  OBVIOUS
<1>3. /\ k.pc = "mark" /\ k \in InCall /\ RootOwn(k) /\ Marking(k) /\ InKind(k)
      /\ k.root \in Trees /\ k.id \in Ids /\ marker \in Markers
  BY <1>1, TInvIs DEF StandInv, Stands, Mark, Calling, InCall, Given, FilesTyped
<1>4. UNCHANGED <<live, legacy, index>> /\ marker' = [marker EXCEPT ![k.root] = k.id]
  BY <1>1 DEF Mark
<1>5. root \in Trees
  BY <1>2, PrimaryAssumption DEF IdentityRoot
<1>6. \A q \in Trees : q # k.root => (HasMarker(q)' <=> HasMarker(q)) /\ Bound(q)' = Bound(q)
  BY <1>3, <1>4 DEF HasMarker, Bound, IdFor, Markers
<1>7. CASE k.root \notin {r, root}
  BY <1>2, <1>4, <1>5, <1>6, <1>7, ResolvedStays
<1>8. CASE k.root \in {r, root} /\ k.op # "repoint"
  <2>1. /\ Named(marker[k.root]) = NoId /\ IdFor(k.root) = k.id
        /\ HasMarker(k.root) \/ Primary[k.root] = k.root
    BY <1>3, <1>8 DEF Marking, OnlyEntered, InKind, InCall, RootOwn
  <2>2. legacy[k.root] \notin Ids /\ k.id \notin {NoId, Absent} /\ marker'[k.root] = k.id
    BY <1>3, <1>4, NamesAssumption DEF StandInv, LegacyNameless, Markers
  <2>3. Bound(k.root) = k.id /\ Bound(k.root)' = k.id /\ HasMarker(k.root)'
    <3>1. Bound(k.root) = k.id
      BY <2>1, <2>2 DEF Bound, Named
    <3>2. Bound(k.root)' = k.id
      BY <1>3, <2>2 DEF Bound, Named
    <3>3. HasMarker(k.root)'
      BY <2>2 DEF HasMarker
    <3> QED BY <3>1, <3>2, <3>3
  <2>4. Bound(root)' = Bound(root)
    BY <1>5, <1>6, <2>3
  <2>5. k.root = r => root = r
    BY <1>2, <2>1 DEF IdentityRoot
  <2>6. CASE r # k.root
    BY <1>2, <1>4, <1>6, <2>4, <2>6, ResolvedStays
  <2>7. CASE r = k.root
    <3>1. IdentityRoot(r)' = r
      BY <2>3, <2>7 DEF IdentityRoot
    <3>2. Bound(IdentityRoot(r))' = Bound(r)
      BY <2>3, <2>7, <3>1 DEF Bound, IdFor
    <3>3. StaleWorktree(r)' <=> StaleWorktree(r)
      BY <1>2, <1>4, <2>5, <2>7, <3>1 DEF StaleWorktree
    <3> QED BY <1>2, <2>5, <2>7, <3>2, <3>3 DEF Resolved
  <2> QED BY <2>6, <2>7
<1>9. k.op = "repoint" => k.root \notin {r, root}
  BY <1>1, <1>2, <1>3 DEF Marking
<1> QED BY <1>7, <1>8, <1>9

\* What is saved changes no live tree's entry but the one the change is of, and
\* that one's only where its marker is read first, or a repoint's.
LEMMA SaveResolves ==
  ASSUME StandInv, NEW c \in Clients, Save(c), NEW r \in Trees, Resolved(r) # NoId,
         ~(call[c].op = "repoint" /\ call[c].tree \in {r, IdentityRoot(r)})
  PROVE  Resolved(r)' = Resolved(r)
<1>1. PICK k : k = call[c]
  OBVIOUS
<1>2. PICK root : root = IdentityRoot(r)
  OBVIOUS
<1>3. /\ UNCHANGED <<live, marker, legacy>> /\ (HasMarker(r)' <=> HasMarker(r))
      /\ root \in live
  BY <1>2 DEF Save, HasMarker, Resolved, StaleWorktree
<1>4. k.pc = "save" /\ Saving(k) /\ AsPlanned(k) /\ InKind(k) /\ k \in InCall
  BY <1>1, TInvIs DEF StandInv, Stands, Save, Calling
<1>5. /\ \A q : (\A e \in k.plan.register \cup k.plan.unregister : e.path # q) =>
           FirstAt(index', q) = FirstAt(index, q)
      /\ k.plan.register \cup k.plan.unregister = {} => index' = index
  BY <1>1, SaveIndexIs DEF StandInv
<1>6. CASE root # k.root
  <2>1. \A e \in k.plan.register \cup k.plan.unregister : e.path # root
    BY <1>3, <1>4, <1>6 DEF Saving
  <2>2. FirstAt(index', root) = FirstAt(index, root)
    BY <1>5, <2>1
  <2>3. IdFor(root)' = IdFor(root)
    BY <2>2 DEF IdFor, FirstAt
  <2>4. Bound(root)' = Bound(root)
    BY <1>3, <2>3 DEF Bound
  <2> QED BY <1>2, <1>3, <2>4, ResolvedStays
<1>7. CASE Named(marker[root]) # NoId
  <2>1. Bound(root)' = Bound(root)
    BY <1>3, <1>7 DEF Bound
  <2> QED BY <1>2, <1>3, <2>1, ResolvedStays
<1>8. CASE root = k.root /\ Named(marker[root]) = NoId
  <2>1. k.op # "repoint"
    BY <1>1, <1>2, <1>4, <1>8 DEF Saving
  <2>2. k.plan.register \cup k.plan.unregister = {}
    BY <1>4, <1>8, <2>1 DEF Saving, AsPlanned, InKind, InCall
  <2>3. index' = index
    BY <1>5, <2>2
  <2> QED BY <1>3, <2>3, FilesResolve
<1> QED BY <1>6, <1>7, <1>8

\* A step leaves a live tree's project what it was, but a repoint of it.
LEMMA StepResolutionStands ==
  ASSUME StandInv, [Next]_vars, NEW r \in live, live' = live, Resolved(r) # NoId,
         Resolved(r)' # Resolved(r)
  PROVE  \E c \in Clients : /\ call[c].op = "repoint"
                            /\ call[c].pc \in {"save", "mark"}
                            /\ call[c].tree \in {r, IdentityRoot(r)}
<1>1. r \in Trees
  BY DEF StandInv, TInv, TypeOK
<1>2. ASSUME NEW c \in Clients, Mint(c) PROVE FALSE
  BY <1>1, <1>2, MintResolves
<1>3. ASSUME NEW c \in Clients, Mark(c) \/ Save(c)
      PROVE  /\ call[c].op = "repoint"
             /\ call[c].pc \in {"save", "mark"}
             /\ call[c].tree \in {r, IdentityRoot(r)}
  BY <1>1, <1>3, MarkResolves, SaveResolves DEF Mark, Save
<1>4. ASSUME NEW c \in Clients PROVE ~Adopt(c)
  BY DEF StandInv, Stands, InKind, Adopt
<1>5. ASSUME NEW q \in Trees, Vanish(q) PROVE FALSE
  BY <1>5 DEF Vanish
<1>6. ~UNCHANGED <<live, marker, legacy, index>>
  BY <1>1, FilesResolve
<1>7. \E c \in Clients : Mint(c) \/ Mark(c) \/ Save(c)
  BY <1>4, <1>5, <1>6
     DEF Next, vars, files, Begin, FindRoot, ReadMarkers, ReadEntry, TakeLock, LockTimeout,
         OpenStore, Survey, Recheck, RemoveDatabase, Fail
<1> QED BY <1>2, <1>3, <1>7

\* Where no older marker names a project, a tree's project, once it has one,
\* changes only by a repoint of the tree or of the primary checkout it is the
\* project of: whatever binds race, heals are made, or changes die half made
\* (Binding::bound, and apply_changes).
THEOREM ProjectStands == ASSUME NoOlderMarkers PROVE Spec => ResolutionStands
<1>1. StandInv /\ [Next]_vars =>
        [\A r \in live :
           live' = live /\ Resolved(r) # NoId /\ Resolved(r)' # Resolved(r)
             => \E c \in Clients : /\ call[c].op = "repoint"
                                   /\ call[c].pc \in {"save", "mark"}
                                   /\ call[c].tree \in {r, IdentityRoot(r)}]_vars
  BY StepResolutionStands
<1> QED BY <1>1, SpecStandInv, PTL DEF Spec, ResolutionStands
------------------------------------------------------------------------------
(* What a heal leaves.                                                      *)

\* Only the dropped are left out.
LEMMA WithoutDrops ==
  ASSUME NEW entries \in Seq(Entries), NEW dropped
  PROVE  Range(Without(entries, dropped)) = Range(entries) \ dropped
<1> DEFINE L == Len(entries)
<1>1. L \in Nat /\ DOMAIN entries = 1..L
  OBVIOUS
<1>2. PICK f : Keeps(f, entries, dropped, L) /\ Without(entries, dropped) = f[L]
  BY <1>1, WithoutKeeps
<1>3. \A n \in 0..L : f[n] = IF n = 0 THEN <<>>
                             ELSE IF entries[n] \in dropped THEN f[n - 1]
                             ELSE Append(f[n - 1], entries[n])
  BY <1>2 DEF Keeps
<1> DEFINE Upto(n) == {entries[i] : i \in 1..n}
           Left(n) == f[n] \in Seq(Entries) /\ Range(f[n]) = Upto(n) \ dropped
           T == {n \in Nat : n <= L => Left(n)}
<1>4. 0 \in T
  <2>1. f[0] = <<>>
    BY <1>1, <1>3
  <2>2. <<>> \in Seq(Entries) /\ Range(<<>>) = {} /\ Upto(0) = {}
    BY DEF Range
  <2> QED BY <2>1, <2>2
<1>5. ASSUME NEW n \in Nat, n \in T, n + 1 <= L
      PROVE  Left(n + 1)
  <2>1. /\ n + 1 \in 0..L /\ n + 1 # 0 /\ (n + 1) - 1 = n /\ n <= L /\ n + 1 \in 1..L
    BY <1>1, <1>5
  <2>2. f[n] \in Seq(Entries) /\ Range(f[n]) = Upto(n) \ dropped
    BY <1>5, <2>1
  <2>3. PICK e \in Entries : e = entries[n + 1]
    BY <1>1, <2>1
  <2>4. f[n + 1] = IF e \in dropped THEN f[n] ELSE Append(f[n], e)
    BY <1>3, <2>1, <2>3
  <2>5. Upto(n + 1) = Upto(n) \cup {e}
    <3>1. 1..(n + 1) = (1..n) \cup {n + 1}
      OBVIOUS
    <3> QED BY <2>3, <3>1
  <2> HIDE DEF Upto, L
  <2>6. Append(f[n], e) \in Seq(Entries) /\ Range(Append(f[n], e)) = Range(f[n]) \cup {e}
    <3>1. PICK s \in Seq(Entries) : s = f[n]
      BY <2>2
    <3>2. /\ Append(s, e) \in Seq(Entries) /\ Len(Append(s, e)) = Len(s) + 1
          /\ \A i \in 1..Len(s) : Append(s, e)[i] = s[i]
          /\ Append(s, e)[Len(s) + 1] = e
      BY AppendProperties
    <3>3. DOMAIN Append(s, e) = 1..(Len(s) + 1) /\ DOMAIN s = 1..Len(s) /\ Len(s) \in Nat
      BY <3>2
    <3>4. 1..(Len(s) + 1) = (1..Len(s)) \cup {Len(s) + 1}
      BY <3>3
    <3>5. Range(Append(s, e)) = Range(s) \cup {e}
      BY <3>2, <3>3, <3>4 DEF Range
    <3> QED BY <3>1, <3>2, <3>5
  <2> QED BY <2>2, <2>4, <2>5, <2>6
<1>6. Nat \subseteq T
  <2>1. \A n \in Nat : n \in T => n + 1 \in T
    <3> HIDE DEF Left
    <3> QED BY <1>1, <1>5
  <2> HIDE DEF T
  <2> QED BY <1>4, <2>1, Induction
<1>7. Range(f[L]) = Upto(L) \ dropped
  <2>1. Left(L)
    <3> HIDE DEF Left
    <3> QED BY <1>1, <1>6
  <2> QED BY <2>1
<1>8. Upto(L) = Range(entries)
  BY <1>1 DEF Range
<1> QED BY <1>2, <1>7, <1>8

\* The entries a change leaves, where it registers one at most.
LEMMA SavedEntries ==
  ASSUME TInv, NEW c \in Clients, Save(c), NEW e, call[c].plan.register \subseteq {e}
  PROVE  Range(index') = (Range(index) \cup call[c].plan.register) \ call[c].plan.unregister
<1> DEFINE plan == call[c].plan
           added == IF plan.register = {} THEN <<>> ELSE <<CHOOSE x \in plan.register : TRUE>>
<1>1. index \in Seq(Entries) /\ plan \in AnyPlan
  BY TInvIs DEF FilesTyped, Calling, InCall
<1>2. plan.register \subseteq Entries
  BY <1>1 DEF AnyPlan
<1>3. index' = IF plan.register \cup plan.unregister = {} THEN index
               ELSE Without(index \o added, plan.unregister)
  BY DEF Save
<1>4. index \o added \in Seq(Entries) /\ Range(index \o added) = Range(index) \cup plan.register
  <2>1. CASE plan.register = {}
    <3>1. index \o added = index
      BY <1>1, <2>1, ConcatEmptySeq
    <3> QED BY <1>1, <2>1, <3>1
  <2>2. CASE plan.register # {}
    <3>1. plan.register = {e} /\ e \in Entries /\ added = <<e>>
      BY <1>2, <2>2
    <3>2. index \o <<e>> = Append(index, e)
      BY <1>1, <3>1, AppendIsConcat
    <3>3. /\ Append(index, e) \in Seq(Entries) /\ Len(Append(index, e)) = Len(index) + 1
          /\ \A i \in 1..Len(index) : Append(index, e)[i] = index[i]
          /\ Append(index, e)[Len(index) + 1] = e
      BY <1>1, <3>1, AppendProperties
    <3>4. /\ DOMAIN Append(index, e) = 1..(Len(index) + 1) /\ DOMAIN index = 1..Len(index)
          /\ Len(index) \in Nat
      BY <1>1, <3>3
    <3>5. 1..(Len(index) + 1) = (1..Len(index)) \cup {Len(index) + 1}
      BY <3>4
    <3>6. Range(Append(index, e)) = Range(index) \cup {e}
      BY <3>3, <3>4, <3>5 DEF Range
    <3> HIDE DEF plan, added
    <3> QED BY <3>1, <3>2, <3>3, <3>6
  <2> QED BY <2>1, <2>2
<1>5. CASE plan.register \cup plan.unregister = {}
  BY <1>3, <1>5
<1>6. CASE plan.register \cup plan.unregister # {}
  <2> HIDE DEF plan, added
  <2> QED BY <1>3, <1>4, <1>6, WithoutDrops DEF plan
<1> QED BY <1>5, <1>6
\* What a survey of a registry sees registered.
Sees(seen, entries, trees) ==
  seen.registry = [i \in DOMAIN entries |-> [id |-> entries[i].id, path |-> entries[i].path,
                                             exists |-> entries[i].path \in trees]]

LEMMA SeesEntries ==
  ASSUME NEW entries \in Seq(Entries), NEW trees, NEW seen, Sees(seen, entries, trees)
  PROVE  /\ {[id |-> e.id, path |-> e.path] : e \in Registered(seen)} = Range(entries)
         /\ \A e \in Registered(seen) : e.exists <=> e.path \in trees
<1>1. ASSUME NEW i \in DOMAIN entries
      PROVE  /\ entries[i] = [id |-> entries[i].id, path |-> entries[i].path]
             /\ seen.registry[i].id = entries[i].id /\ seen.registry[i].path = entries[i].path
             /\ (seen.registry[i].exists <=> entries[i].path \in trees)
  <2>1. entries[i] \in Entries
    BY <1>1
  <2>2. PICK b : b = (entries[i].path \in trees)
    OBVIOUS
  <2>3. seen.registry[i] = [id |-> entries[i].id, path |-> entries[i].path, exists |-> b]
    BY <2>2 DEF Sees
  <2>4. /\ seen.registry[i].id = entries[i].id /\ seen.registry[i].path = entries[i].path
        /\ seen.registry[i].exists = b
    BY <2>3
  <2>5. entries[i] = [id |-> entries[i].id, path |-> entries[i].path]
    BY <2>1 DEF Entries
  <2>6. seen.registry[i].exists <=> entries[i].path \in trees
    BY <2>2, <2>4, Zenon
  <2> QED BY <2>4, <2>5, <2>6
<1>2. DOMAIN seen.registry = DOMAIN entries
  BY DEF Sees
<1>3. Registered(seen) = {seen.registry[i] : i \in DOMAIN entries}
  BY <1>2 DEF Registered
<1>4. {[id |-> e.id, path |-> e.path] : e \in Registered(seen)} \subseteq Range(entries)
  <2> SUFFICES ASSUME NEW e \in Registered(seen)
               PROVE  [id |-> e.id, path |-> e.path] \in Range(entries)
    OBVIOUS
  <2>1. PICK i \in DOMAIN entries : e = seen.registry[i]
    BY <1>3
  <2>2. [id |-> e.id, path |-> e.path] = entries[i]
    BY <1>1, <2>1
  <2> QED BY <2>2 DEF Range
<1>5. Range(entries) \subseteq {[id |-> e.id, path |-> e.path] : e \in Registered(seen)}
  <2> SUFFICES ASSUME NEW i \in DOMAIN entries
               PROVE  \E e \in Registered(seen) : entries[i] = [id |-> e.id, path |-> e.path]
    BY DEF Range
  <2>1. PICK e : e = seen.registry[i]
    OBVIOUS
  <2>2. entries[i] = [id |-> e.id, path |-> e.path]
    BY <1>1, <2>1
  <2> QED BY <1>3, <2>1, <2>2
<1>6. \A e \in Registered(seen) : e.exists <=> e.path \in trees
  BY <1>1, <1>3
<1> QED BY <1>4, <1>5, <1>6

\* The ids a root is registered as.
LEMMA IdsRegistered ==
  ASSUME NEW seen, NEW entries,
         {[id |-> e.id, path |-> e.path] : e \in Registered(seen)} = entries, NEW root
  PROVE  IdsAt(seen, root) = {f.id : f \in {f \in entries : f.path = root}}
<1>1. ASSUME NEW id \in IdsAt(seen, root)
      PROVE  \E f \in entries : f.path = root /\ f.id = id
  <2>1. PICK e \in Registered(seen) : e.path = root /\ e.id = id
    BY DEF IdsAt
  <2>2. PICK f \in entries : f = [id |-> e.id, path |-> e.path]
    OBVIOUS
  <2> QED BY <2>1, <2>2
<1>2. ASSUME NEW f \in entries, f.path = root PROVE f.id \in IdsAt(seen, root)
  <2>1. PICK e \in Registered(seen) : f = [id |-> e.id, path |-> e.path]
    OBVIOUS
  <2>2. e.path = root /\ e.id = f.id
    BY <1>2, <2>1
  <2> QED BY <2>2 DEF IdsAt
<1> QED BY <1>1, <1>2

LEMMA IdsFinite ==
  ASSUME NEW seen \in Surveys, NEW root PROVE IsFiniteSet(IdsAt(seen, root))
<1> DEFINE S == [id: Ids, path: Trees, exists: BOOLEAN]
<1>1. PICK s \in Seq(S) : s = seen.registry
  BY DEF Surveys
<1> DEFINE f == [i \in 1..Len(s) |-> s[i].id]
           T == {f[i] : i \in 1..Len(s)}
<1>2. DOMAIN s = 1..Len(s) /\ Len(s) \in Nat
  <2> HIDE DEF S
  <2> QED OBVIOUS
<1>3. f \in Surjection(1..Len(s), T)
  BY DEF Surjection
<1>4. IsFiniteSet(1..Len(s))
  BY <1>2, FS_Interval
<1>5. IdsAt(seen, root) \subseteq T
  BY <1>1, <1>2 DEF IdsAt, Registered
<1> HIDE DEF T, f
<1>6. IsFiniteSet(T)
  BY <1>3, <1>4, FS_Surjection
<1> QED BY <1>5, <1>6, FS_Subset
------------------------------------------------------------------------------
(* What a survey finds wrong.                                               *)

LEMMA SameProblems ==
  ASSUME NEW s, NEW t, s.root = t.root, s.marker = t.marker, s.legacy = t.legacy,
         IdsAt(s, s.root) = IdsAt(t, t.root)
  PROVE  RootProblems(s) = RootProblems(t)
BY DEF RootProblems, MarkedAs

\* A root with no marker, registered as none or as two.
LEMMA UnmarkedProblems ==
  ASSUME NEW seen \in Surveys, seen.legacy = NoId, seen.marker = NoId, HealId(seen) = NoId
  PROVE  RootProblems(seen) = Unresolved(seen)
<1> DEFINE at == IdsAt(seen, seen.root)
<1>1. MarkedAs(seen) = NoId
  BY DEF MarkedAs
<1>2. at \subseteq Ids /\ IsFiniteSet(at)
  BY RegisteredTyped, IdsFinite
<1>3. Cardinality(at) # 1
  <2> SUFFICES ASSUME Cardinality(at) = 1 PROVE FALSE
    OBVIOUS
  <2>1. at # {}
    BY FS_EmptySet
  <2>2. HealId(seen) = CHOOSE id \in at : TRUE
    BY <1>1 DEF HealId
  <2> QED BY <1>2, <2>1, <2>2, NamesAssumption
<1>4. PICK a, n : a = at /\ n = Cardinality(a)
  OBVIOUS
<1>5. n \in Nat /\ n # 1 /\ (a = {} <=> n = 0)
  BY <1>2, <1>3, <1>4, FS_CardinalityType, FS_EmptySet
<1>6. RootProblems(seen) = IF n > 1 THEN {Problem("TwoIds", a, seen.root)} ELSE {}
  <2>1. (IF a = {} THEN {} ELSE a \cup ({NoId} \ {NoId})) = a
    OBVIOUS
  <2> QED BY <1>1, <1>4, <1>5, <2>1 DEF RootProblems
<1>7. Unresolved(seen) = IF n > 1 THEN {Problem("TwoIds", a, seen.root)} ELSE {}
  <2>1. {ids \in {a} : Cardinality(ids) > 1} = IF n > 1 THEN {a} ELSE {}
    BY <1>4
  <2> QED BY <1>1, <1>4, <2>1 DEF Unresolved
<1> QED BY <1>6, <1>7

\* A root registered as its marker's alone.
LEMMA MarkedProblems ==
  ASSUME NEW seen, seen.legacy = NoId, NEW id \in Ids, seen.marker = id,
         IdsAt(seen, seen.root) = {id}
  PROVE  RootProblems(seen) = {}
<1>1. id # NoId
  BY NamesAssumption
<1>2. MarkedAs(seen) = id
  BY <1>1 DEF MarkedAs
<1>3. PICK at, marked, ids :
        /\ at = IdsAt(seen, seen.root) /\ marked = {MarkedAs(seen)} \ {NoId}
        /\ ids = IF at = {} THEN {} ELSE at \cup marked
  OBVIOUS
<1>4. marked # {} /\ ids = {id} /\ ids # {}
  BY <1>1, <1>2, <1>3
<1>5. Cardinality(ids) = 1 /\ ~(1 > 1)
  BY <1>4, FS_Singleton
<1>6. RootProblems(seen) =
        (IF Cardinality(ids) > 1 THEN {Problem("TwoIds", ids, seen.root)}
         ELSE IF ids = {} /\ marked # {} THEN {Problem("Unregistered", marked, seen.root)}
         ELSE {})
        \cup (IF marked = {} /\ Cardinality(ids) = 1
                THEN {Problem("MissingMarker", ids, seen.root)}
              ELSE IF seen.marker = NoId /\ seen.legacy # NoId
                THEN {Problem("LegacyMarkerOnly", marked, seen.root)}
              ELSE {})
  BY <1>3 DEF RootProblems
<1> QED BY <1>1, <1>4, <1>5, <1>6

\* What is gone of the marked project, and registered no more.
LEMMA GoneNoMore ==
  ASSUME NEW seen, NEW now,
         \A e \in Registered(seen) : \A f \in Registered(now) :
           e.id = MarkedAs(seen) /\ ~e.exists => f.id # e.id \/ f.path # e.path,
         NEW p \in Problems(seen) \cap Problems(now), p.what = "Gone"
  PROVE  p.ids # {MarkedAs(seen)}
<1>1. \A s : \A q \in RootProblems(s) : q.what # "Gone"
  <2> SUFFICES ASSUME NEW s, NEW q \in RootProblems(s) PROVE q.what # "Gone"
    OBVIOUS
  <2>1. PICK what, ids, r : /\ what \in {"TwoIds", "Unregistered", "MissingMarker", "LegacyMarkerOnly"}
                            /\ q = Problem(what, ids, r)
    BY DEF RootProblems
  <2> QED BY <2>1 DEF Problem
<1>2. ASSUME NEW s, p \in Problems(s)
      PROVE  \E e \in Registered(s) : ~e.exists /\ p.ids = {e.id} /\ p.at = e.path
  <2>1. CASE p \in {Problem("Orphan", {id}, Nobody) : id \in Orphans(s)}
    <3>1. p.what = "Orphan"
      BY <2>1 DEF Problem
    <3> QED BY <3>1
  <2>2. CASE p \in {Problem("Gone", {e.id}, e.path) : e \in {e \in Registered(s) : ~e.exists}}
    <3>1. PICK e \in Registered(s) : ~e.exists /\ p = Problem("Gone", {e.id}, e.path)
      BY <2>2
    <3> QED BY <3>1 DEF Problem
  <2> QED BY <1>1, <1>2, <2>1, <2>2 DEF Problems
<1>3. PICK e \in Registered(seen) : ~e.exists /\ p.ids = {e.id} /\ p.at = e.path
  BY <1>2
<1>4. PICK f \in Registered(now) : p.ids = {f.id} /\ p.at = f.path
  BY <1>2
<1>5. f.id = e.id /\ f.path = e.path
  BY <1>3, <1>4
<1> QED BY <1>3, <1>5
------------------------------------------------------------------------------
(* What a heal that holds the lock rests on: what it saw is still so.       *)

SeenStill(k) ==
  /\ k.root = k.seen.root
  /\ k.seen.legacy = NoId /\ k.seen.marker = Named(marker[k.root])
  /\ {[id |-> e.id, path |-> e.path] : e \in Registered(k.seen)} = Range(index)
  /\ \A e \in Registered(k.seen) : e.path = k.root => e.exists

HealRests(k) ==
  k.op = "heal" /\ k.pc \in {"save", "mark", "remove"} =>
    /\ k.pc # "remove"
    /\ SeenStill(k)
    /\ k.id = HealId(k.seen)
    /\ k.pc = "mark" => k.seen.marker = NoId /\ k.id # NoId

HealInv == StandInv /\ \A c \in Clients : HealRests(call[c])

Off(k) == k.op # "heal" \/ k.pc \notin {"save", "mark", "remove"}
GoesOff(c) == \E next : Off(next) /\ call' = [call EXCEPT ![c] = next]

LEMMA EndsOff == ASSUME NEW c, NEW said, Ends(c, said) PROVE GoesOff(c)
<1>1. Off(Idle)
  BY DEF Off, Idle
<1> QED BY <1>1 DEF Ends, GoesOff

LEMMA ToOff ==
  ASSUME NEW c, call[c] \in InCall, NEW pc, call[c].op # "heal" \/ pc \notin {"save", "mark", "remove"},
         To(c, pc)
  PROVE  GoesOff(c)
<1>1. PICK next : next = [call[c] EXCEPT !.pc = pc]
  OBVIOUS
<1>2. next.pc = pc /\ next.op = call[c].op
  BY <1>1 DEF InCall
<1>3. Off(next)
  BY <1>2 DEF Off
<1> QED BY <1>1, <1>3 DEF To, Goes, GoesOff

LEMMA ResolvesOff == ASSUME NEW c, call[c] \in InCall, NEW id, Resolves(c, id) PROVE GoesOff(c)
<1>1. PICK next : next = [call[c] EXCEPT !.pc = "open", !.id = id]
  OBVIOUS
<1>2. next.pc = "open"
  BY <1>1 DEF InCall
<1> QED BY <1>1, <1>2 DEF Resolves, Goes, GoesOff, Off

OffSteps(c) ==
  \/ \E k \in Calls[c] : Begin(c, k)
  \/ FindRoot(c) \/ ReadMarkers(c) \/ ReadEntry(c) \/ Mint(c) \/ TakeLock(c) \/ LockTimeout(c)
  \/ Mark(c) \/ OpenStore(c) \/ Survey(c) \/ RemoveDatabase(c) \/ Fail(c)

\* Only a heal rechecked, and one saved, goes on with the lock held.
LEMMA StepsOff ==
  ASSUME HealInv, NEW c \in Clients, OffSteps(c) PROVE GoesOff(c)
<1>1. call[c] \in InCall /\ InKind(call[c])
  BY TInvIs DEF HealInv, StandInv, Calling, Stands
<1>2. ASSUME NEW k \in Calls[c], Begin(c, k) PROVE GoesOff(c)
  <2>1. PICK pc, next :
          /\ pc = IF k.op = "write" THEN "root" ELSE "survey"
          /\ next = [Idle EXCEPT !.pc = pc, !.op = k.op, !.tree = k.tree, !.root = k.tree,
                                 !.ids = k.ids, !.share = k.share]
    OBVIOUS
  <2>2. call' = [call EXCEPT ![c] = next]
    BY <1>2, <2>1 DEF Begin, Goes
  <2>3. next.pc = pc /\ pc \notin {"save", "mark", "remove"}
    BY <2>1 DEF Idle
  <2>4. Off(next)
    BY <2>3 DEF Off
  <2> QED BY <2>2, <2>4 DEF GoesOff
<1>3. CASE FindRoot(c)
  <2>1. CASE Ends(c, "refused")
    BY <2>1, EndsOff
  <2>2. CASE ~StaleWorktree(call[c].tree)
    <3>1. PICK next : next = [call[c] EXCEPT !.pc = "markers", !.root = IdentityRoot(call[c].tree)]
      OBVIOUS
    <3>2. call' = [call EXCEPT ![c] = next]
      BY <1>3, <2>2, <3>1 DEF FindRoot, Goes
    <3>3. next.pc = "markers"
      BY <1>1, <3>1 DEF InCall
    <3> QED BY <3>2, <3>3 DEF GoesOff, Off
  <2> QED BY <1>3, <2>1, <2>2 DEF FindRoot
<1>4. CASE ReadMarkers(c)
  <2>1. CASE \E id : Resolves(c, id)
    BY <1>1, <2>1, ResolvesOff
  <2>2. CASE To(c, "entry")
    BY <1>1, <2>2, ToOff
  <2>3. ASSUME NEW id, Goes(c, [call[c] EXCEPT !.pc = "adopt", !.id = id]) PROVE GoesOff(c)
    <3>1. PICK next : next = [call[c] EXCEPT !.pc = "adopt", !.id = id]
      OBVIOUS
    <3>2. next.pc = "adopt"
      BY <1>1, <3>1 DEF InCall
    <3> QED BY <2>3, <3>1, <3>2 DEF Goes, GoesOff, Off
  <2> QED BY <1>4, <2>1, <2>2, <2>3 DEF ReadMarkers
<1>5. CASE ReadEntry(c)
  BY <1>1, <1>5, ResolvesOff, ToOff DEF ReadEntry
<1>6. CASE Mint(c)
  <2>1. CASE Ends(c, "refused")
    BY <2>1, EndsOff
  <2>2. ASSUME NEW id, Goes(c, [call[c] EXCEPT !.pc = "mark", !.id = id]) PROVE GoesOff(c)
    <3>1. PICK next : next = [call[c] EXCEPT !.pc = "mark", !.id = id]
      OBVIOUS
    <3>2. next.op = "write"
      BY <1>1, <1>6, <3>1 DEF InCall, InKind, Mint
    <3> QED BY <2>2, <3>1, <3>2 DEF Goes, GoesOff, Off
  <2> QED BY <1>6, <2>1, <2>2 DEF Mint
<1>7. CASE TakeLock(c)
  <2>1. PICK pc \in {"markers", "recheck"} : To(c, pc)
    BY <1>7 DEF TakeLock
  <2> QED BY <1>1, <2>1, ToOff
<1>8. CASE LockTimeout(c) \/ OpenStore(c) \/ Fail(c)
  BY <1>8, EndsOff DEF LockTimeout, OpenStore, Fail
<1>9. CASE Mark(c)
  BY <1>1, <1>9, EndsOff, ResolvesOff DEF Mark
<1>10. CASE Survey(c)
  <2>1. CASE \E said : Ends(c, said)
    BY <2>1, EndsOff
  <2>2. ASSUME NEW seen, NEW plan, NEW root, NEW id, Plans(c, seen, plan, root, id)
        PROVE  GoesOff(c)
    <3>1. PICK next : next = [call[c] EXCEPT !.pc = "apply", !.seen = seen, !.plan = plan,
                                !.root = root, !.id = id]
      OBVIOUS
    <3>2. next.pc = "apply"
      BY <1>1, <3>1 DEF InCall
    <3>3. CASE Ends(c, "done")
      BY <3>3, EndsOff
    <3> QED BY <2>2, <3>1, <3>2, <3>3 DEF Plans, Goes, GoesOff, Off
  <2>3. (\E said : Ends(c, said)) \/ \E seen, plan, root, id : Plans(c, seen, plan, root, id)
    <3>1. PICK seen : seen = SurveyAt(call[c].tree)
      OBVIOUS
    <3> QED BY <1>10, <3>1 DEF Survey
  <2> QED BY <2>1, <2>2, <2>3
<1>11. CASE RemoveDatabase(c)
  <2>1. CASE Ends(c, "done")
    BY <2>1, EndsOff
  <2>2. ASSUME NEW id, Goes(c, [call[c] EXCEPT !.plan.removes = @ \ {id}]) PROVE GoesOff(c)
    <3>1. PICK next : next = [call[c] EXCEPT !.plan.removes = @ \ {id}]
      OBVIOUS
    <3>2. next.op = call[c].op /\ call[c].op # "heal"
      BY <1>1, <1>11, <3>1 DEF InCall, RemoveDatabase, HealInv, HealRests
    <3> QED BY <2>2, <3>1, <3>2 DEF Goes, GoesOff, Off
  <2> QED BY <1>11, <2>1, <2>2 DEF RemoveDatabase
<1> QED BY <1>2, <1>3, <1>4, <1>5, <1>6, <1>7, <1>8, <1>9, <1>10, <1>11 DEF OffSteps
\* The registry and the markers are written under the lock alone.
LEMMA WritesLocked ==
  ASSUME StandInv, NEW c \in Clients, OffSteps(c) \/ Recheck(c) \/ Save(c)
  PROVE  (index' = index \/ lock = c) /\ (marker' = marker \/ lock = c)
<1>1. call[c].pc \in {"mark", "save"} => lock = c
  BY DEF StandInv, IInv, LockHeld, Locking
<1> QED BY <1>1 DEF OffSteps, Begin, FindRoot, ReadMarkers, ReadEntry, Mint, TakeLock, LockTimeout,
      Mark, OpenStore, Survey, RemoveDatabase, Fail, Recheck, Save, files

LEMMA RestsStill ==
  ASSUME NEW k, HealRests(k), index' = index, k.pc # "idle" => marker'[k.root] = marker[k.root]
  PROVE  HealRests(k)'
BY DEF HealRests, SeenStill, HealId, Named

LEMMA HealMoves ==
  ASSUME HealInv, NEW c \in Clients, NEW next, call' = [call EXCEPT ![c] = next],
         HealRests(next)', index' = index \/ lock = c, marker' = marker \/ lock = c
  PROVE  \A d \in Clients : HealRests(call[d])'
<1> SUFFICES ASSUME NEW d \in Clients PROVE HealRests(call[d])'
  OBVIOUS
<1>1. d = c => call'[d] = next
  BY DEF HealInv, StandInv, IInv, CallsShaped
<1>2. ASSUME d # c PROVE HealRests(call[d])'
  <2>1. PICK k : k = call[d]
    OBVIOUS
  <2>2. call'[d] = k /\ HealRests(k)
    BY <1>2, <2>1 DEF HealInv, StandInv, IInv, CallsShaped
  <2>3. CASE lock = d
    <3>1. index' = index /\ marker' = marker
      BY <1>2, <2>3
    <3> QED BY <2>2, <3>1, RestsStill
  <2>4. CASE lock # d
    <3>1. k.pc \notin {"save", "mark", "remove"}
      BY <2>1, <2>4 DEF HealInv, StandInv, IInv, LockHeld, Locking
    <3> QED BY <2>2, <3>1 DEF HealRests
  <2> QED BY <2>3, <2>4
<1> QED BY <1>1, <1>2

LEMMA HealOff ==
  ASSUME HealInv, NEW c \in Clients, OffSteps(c) PROVE \A d \in Clients : HealRests(call[d])'
<1>1. PICK next : Off(next) /\ call' = [call EXCEPT ![c] = next]
  BY StepsOff DEF HealInv, GoesOff
<1>2. HealRests(next)'
  BY <1>1 DEF HealRests, Off
<1> QED BY <1>1, <1>2, HealMoves, WritesLocked DEF HealInv

\* A heal found undisturbed under the lock saw what is there.
LEMMA HealRechecked ==
  ASSUME HealInv, NEW c \in Clients, Recheck(c) PROVE \A d \in Clients : HealRests(call[d])'
<1>1. PICK k : k = call[c]
  OBVIOUS
<1>2. /\ k \in InCall /\ AsPlanned(k) /\ k.pc = "recheck" /\ k.tree \in Trees
      /\ index' = index /\ marker' = marker /\ live' = live
  BY <1>1, TInvIs DEF HealInv, StandInv, Calling, Stands, Recheck, InCall, files
<1>3. CASE Ends(c, "refused")
  <2>1. PICK next : Off(next) /\ call' = [call EXCEPT ![c] = next]
    BY <1>3, EndsOff DEF GoesOff
  <2>2. HealRests(next)'
    BY <2>1 DEF HealRests, Off
  <2> QED BY <1>2, <2>1, <2>2, HealMoves
<1>4. CASE Unmoved(c) /\ To(c, "save")
  <2>1. PICK next : next = [k EXCEPT !.pc = "save"]
    OBVIOUS
  <2>2. /\ next.pc = "save" /\ next.op = k.op /\ next.seen = k.seen /\ next.root = k.root
        /\ next.id = k.id
    BY <1>2, <2>1 DEF InCall
  <2>3. ASSUME k.op = "heal" PROVE SeenStill(next) /\ next.id = HealId(next.seen)
    <3>1. PICK seen, tree : seen = k.seen /\ tree = k.tree
      OBVIOUS
    <3>2. /\ seen = SurveyAt(tree) /\ ~StaleWorktree(tree) /\ tree \in Trees
          /\ k.root = seen.root /\ k.id = HealId(seen)
      BY <1>1, <1>2, <1>4, <2>3, <3>1 DEF Unmoved, AsPlanned
    <3>3. PICK root \in Trees : root = IdentityRoot(tree)
      BY <3>2, RootTyped
    <3>4. /\ seen.root = root /\ seen.marker = Named(marker[root])
          /\ seen.legacy = Named(legacy[root])
          /\ Sees(seen, index, live)
      BY <3>2, <3>3 DEF SurveyAt, Sees
    <3>5. seen.legacy = NoId
      BY <3>4 DEF HealInv, StandInv, LegacyNameless, Named
    <3>6. index \in Seq(Entries)
      BY DEF HealInv, StandInv, TInv, TypeOK
    <3>7. /\ {[id |-> e.id, path |-> e.path] : e \in Registered(seen)} = Range(index)
          /\ \A e \in Registered(seen) : e.exists <=> e.path \in live
      BY <3>4, <3>6, SeesEntries
    <3>8. root \in live
      BY <3>2, <3>3 DEF StaleWorktree
    <3> QED BY <2>2, <3>1, <3>2, <3>4, <3>5, <3>7, <3>8 DEF SeenStill
  <2>4. HealRests(next)
    BY <2>2, <2>3 DEF HealRests
  <2>5. HealRests(next)'
    BY <1>2, <2>4, RestsStill
  <2> QED BY <1>1, <1>2, <1>4, <2>1, <2>5, HealMoves DEF To, Goes
<1> QED BY <1>3, <1>4 DEF Recheck

\* One with a marker to write changed no entry.
LEMMA HealSaved ==
  ASSUME HealInv, NEW c \in Clients, Save(c) PROVE \A d \in Clients : HealRests(call[d])'
<1>1. PICK k : k = call[c]
  OBVIOUS
<1>2. /\ k \in InCall /\ AsPlanned(k) /\ Saving(k) /\ HealRests(k) /\ k.pc = "save" /\ lock = c
      /\ marker' = marker
  BY <1>1, TInvIs
  DEF HealInv, StandInv, Calling, Stands, Save, IInv, LockHeld, Locking
<1>3. CASE Ends(c, "done")
  <2>1. PICK next : Off(next) /\ call' = [call EXCEPT ![c] = next]
    BY <1>3, EndsOff DEF GoesOff
  <2>2. HealRests(next)'
    BY <2>1 DEF HealRests, Off
  <2> QED BY <1>2, <2>1, <2>2, HealMoves
<1>4. CASE k.plan.mark /\ To(c, "mark")
  <2>1. PICK next : next = [k EXCEPT !.pc = "mark"]
    OBVIOUS
  <2>2. /\ next.pc = "mark" /\ next.op = k.op /\ next.seen = k.seen /\ next.root = k.root
        /\ next.id = k.id
    BY <1>2, <2>1 DEF InCall
  <2>3. ASSUME k.op = "heal" PROVE HealRests(next)'
    <3>1. k.plan.register \cup k.plan.unregister = {} /\ k.plan = HealPlan(k.seen)
      BY <1>2, <1>4, <2>3 DEF Saving, AsPlanned
    <3>2. index' = index
      BY <1>1, <3>1, SaveIndexIs DEF HealInv, StandInv
    <3>3. SeenStill(k) /\ k.id = HealId(k.seen)
      BY <1>2, <2>3 DEF HealRests
    <3>4. MarkedAs(k.seen) = k.seen.marker
      BY <3>3 DEF SeenStill, MarkedAs
    <3>5. k.seen.marker = NoId /\ k.id # NoId
      <4>1. PICK mark : mark = (k.id # NoId)
        OBVIOUS
      <4>2. CASE k.seen.marker = NoId
        <5>1. k.plan = Planned({}, {}, mark, {})
          BY <3>1, <3>3, <3>4, <4>1, <4>2 DEF HealPlan
        <5>2. k.plan.mark = mark
          BY <5>1 DEF Planned
        <5> QED BY <1>4, <4>1, <4>2, <5>2
      <4>3. CASE k.seen.marker # NoId
        <5>1. PICK no : no = (k.seen.marker = NoId)
          OBVIOUS
        <5>2. k.plan = BindPlan(k.seen, k.seen.root, k.seen.marker, no)
          BY <3>1, <3>4, <4>3, <5>1 DEF HealPlan
        <5>3. k.plan.mark = no
          BY <5>2 DEF BindPlan, Planned
        <5> QED BY <1>4, <4>3, <5>1, <5>3
      <4> QED BY <4>2, <4>3
    <3>6. HealRests(next)
      BY <2>2, <3>3, <3>5 DEF HealRests, SeenStill
    <3> QED BY <1>2, <3>2, <3>6, RestsStill
  <2>4. HealRests(next)'
    BY <2>2, <2>3 DEF HealRests
  <2> QED BY <1>1, <1>2, <1>4, <2>1, <2>4, HealMoves DEF To, Goes
<1>5. CASE k.plan.removes # {} /\ To(c, "remove")
  <2>1. k.op # "heal"
    BY <1>2, <1>5 DEF AsPlanned, HealPlan, BindPlan, Planned
  <2>2. PICK next : Off(next) /\ call' = [call EXCEPT ![c] = next]
    BY <1>1, <1>2, <1>5, <2>1, ToOff DEF GoesOff
  <2>3. HealRests(next)'
    BY <2>2 DEF HealRests, Off
  <2> QED BY <1>2, <2>2, <2>3, HealMoves
<1> QED BY <1>1, <1>3, <1>4, <1>5 DEF Save, AfterSave

LEMMA InitHeals == ASSUME NoOlderMarkers PROVE Init => HealInv
<1> SUFFICES ASSUME Init, NEW c \in Clients PROVE HealRests(call[c])
  BY InitStands DEF HealInv
<1>1. call[c] = Idle
  BY DEF Init
<1> QED BY <1>1 DEF Idle, HealRests

LEMMA NextHeals == HealInv /\ [Next]_vars => HealInv'
<1> SUFFICES ASSUME HealInv, [Next]_vars PROVE \A d \in Clients : HealRests(call[d])'
  BY NextStands DEF HealInv
<1>1. ASSUME call' = call, index' = index,
             \A d \in Clients : call[d].pc # "idle" => marker'[call[d].root] = marker[call[d].root]
      PROVE  \A d \in Clients : HealRests(call[d])'
  <2> SUFFICES ASSUME NEW d \in Clients PROVE HealRests(call[d])'
    OBVIOUS
  <2>1. PICK k : k = call[d]
    OBVIOUS
  <2>2. HealRests(k) /\ call'[d] = k
    BY <1>1, <2>1 DEF HealInv
  <2>3. HealRests(k)'
    BY <1>1, <2>1, <2>2, RestsStill
  <2> QED BY <2>2, <2>3
<1>2. CASE UNCHANGED vars
  BY <1>1, <1>2 DEF vars
<1>3. ASSUME NEW r \in Trees, Vanish(r) PROVE \A d \in Clients : HealRests(call[d])'
  <2>1. ASSUME NEW d \in Clients, call[d].pc # "idle"
        PROVE  marker'[call[d].root] = marker[call[d].root]
    <3>1. call[d].root # r
      BY <1>3, <2>1 DEF Vanish
    <3>2. marker' = [marker EXCEPT ![r] = Absent] /\ marker \in Markers /\ call[d].root \in Trees
      BY <1>3, TInvIs DEF Vanish, HealInv, StandInv, FilesTyped, Calling, InCall
    <3> QED BY <3>1, <3>2 DEF Markers
  <2> QED BY <1>1, <1>3, <2>1 DEF Vanish
<1>4. ASSUME NEW c \in Clients PROVE ~Adopt(c)
  BY DEF HealInv, StandInv, Stands, InKind, Adopt
<1>5. ASSUME NEW c \in Clients, OffSteps(c) \/ Recheck(c) \/ Save(c)
      PROVE  \A d \in Clients : HealRests(call[d])'
  BY <1>5, HealOff, HealRechecked, HealSaved
<1> QED BY <1>2, <1>3, <1>4, <1>5 DEF Next, OffSteps
\* Where no older marker names a project, a heal that holds the lock saw what
\* is still so, and binds its root to the id that told it to.
THEOREM SpecHealInv == ASSUME NoOlderMarkers PROVE Spec => []HealInv
<1>1. Init => HealInv
  BY InitHeals
<1> QED BY <1>1, NextHeals, PTL DEF Spec

\* A heal says it is done on its survey, its save or its mark.
Done(c) == Ends(c, "done") /\ (Survey(c) \/ Save(c) \/ Mark(c))

LEMMA EndsAs ==
  ASSUME HealInv, NEW c \in Clients, NEW said, Ends(c, said), answer'[c] = "done"
  PROVE  Ends(c, "done") /\ said = "done"
<1>1. answer \in [Clients -> {"none", "written", "done", "refused", "failed"}]
  BY DEF HealInv, StandInv, TInv, TypeOK
<1>2. answer'[c] = said
  BY <1>1 DEF Ends
<1> QED BY <1>2

LEMMA HealEnds ==
  ASSUME HealInv, NEW c \in Clients, call[c].op = "heal", call[c].pc # "idle",
         answer'[c] = "done", call'[c].pc = "idle",
         NEW d \in Clients, OffSteps(d) \/ Recheck(d) \/ Save(d)
  PROVE  Done(c)
<1>1. call \in [Clients -> InCall] /\ InKind(call[c]) /\ HealRests(call[c])
  BY TInvIs DEF HealInv, StandInv, Calling, Stands
<1>2. d = c
  <2>1. \E next : call' = [call EXCEPT ![d] = next]
    <3>1. CASE OffSteps(d)
      BY <3>1, StepsOff DEF GoesOff
    <3>2. CASE Recheck(d)
      BY <3>2 DEF Recheck, To, Goes, Ends
    <3>3. CASE Save(d)
      BY <3>3 DEF Save, AfterSave, To, Goes, Ends
    <3> QED BY <3>1, <3>2, <3>3
  <2> QED BY <1>1, <2>1
<1>3. ASSUME NEW next, Goes(c, next) PROVE next.pc = "idle"
  BY <1>1, <1>3 DEF Goes
<1>4. ASSUME NEW pc, To(c, pc) PROVE pc = "idle"
  <2>1. PICK next : next = [call[c] EXCEPT !.pc = pc]
    OBVIOUS
  <2>2. next.pc = pc
    BY <1>1, <2>1 DEF InCall
  <2> QED BY <1>3, <1>4, <2>1, <2>2 DEF To
<1>5. ASSUME NEW said, Ends(c, said) PROVE Ends(c, "done") /\ said = "done"
  BY <1>5, EndsAs
<1>6. ~(\E k \in Calls[c] : Begin(c, k))
  BY DEF Begin
<1>7. ~FindRoot(c) /\ ~ReadMarkers(c) /\ ~ReadEntry(c) /\ ~Mint(c) /\ ~OpenStore(c)
  BY <1>1 DEF InKind, FindRoot, ReadMarkers, ReadEntry, Mint, OpenStore
<1>8. ~TakeLock(c)
  BY <1>4 DEF TakeLock
<1>9. ~LockTimeout(c) /\ ~Fail(c)
  <2>1. ~Ends(c, "refused") /\ ~Ends(c, "failed")
    BY <1>5
  <2> QED BY <2>1 DEF LockTimeout, Fail
<1>10. ~RemoveDatabase(c)
  BY <1>1 DEF HealRests, RemoveDatabase
<1>11. ~Recheck(c)
  BY <1>4, <1>5 DEF Recheck
<1>12. CASE Mark(c)
  BY <1>12 DEF Mark, Done
<1>13. CASE Save(c)
  <2>1. Ends(c, "done")
    BY <1>4, <1>13 DEF Save, AfterSave
  <2> QED BY <1>13, <2>1 DEF Done
<1>14. CASE Survey(c)
  <2>1. ASSUME NEW seen, NEW plan, NEW root, NEW id, Plans(c, seen, plan, root, id)
        PROVE  Ends(c, "done")
    <3>1. PICK next : next = [call[c] EXCEPT !.pc = "apply", !.seen = seen, !.plan = plan,
                                !.root = root, !.id = id]
      OBVIOUS
    <3>2. next.pc = "apply"
      BY <1>1, <3>1 DEF InCall
    <3> QED BY <1>3, <2>1, <3>1, <3>2 DEF Plans
  <2>2. (\E said : Ends(c, said)) \/ \E seen, plan, root, id : Plans(c, seen, plan, root, id)
    <3>1. PICK seen : seen = SurveyAt(call[c].tree)
      OBVIOUS
    <3> QED BY <1>14, <3>1 DEF Survey
  <2>3. Ends(c, "done")
    BY <1>5, <2>1, <2>2
  <2> QED BY <1>14, <2>3 DEF Done
<1> QED BY <1>2, <1>6, <1>7, <1>8, <1>9, <1>10, <1>11, <1>12, <1>13, <1>14 DEF OffSteps

\* A root found as its marker says, or with nothing to choose by.
Whole(seen, now) ==
  /\ RootProblems(now) = Unresolved(seen)
  /\ \A p \in Problems(seen) \cap Problems(now) : p.what = "Gone" => p.ids # {MarkedAs(seen)}

LEMMA UnmarkedWhole ==
  ASSUME NEW seen \in Surveys, NEW now, seen.legacy = NoId, seen.marker = NoId,
         RootProblems(now) = Unresolved(seen)
  PROVE  Whole(seen, now)
<1>1. MarkedAs(seen) = NoId
  BY DEF MarkedAs
<1>2. \A e \in Registered(seen) : e.id # MarkedAs(seen)
  BY <1>1, RegisteredTyped, NamesAssumption
<1>3. \A p \in Problems(seen) \cap Problems(now) : p.what = "Gone" => p.ids # {MarkedAs(seen)}
  BY <1>2, GoneNoMore
<1> QED BY <1>3 DEF Whole

LEMMA MarkedWhole ==
  ASSUME NEW seen, NEW now, NEW id \in Ids, seen.legacy = NoId, seen.marker = id,
         now.legacy = NoId, now.marker = id, IdsAt(now, now.root) = {id},
         \A e \in Registered(seen) : \A f \in Registered(now) :
           e.id = id /\ ~e.exists => f.id # e.id \/ f.path # e.path
  PROVE  Whole(seen, now)
<1>1. id # NoId
  BY NamesAssumption
<1>2. MarkedAs(seen) = id
  BY <1>1 DEF MarkedAs
<1>3. RootProblems(now) = {}
  BY MarkedProblems
<1>4. Unresolved(seen) = {}
  BY <1>1, <1>2 DEF Unresolved
<1>5. \A p \in Problems(seen) \cap Problems(now) : p.what = "Gone" => p.ids # {MarkedAs(seen)}
  BY <1>2, GoneNoMore
<1> QED BY <1>3, <1>4, <1>5 DEF Whole
\* A survey of a root after a step.
LEMMA NowSees ==
  ASSUME HealInv', legacy' = legacy, LegacyNameless, NEW r \in Trees,
         (HasMarker(r) \/ Primary[r] = r)', NEW now, now = SurveyAt(r)'
  PROVE  /\ now.root = r /\ now.marker = Named(marker'[r]) /\ now.legacy = NoId
         /\ {[id |-> e.id, path |-> e.path] : e \in Registered(now)} = Range(index')
<1>1. IdentityRoot(r)' = r
  BY DEF IdentityRoot
<1>2. /\ now.root = r /\ now.marker = Named(marker'[r]) /\ now.legacy = Named(legacy'[r])
      /\ Sees(now, index', live')
  BY <1>1 DEF SurveyAt, Sees, Named
<1>3. now.legacy = NoId
  BY <1>2 DEF LegacyNameless, Named
<1>4. index' \in Seq(Entries)
  BY DEF HealInv, StandInv, TInv, TypeOK
<1>5. {[id |-> e.id, path |-> e.path] : e \in Registered(now)} = Range(index')
  BY <1>2, <1>4, SeesEntries
<1> QED BY <1>2, <1>3, <1>5

\* The survey found nothing to heal.
LEMMA SurveyDone ==
  ASSUME HealInv, NEW c \in Clients, call[c].op = "heal", Survey(c), Ends(c, "done"),
         answer'[c] = "done", NEW seen, seen = SurveyAt(call[c].tree), NEW r, r = seen.root,
         NEW now, now = SurveyAt(r)'
  PROVE  Whole(seen, now)
<1>1. PICK tree \in Trees : tree = call[c].tree
  BY TInvIs DEF HealInv, StandInv, Calling, InCall
<1>2. /\ TypeOK /\ LegacyNameless /\ UNCHANGED files /\ r = IdentityRoot(tree) /\ r \in Trees
  BY <1>1, RootTyped DEF HealInv, StandInv, TInv, Survey, SurveyAt
<1>3. IdentityRoot(r) = r
  BY <1>1, <1>2, PrimaryAssumption DEF IdentityRoot, HasMarker
<1>4. now = seen
  <2>1. SurveyAt(r) = SurveyAt(tree)
    BY <1>2, <1>3 DEF SurveyAt
  <2>2. SurveyAt(r)' = SurveyAt(r)
    <3>1. /\ live' = live /\ marker' = marker /\ legacy' = legacy /\ index' = index
          /\ databases' = databases
      BY <1>2 DEF files
    <3>2. IdentityRoot(r)' = r
      BY <1>3, <3>1 DEF IdentityRoot, HasMarker
    <3>3. Bound(r)' = Bound(r)
      BY <3>1 DEF Bound, IdFor
    <3> QED BY <1>3, <3>1, <3>2, <3>3 DEF SurveyAt
  <2> QED BY <1>1, <2>1, <2>2
<1>5. seen \in Surveys /\ seen.legacy = NoId
  <2>1. seen.legacy = Named(legacy[r])
    BY <1>1, <1>2 DEF SurveyAt
  <2>2. seen.legacy = NoId
    BY <1>2, <2>1 DEF LegacyNameless, Named
  <2> QED BY <1>1, <1>2, <2>2, SurveyTyped
<1>6. HealPlan(seen) = NothingPlanned
  <2>1. ~Ends(c, "refused")
    <3>1. "refused" # "done"
      OBVIOUS
    <3> QED BY <3>1, EndsAs
  <2>2. Plans(c, seen, HealPlan(seen), seen.root, HealId(seen))
    BY <2>1 DEF Survey
  <2>3. call[c] \in InCall /\ call' = [call EXCEPT ![c] = Idle] /\ call \in [Clients -> Calling]
    BY TInvIs DEF HealInv, StandInv, Calling, Ends
  <2>4. PICK next : next = [call[c] EXCEPT !.pc = "apply", !.seen = seen, !.plan = HealPlan(seen),
                              !.root = seen.root, !.id = HealId(seen)]
    OBVIOUS
  <2>5. next.pc = "apply" /\ Idle.pc = "idle"
    BY <2>3, <2>4 DEF InCall, Idle
  <2>6. ~Goes(c, next)
    BY <2>3, <2>5 DEF Goes
  <2> QED BY <2>2, <2>4, <2>6 DEF Plans
<1>7. MarkedAs(seen) = seen.marker
  BY <1>5 DEF MarkedAs
<1>8. CASE seen.marker = NoId
  <2>1. HealId(seen) = NoId
    BY <1>6, <1>7, <1>8 DEF HealPlan, NothingPlanned, Planned
  <2> QED BY <1>4, <1>5, <1>8, <2>1, UnmarkedProblems, UnmarkedWhole
<1>9. CASE seen.marker # NoId
  <2>1. PICK id \in Ids : id = seen.marker
    BY <1>5, <1>9 DEF Surveys
  <2>2. /\ Registering(seen, r, id) = {} /\ Gone(seen, id) = {}
        /\ {[id |-> other, path |-> r] : other \in IdsAt(seen, r) \ {id}} = {}
    BY <1>6, <1>7, <1>9, <2>1 DEF HealPlan, BindPlan, NothingPlanned, Planned
  <2>3. id \in IdsAt(seen, r)
    BY <2>2 DEF Registering
  <2>4. IdsAt(seen, r) = {id}
    BY <2>2, <2>3
  <2>5. \A e \in Registered(seen) : e.id = id => e.exists
    BY <2>2 DEF Gone
  <2> QED BY <1>4, <1>5, <2>1, <2>4, <2>5, MarkedWhole
<1> QED BY <1>8, <1>9

\* The marker a heal writes says what the registry alone said.
LEMMA MarkDone ==
  ASSUME HealInv, HealInv', NEW c \in Clients, call[c].op = "heal", Mark(c),
         NEW seen, seen = call[c].seen, NEW r, r = seen.root, NEW now, now = SurveyAt(r)'
  PROVE  Whole(seen, now)
<1>1. PICK k : k = call[c]
  OBVIOUS
<1>2. /\ k \in InCall /\ Given(k) /\ HealRests(k) /\ k.pc = "mark" /\ k.op = "heal" /\ k.seen = seen
  BY <1>1, TInvIs DEF HealInv, StandInv, Calling, Mark
<1>3. /\ SeenStill(k) /\ k.id = HealId(seen) /\ seen.marker = NoId /\ k.id # NoId
      /\ seen \in Surveys /\ k.root = r /\ r \in Trees /\ k.id \in Ids
  BY <1>2 DEF HealRests, SeenStill, InCall, Given
<1>4. index' = index /\ legacy' = legacy /\ marker' = [marker EXCEPT ![r] = k.id] /\ marker \in Markers
  BY <1>1, <1>3 DEF Mark, HealInv, StandInv, TInv, TypeOK
<1>5. marker'[r] = k.id /\ Named(marker'[r]) = k.id
  BY <1>3, <1>4 DEF Markers, Named
<1>6. HasMarker(r)'
  BY <1>3, <1>5, NamesAssumption DEF HasMarker
<1>7. /\ now.root = r /\ now.marker = k.id /\ now.legacy = NoId
      /\ {[id |-> e.id, path |-> e.path] : e \in Registered(now)} = Range(index)
  BY <1>3, <1>4, <1>5, <1>6, NowSees DEF HealInv, StandInv
<1>8. PICK at : at = IdsAt(seen, r) /\ at = IdsAt(now, r) /\ IsFiniteSet(at)
  <2>1. {[id |-> e.id, path |-> e.path] : e \in Registered(seen)} = Range(index)
    BY <1>2, <1>3 DEF SeenStill
  <2>2. PICK entries : entries = Range(index)
    OBVIOUS
  <2>3. IdsAt(seen, r) = {f.id : f \in {f \in entries : f.path = r}}
    BY <2>1, <2>2, IdsRegistered
  <2>4. IdsAt(now, r) = {f.id : f \in {f \in entries : f.path = r}}
    BY <1>7, <2>2, IdsRegistered
  <2>5. IdsAt(seen, r) = IdsAt(now, r)
    BY <2>3, <2>4
  <2> QED BY <1>3, <2>5, IdsFinite
<1>9. seen.legacy = NoId /\ MarkedAs(seen) = NoId
  BY <1>2, <1>3 DEF SeenStill, MarkedAs
<1>10. Cardinality(at) = 1 /\ k.id = CHOOSE id \in at : TRUE
  BY <1>3, <1>8, <1>9 DEF HealId
<1>11. at = {k.id}
  BY <1>8, <1>10, FS_Singleton
<1>12. RootProblems(now) = {}
  BY <1>3, <1>7, <1>8, <1>11, MarkedProblems
<1>13. Unresolved(seen) = {}
  BY <1>8, <1>10 DEF Unresolved
<1> QED BY <1>3, <1>9, <1>12, <1>13, UnmarkedWhole
\* What a heal binds its root to.
LEMMA SaveDone ==
  ASSUME HealInv, HealInv', NEW c \in Clients, call[c].op = "heal", Save(c), Ends(c, "done"),
         NEW seen, seen = call[c].seen, NEW r, r = seen.root, NEW now, now = SurveyAt(r)'
  PROVE  Whole(seen, now)
<1>1. PICK k : k = call[c]
  OBVIOUS
<1>2. /\ k \in InCall /\ HealRests(k) /\ AsPlanned(k) /\ RootOwn(k) /\ k.pc = "save"
      /\ k.op = "heal" /\ k.seen = seen
  BY <1>1, TInvIs DEF HealInv, StandInv, Calling, Save, Stands
<1>3. /\ SeenStill(k) /\ seen \in Surveys /\ k.root = r /\ r \in Trees /\ k.plan = HealPlan(seen)
      /\ HasMarker(r) \/ Primary[r] = r
  BY <1>2 DEF HealRests, SeenStill, InCall, AsPlanned, RootOwn
<1>4. marker' = marker /\ legacy' = legacy
  BY DEF Save
<1>5. /\ now.root = r /\ now.marker = seen.marker /\ now.legacy = NoId /\ seen.legacy = NoId
      /\ {[id |-> e.id, path |-> e.path] : e \in Registered(now)} = Range(index')
      /\ {[id |-> e.id, path |-> e.path] : e \in Registered(seen)} = Range(index)
  <2>1. (HasMarker(r) \/ Primary[r] = r)'
    BY <1>3, <1>4 DEF HasMarker
  <2>2. seen.marker = Named(marker[r])
    BY <1>2, <1>3 DEF SeenStill
  <2> QED BY <1>2, <1>3, <1>4, <2>1, <2>2, NowSees DEF HealInv, StandInv, SeenStill
<1>6. ~k.plan.mark
  <2> SUFFICES ASSUME k.plan.mark PROVE FALSE
    OBVIOUS
  <2>1. To(c, "mark") /\ call' = [call EXCEPT ![c] = Idle] /\ call \in [Clients -> Calling]
    <3>1. AfterSave(c) /\ call[c].plan.mark
      BY <1>1 DEF Save
    <3>2. call[c].plan.removes = {}
      BY <1>1, <1>3 DEF HealPlan, BindPlan, Planned
    <3>3. To(c, "mark")
      BY <3>1, <3>2 DEF AfterSave
    <3> QED BY <3>3, TInvIs DEF Ends, HealInv, StandInv
  <2>2. PICK next : next = [k EXCEPT !.pc = "mark"]
    OBVIOUS
  <2>3. next.pc = "mark" /\ Idle.pc = "idle"
    BY <1>2, <2>2 DEF InCall, Idle
  <2> QED BY <1>1, <2>1, <2>2, <2>3 DEF To, Goes
<1>7. MarkedAs(seen) = seen.marker
  BY <1>5 DEF MarkedAs
<1>8. CASE seen.marker = NoId
  <2>1. PICK mark : mark = (HealId(seen) # NoId)
    OBVIOUS
  <2>2. HealId(seen) = NoId /\ k.plan.register \cup k.plan.unregister = {}
    <3>1. k.plan = Planned({}, {}, mark, {})
      BY <1>3, <1>7, <1>8, <2>1 DEF HealPlan
    <3>2. k.plan.mark = mark /\ k.plan.register = {} /\ k.plan.unregister = {}
      BY <3>1 DEF Planned
    <3> QED BY <1>6, <2>1, <3>2
  <2>3. index' = index
    BY <1>1, <2>2, SaveIndexIs DEF HealInv, StandInv
  <2>4. IdsAt(now, r) = IdsAt(seen, r)
    <3>1. PICK entries : entries = Range(index)
      OBVIOUS
    <3>2. IdsAt(seen, r) = {f.id : f \in {f \in entries : f.path = r}}
      BY <1>5, <3>1, IdsRegistered
    <3>3. IdsAt(now, r) = {f.id : f \in {f \in entries : f.path = r}}
      BY <1>5, <2>3, <3>1, IdsRegistered
    <3> QED BY <3>2, <3>3
  <2>5. RootProblems(now) = RootProblems(seen)
    BY <1>5, <2>4, SameProblems
  <2>6. RootProblems(seen) = Unresolved(seen)
    BY <1>3, <1>5, <1>8, <2>2, UnmarkedProblems
  <2> QED BY <1>3, <1>5, <1>8, <2>5, <2>6, UnmarkedWhole
<1>9. CASE seen.marker # NoId
  <2>1. PICK id \in Ids : id = seen.marker
    BY <1>3, <1>9 DEF Surveys
  <2>2. PICK mark : mark = (seen.marker = NoId)
    OBVIOUS
  <2>3. PICK at, here, gone, register :
          /\ at = IdsAt(seen, r) /\ here = [id |-> id, path |-> r]
          /\ gone = {[id |-> other, path |-> r] : other \in at \ {id}} \cup Gone(seen, id)
          /\ register = Registering(seen, r, id)
    OBVIOUS
  <2>4. k.plan.register = register /\ k.plan.unregister = gone
    BY <1>3, <1>7, <1>9, <2>1, <2>3 DEF HealPlan, BindPlan, Planned
  <2>5. register = IF id \in at THEN {} ELSE {here}
    BY <2>3 DEF Registering
  <2>6. Range(index') = (Range(index) \cup register) \ gone
    BY <1>1, <2>4, <2>5, SavedEntries DEF HealInv, StandInv
  <2>7. Range(index) \subseteq Entries
    <3>1. index \in Seq(Entries)
      BY DEF HealInv, StandInv, TInv, TypeOK
    <3> QED BY <3>1 DEF Range
  <2>8. at = {f.id : f \in {f \in Range(index) : f.path = r}}
    BY <1>5, <2>3, IdsRegistered
  <2>9. IdsAt(now, r) = {f.id : f \in {f \in Range(index') : f.path = r}}
    BY <1>5, IdsRegistered
  <2>10. here \in Range(index')
    <3>1. here \in Range(index) \cup register
      <4>1. CASE id \in at
        <5>1. PICK f \in Range(index) : f.path = r /\ f.id = id
          BY <2>8, <4>1
        <5>2. f = here
          BY <2>3, <2>7, <5>1 DEF Entries
        <5> QED BY <5>1, <5>2
      <4>2. CASE id \notin at
        BY <2>5, <4>2
      <4> QED BY <4>1, <4>2
    <3>2. here \notin {[id |-> other, path |-> r] : other \in at \ {id}}
      <4> SUFFICES ASSUME NEW other \in at \ {id} PROVE here # [id |-> other, path |-> r]
        OBVIOUS
      <4>1. PICK x : x = [id |-> other, path |-> r]
        OBVIOUS
      <4>2. x.id = other /\ here.id = id
        BY <2>3, <4>1
      <4> QED BY <4>1, <4>2
    <3>3. here \notin Gone(seen, id)
      <4> SUFFICES ASSUME NEW e \in Registered(seen), e.id = id, ~e.exists,
                          here = [id |-> id, path |-> e.path]
                   PROVE  FALSE
        BY DEF Gone
      <4>1. PICK x : x = [id |-> id, path |-> e.path]
        OBVIOUS
      <4>2. x.path = e.path /\ here.path = r
        BY <2>3, <4>1
      <4>3. e.path = r
        BY <4>1, <4>2
      <4> QED BY <1>2, <1>3, <4>3 DEF SeenStill
    <3> QED BY <2>3, <2>6, <3>1, <3>2, <3>3
  <2>11. ASSUME NEW f \in Range(index'), f.path = r PROVE f.id = id
    <3>1. CASE f \in register
      BY <2>3, <2>5, <3>1
    <3>2. CASE f \in Range(index)
      <4>1. f.id \in at /\ f = [id |-> f.id, path |-> r]
        BY <2>7, <2>8, <2>11, <3>2 DEF Entries
      <4>2. f \notin {[id |-> other, path |-> r] : other \in at \ {id}}
        BY <2>3, <2>6
      <4> QED BY <4>1, <4>2
    <3> QED BY <2>6, <3>1, <3>2
  <2>12. IdsAt(now, r) = {id}
    <3>1. here.path = r /\ here.id = id
      BY <2>3
    <3> QED BY <2>9, <2>10, <2>11, <3>1
  <2>13. ASSUME NEW e \in Registered(seen), NEW f \in Registered(now), e.id = id, ~e.exists
         PROVE  f.id # e.id \/ f.path # e.path
    <3> SUFFICES ASSUME f.id = e.id, f.path = e.path PROVE FALSE
      OBVIOUS
    <3>1. [id |-> f.id, path |-> f.path] \in Range(index')
      BY <1>5
    <3>2. [id |-> id, path |-> e.path] \in Gone(seen, id)
      BY <2>13 DEF Gone
    <3>3. [id |-> f.id, path |-> f.path] = [id |-> id, path |-> e.path]
      BY <2>13
    <3> QED BY <2>3, <2>6, <3>1, <3>2, <3>3
  <2> QED BY <1>5, <2>1, <2>12, <2>13, MarkedWhole
<1> QED BY <1>8, <1>9

LEMMA StepHealsWhole ==
  ASSUME HealInv, [Next]_vars, NEW c \in Clients, call[c].op = "heal", call[c].pc # "idle",
         answer'[c] = "done", call'[c].pc = "idle", NEW seen,
         seen = IF call[c].pc = "survey" THEN SurveyAt(call[c].tree) ELSE call[c].seen,
         NEW r, r = seen.root, NEW now, now = SurveyAt(r)'
  PROVE  Whole(seen, now)
<1>1. HealInv'
  BY NextHeals
<1>2. \E d \in Clients : OffSteps(d) \/ Recheck(d) \/ Save(d)
  <2>1. call' # call
    OBVIOUS
  <2>2. \A d \in Clients : ~Adopt(d)
    BY DEF HealInv, StandInv, Stands, InKind, Adopt
  <2> QED BY <2>1, <2>2 DEF Next, OffSteps, Vanish, vars
<1>3. Done(c)
  BY <1>2, HealEnds
<1>4. CASE Survey(c)
  BY <1>3, <1>4, SurveyDone DEF Done, Survey
<1>5. CASE Save(c)
  BY <1>1, <1>3, <1>5, SaveDone DEF Done, Save
<1>6. CASE Mark(c)
  BY <1>1, <1>6, MarkDone DEF Mark
<1> QED BY <1>3, <1>4, <1>5, <1>6 DEF Done

\* Where no older marker names a project, a heal that says it is done, whether
\* it found nothing to do, saved, or saved and marked, leaves `project show`
\* nothing to say of its root but what a heal cannot resolve, and the marked
\* project registered at no path it saw gone: whatever other commands bind,
\* repoint or die at meanwhile (heal, and apply_changes).
THEOREM HealsAreWhole == ASSUME NoOlderMarkers PROVE Spec => HealsWhole
<1>1. HealInv /\ [Next]_vars =>
        [\A c \in Clients :
           LET seen == IF call[c].pc = "survey" THEN SurveyAt(call[c].tree) ELSE call[c].seen IN
           call[c].op = "heal" /\ call[c].pc # "idle" /\ answer'[c] = "done" /\ call'[c].pc = "idle"
             => \A r \in {seen.root} :
                  /\ RootProblems(SurveyAt(r)') = Unresolved(seen)
                  /\ \A p \in Problems(seen) \cap Problems(SurveyAt(r)') :
                       p.what = "Gone" => p.ids # {MarkedAs(seen)}]_vars
  BY StepHealsWhole DEF Whole
<1> QED BY <1>1, SpecHealInv, PTL DEF Spec, HealsWhole
=============================================================================
