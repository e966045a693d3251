----------------------------- MODULE PlanLinks -----------------------------
(***************************************************************************)
(* A store's plans, and the links by which one supersedes another.  A plan *)
(* holds the plans it supersedes and the one that supersedes it, each on   *)
(* its own stream: a link and an unlink are two writes, on two streams,    *)
(* after reads that may be stale by then, and a process may fail between.  *)
(*                                                                         *)
(* A commit decides on the plan as it is appended to: the kernel loads and *)
(* decides again whatever a write landed between, and a plan's stream is   *)
(* never purged, so a head is never met again.  Governed tasks, paths and  *)
(* texts are left out: no rule here reads them.                            *)
(*                                                                         *)
(* Nothing keeps two calls apart.  `beside` holds what others wrote while  *)
(* a call went by what it had read, so that what is so of any calls at     *)
(* once can be said, and what only of calls left alone.                    *)
(***************************************************************************)
EXTENDS Naturals, FiniteSets

CONSTANTS
  Plans,     \* the plans' harp ids
  Clients,   \* processes
  MaxCalls   \* bound: client -> the link and unlink calls it makes

NoPlan == "<no plan>"

ASSUME PlansAssumption == IsFiniteSet(Plans) /\ NoPlan \notin Plans
ASSUME CallsAssumption == MaxCalls \in [Clients -> Nat]

Statuses == {"draft", "active", "superseded", "done", "abandoned"}

VARIABLES
  plans,   \* harp -> the plan its stream folds to
  call,    \* client -> the call it is in
  begun,   \* client -> how many calls it began
  answer,  \* client -> how its last call was answered
  beside   \* client -> what other calls wrote since its call read (history)

vars == <<plans, call, begun, answer, beside>>

Writes == {"supersede", "mark", "unsupersede", "reinstate"}

\* Mutant of NotAdded: a plan not added has no status at all.
NotAddedStatusless ==
  [added |-> FALSE, status |-> "none", supersedes |-> {}, superseded_by |-> NoPlan]

NotAdded ==
  [added |-> FALSE, status |-> "draft", supersedes |-> {}, superseded_by |-> NoPlan]

Idle == [pc |-> "idle", plan |-> NoPlan, target |-> NoPlan, linked |-> FALSE, marked |-> FALSE]

TypeOK ==
  /\ plans \in [Plans -> [added: BOOLEAN, status: Statuses, supersedes: SUBSET Plans,
                          superseded_by: Plans \cup {NoPlan}]]
  /\ call \in [Clients ->
       [pc: {"idle", "link", "supersede", "mark", "unlink", "unlink_marked",
             "unsupersede", "reinstate"},
        plan: Plans \cup {NoPlan}, target: Plans \cup {NoPlan},
        linked: BOOLEAN, marked: BOOLEAN]]
  /\ begun \in [Clients -> Nat]
  /\ answer \in [Clients -> {"none", "linked", "unlinked", "refused", "failed"}]
  /\ beside \in [Clients -> SUBSET Writes]

Init ==
  /\ plans = [p \in Plans |-> NotAdded]
  /\ call = [c \in Clients |-> Idle]
  /\ begun = [c \in Clients |-> 0]
  /\ answer = [c \in Clients |-> "none"]
  /\ beside = [c \in Clients |-> {}]

------------------------------------------------------------------------------
(* The rules of a plan. *)

MayBecome(from, to) ==
  \/ from = "draft" /\ to \in {"active", "abandoned"}
  \/ from = "active" /\ to \in {"done", "abandoned"}
  \/ from \in {"done", "abandoned"} /\ to = "active"

\* The plans following `supersedes` from `from` comes to, `from` included.
Reached(from) ==
  LET within[n \in 0..Cardinality(Plans)] ==
        IF n = 0 THEN {from}
        ELSE within[n-1] \cup UNION {plans[p].supersedes : p \in within[n-1]}
  IN within[Cardinality(Plans)]

SupersedesReaches(from, to) == to \in Reached(from)

\* Mutant of ClosesCycle: the check looks only one link far.
CycleOneFar(plan, target) == plan \in plans[target].supersedes

\* plan superseding target closes a cycle when target reaches plan.
ClosesCycle(plan, target) == SupersedesReaches(target, plan)

\* MarkedSuperseded and Reinstated, folded.
Marked(held, by) == [held EXCEPT !.status = "superseded", !.superseded_by = by]

\* Mutant of Reinstated: the plan that superseded it is kept.
ReinstatedKept(held) == [held EXCEPT !.status = "active"]
Reinstated(held) == [held EXCEPT !.status = "active", !.superseded_by = NoPlan]

------------------------------------------------------------------------------
(* The actions. *)

AddPlan(p, status) ==
  /\ ~plans[p].added
  /\ status \in {"draft", "active"}
  /\ plans' = [plans EXCEPT ![p].added = TRUE, ![p].status = status]
  /\ UNCHANGED <<call, begun, answer, beside>>

\* `plan status`: as the table allows, so never to the status held, and never
\* to or from superseded.
SetPlanStatus(p, to) ==
  /\ plans[p].added
  /\ MayBecome(plans[p].status, to)
  /\ plans' = [plans EXCEPT ![p].status = to]
  /\ UNCHANGED <<call, begun, answer, beside>>

Goes(c, next) == call' = [call EXCEPT ![c] = next] /\ UNCHANGED answer
To(c, pc) == Goes(c, [call[c] EXCEPT !.pc = pc])
Ends(c, said) ==
  /\ call' = [call EXCEPT ![c] = Idle]
  /\ answer' = [answer EXCEPT ![c] = said]

\* c's step wrote these: every other call that has read by now has them beside.
Wrote(c, kinds) ==
  beside' = [d \in Clients |->
    IF call'[d].pc \in {"idle", "link", "unlink"} THEN {}
    ELSE IF d = c THEN beside[d] ELSE beside[d] \cup kinds]

\* A link or an unlink of two plans; the superseding one is there.
Begin(c, pc, plan, target) ==
  /\ call[c].pc = "idle"
  /\ begun[c] < MaxCalls[c]
  /\ pc \in {"link", "unlink"}
  /\ plans[plan].added
  /\ begun' = [begun EXCEPT ![c] = @ + 1]
  /\ Goes(c, [Idle EXCEPT !.pc = pc, !.plan = plan, !.target = target])
  /\ UNCHANGED <<plans, beside>>

\* superseding reads the plan list once and judges the link by it; what is
\* there already of a link left half done is not written again.
LinkRead(c) ==
  LET plan == call[c].plan
      target == call[c].target
      linked == target \in plans[plan].supersedes
      by == plans[target].superseded_by
      refused ==
        \/ target = plan
        \/ ~plans[target].added
        \/ ClosesCycle(plan, target)
        \/ linked /\ by = plan
        \/ by \notin {NoPlan, plan} IN
  /\ call[c].pc = "link"
  /\ \/ /\ refused
        /\ Ends(c, "refused")
     \/ /\ ~refused
        /\ Goes(c, [call[c] EXCEPT !.pc = IF linked THEN "mark" ELSE "supersede",
                                   !.marked = by # NoPlan])
  /\ Wrote(c, {})
  /\ UNCHANGED <<plans, begun>>

\* Mutant of CommitSupersede: the superseding plan's half is the whole link.
SupersedeAlone(c) ==
  /\ call[c].pc = "supersede"
  /\ plans' = [plans EXCEPT ![call[c].plan].supersedes = @ \cup {call[c].target}]
  /\ Ends(c, "linked")
  /\ Wrote(c, {"supersede"})
  /\ UNCHANGED begun

\* The first half: Supersede, on the superseding plan.
CommitSupersede(c) ==
  LET plan == call[c].plan
      target == call[c].target IN
  /\ call[c].pc = "supersede"
  /\ \/ /\ target \in plans[plan].supersedes
        /\ Ends(c, "refused")
        /\ UNCHANGED plans
        /\ Wrote(c, {})
     \/ /\ target \notin plans[plan].supersedes
        /\ plans' = [plans EXCEPT ![plan].supersedes = @ \cup {target}]
        /\ IF call[c].marked THEN Ends(c, "linked") ELSE To(c, "mark")
        /\ Wrote(c, {"supersede"})
  /\ UNCHANGED begun

\* The second: MarkSuperseded, on its target.
CommitMark(c) ==
  LET target == call[c].target IN
  /\ call[c].pc = "mark"
  /\ \/ /\ plans[target].status = "superseded"
        /\ Ends(c, "refused")
        /\ UNCHANGED plans
        /\ Wrote(c, {})
     \/ /\ plans[target].status # "superseded"
        /\ plans' = [plans EXCEPT ![target] = Marked(@, call[c].plan)]
        /\ Ends(c, "linked")
        /\ Wrote(c, {"mark"})
  /\ UNCHANGED begun

\* unlink loads the superseding plan, then the superseded one.
UnlinkReadLinked(c) ==
  /\ call[c].pc = "unlink"
  /\ Goes(c, [call[c] EXCEPT !.pc = "unlink_marked",
                             !.linked = call[c].target \in plans[call[c].plan].supersedes])
  /\ Wrote(c, {})
  /\ UNCHANGED <<plans, begun>>

\* Mutant of UnlinkReadMarked: superseded by any plan counts as by this one.
UnlinkReadMarkedByAny(c) ==
  LET marked == plans[call[c].target].superseded_by # NoPlan IN
  /\ call[c].pc = "unlink_marked"
  /\ IF ~call[c].linked /\ ~marked THEN Ends(c, "refused")
     ELSE Goes(c, [call[c] EXCEPT !.pc = IF call[c].linked THEN "unsupersede" ELSE "reinstate",
                                  !.marked = marked])
  /\ Wrote(c, {})
  /\ UNCHANGED <<plans, begun>>

UnlinkReadMarked(c) ==
  LET marked == plans[call[c].target].superseded_by = call[c].plan IN
  /\ call[c].pc = "unlink_marked"
  /\ IF ~call[c].linked /\ ~marked THEN Ends(c, "refused")
     ELSE Goes(c, [call[c] EXCEPT !.pc = IF call[c].linked THEN "unsupersede" ELSE "reinstate",
                                  !.marked = marked])
  /\ Wrote(c, {})
  /\ UNCHANGED <<plans, begun>>

\* The first half of an unlink: Unsupersede, on the superseding plan.
CommitUnsupersede(c) ==
  LET plan == call[c].plan
      target == call[c].target IN
  /\ call[c].pc = "unsupersede"
  /\ \/ /\ target \notin plans[plan].supersedes
        /\ Ends(c, "refused")
        /\ UNCHANGED plans
        /\ Wrote(c, {})
     \/ /\ target \in plans[plan].supersedes
        /\ plans' = [plans EXCEPT ![plan].supersedes = @ \ {target}]
        /\ IF call[c].marked THEN To(c, "reinstate") ELSE Ends(c, "unlinked")
        /\ Wrote(c, {"unsupersede"})
  /\ UNCHANGED begun

\* The second: Reinstate, on its target.
CommitReinstate(c) ==
  LET target == call[c].target IN
  /\ call[c].pc = "reinstate"
  /\ \/ /\ plans[target].status # "superseded"
        /\ Ends(c, "refused")
        /\ UNCHANGED plans
        /\ Wrote(c, {})
     \/ /\ plans[target].status = "superseded"
        /\ plans' = [plans EXCEPT ![target] = Reinstated(@)]
        /\ Ends(c, "unlinked")
        /\ Wrote(c, {"reinstate"})
  /\ UNCHANGED begun

\* The process dies, or the store fails it for good, between two of its steps.
Fail(c) ==
  /\ call[c].pc # "idle"
  /\ Ends(c, "failed")
  /\ Wrote(c, {})
  /\ UNCHANGED <<plans, begun>>

Next ==
  \/ \E p \in Plans, status \in Statuses : AddPlan(p, status) \/ SetPlanStatus(p, status)
  \/ \E c \in Clients :
       \/ \E pc \in {"link", "unlink"}, plan, target \in Plans : Begin(c, pc, plan, target)
       \/ LinkRead(c)
       \/ CommitSupersede(c)
       \/ CommitMark(c)
       \/ UnlinkReadLinked(c)
       \/ UnlinkReadMarked(c)
       \/ CommitUnsupersede(c)
       \/ CommitReinstate(c)
       \/ Fail(c)

Spec == Init /\ [][Next]_vars

------------------------------------------------------------------------------
(* Properties. *)

\* A plan is superseded exactly while it names the plan that supersedes it
\* (PlanState.superseded_by): whatever order status changes, links and unlinks
\* of several callers come in.
SupersededByOne ==
  \A p \in Plans : plans[p].status = "superseded" <=> plans[p].superseded_by # NoPlan

\* A call of c ends, answered so.
Answered(c, said) == call[c].pc # "idle" /\ call'[c].pc = "idle" /\ answer'[c] = said

\* The plans that supersede themselves through others.
Cyclic == {p \in Plans : \E q \in plans[p].supersedes : SupersedesReaches(q, p)}

\* link refuses to close a cycle (closes_cycle), by the plan list as it read it:
\* a plan comes to supersede itself through others only by a link beside which
\* another call recorded a link since, however long the chain, and whatever
\* statuses, unlinks and calls left half done come between.
CyclesOnlyRaced ==
  [][\/ Cyclic' \subseteq Cyclic
     \/ \E c \in Clients :
          call[c].pc = "supersede" /\ call'[c] # call[c] /\ "supersede" \in beside[c]]_vars

\* A link answered done is there on both plans, unless another call undid it
\* meanwhile; an unlink on neither, unless another linked them; also when a call
\* that failed between its two writes left it half done before.  And the mark an
\* unlink takes back is its own plan's, unless another call took that first.
LinksEndWhole ==
  [][\A c \in Clients :
       LET plan == call[c].plan
           target == call[c].target IN
       /\ Answered(c, "linked") /\ beside[c] \cap {"unsupersede", "reinstate"} = {} =>
            /\ target \in plans'[plan].supersedes
            /\ plans'[target].superseded_by = plan
       /\ Answered(c, "unlinked") /\ beside[c] \cap {"supersede", "mark"} = {} =>
            /\ target \notin plans'[plan].supersedes
            /\ plans'[target].superseded_by # plan
       /\ Answered(c, "unlinked") /\ call[c].pc = "reinstate" /\ "reinstate" \notin beside[c] =>
            plans[target].superseded_by = plan]_vars

=============================================================================
