--------------------------- MODULE PlanLinks_proofs ---------------------------
(***************************************************************************)
(* For any plans, processes and calls, interleaved and failing anywhere: a *)
(* plan is superseded exactly while it names the plan that supersedes it.  *)
(* The mark a commit writes must be a plan (CallsNamePlans), and a plan    *)
(* added must not be marked already (OnlyAddedMarked): the commit of a     *)
(* mark runs on a target its call once saw added, and none is taken back.  *)
(*                                                                         *)
(* And a link closes a cycle, or a call answered done is not so on both     *)
(* plans, only where another call wrote beside it since it read: what a     *)
(* call judged still stands, or `beside` holds a write that undoes it       *)
(* (Judged).  Links are followed any number of times (Reached): a plan that *)
(* comes to reach itself does so by the link a step makes.                  *)
(***************************************************************************)
EXTENDS PlanLinks, FiniteSetTheorems, WellFoundedInduction, TLAPS

\* A call names two plans, and marks only a plan that was added.
CallsNamePlans ==
  \A c \in Clients : call[c].pc # "idle" =>
    /\ call[c].plan \in Plans
    /\ call[c].target \in Plans
    /\ call[c].pc \in {"supersede", "mark"} => plans[call[c].target].added

OnlyAddedMarked ==
  \A p \in Plans : ~plans[p].added =>
    plans[p].status = "draft" /\ plans[p].superseded_by = NoPlan

IInv ==
  /\ TypeOK
  /\ CallsNamePlans
  /\ OnlyAddedMarked
  /\ SupersededByOne

------------------------------------------------------------------------------
LEMMA InitIInv == Init => IInv
  BY PlansAssumption, CallsAssumption
  DEF Init, IInv, TypeOK, CallsNamePlans, OnlyAddedMarked, SupersededByOne,
      NotAdded, Idle, Statuses

PlanState ==
  [added: BOOLEAN, status: Statuses, supersedes: SUBSET Plans,
   superseded_by: Plans \cup {NoPlan}]

(* A step that writes one plan keeps it if what is written is whole and    *)
(* nothing added is taken back.                                            *)
LEMMA PlanWritten ==
  ASSUME IInv, NEW p \in Plans, NEW after \in PlanState,
         plans' = [plans EXCEPT ![p] = after],
         plans[p].added => after.added,
         ~after.added => after.status = "draft" /\ after.superseded_by = NoPlan,
         after.status = "superseded" <=> after.superseded_by # NoPlan
  PROVE  /\ plans' \in [Plans -> PlanState]
         /\ OnlyAddedMarked'
         /\ SupersededByOne'
         /\ \A q \in Plans : plans[q].added => plans'[q].added
  BY DEF IInv, TypeOK, PlanState, OnlyAddedMarked, SupersededByOne

\* What the second halves of a link and of an unlink write is whole.
LEMMA MarkedWhole ==
  ASSUME NEW held \in PlanState, NEW by \in Plans
  PROVE  /\ Marked(held, by) \in PlanState
         /\ Marked(held, by).added = held.added
         /\ Marked(held, by).status = "superseded"
         /\ Marked(held, by).superseded_by = by
  BY DEF Marked, PlanState, Statuses

LEMMA ReinstatedWhole ==
  ASSUME NEW held \in PlanState
  PROVE  /\ Reinstated(held) \in PlanState
         /\ Reinstated(held).added = held.added
         /\ Reinstated(held).status = "active"
         /\ Reinstated(held).superseded_by = NoPlan
  BY DEF Reinstated, PlanState, Statuses

CallStates ==
  [pc: {"idle", "link", "supersede", "mark", "unlink", "unlink_marked", "unsupersede",
        "reinstate"},
   plan: Plans \cup {NoPlan}, target: Plans \cup {NoPlan}, linked: BOOLEAN, marked: BOOLEAN]
Answers == {"none", "linked", "unlinked", "refused", "failed"}

(* A call ended, or gone on to name the plans it named, keeps the types    *)
(* and goes on naming plans.                                               *)
LEMMA CallEnded ==
  ASSUME IInv, NEW c \in Clients, NEW said \in Answers, Ends(c, said),
         \A q \in Plans : plans[q].added => plans'[q].added
  PROVE  call' \in [Clients -> CallStates] /\ answer' \in [Clients -> Answers] /\ CallsNamePlans'
<1>1. Idle \in CallStates /\ Idle.pc = "idle"
  BY DEF Idle, CallStates
<1>2. call \in [Clients -> CallStates] /\ answer \in [Clients -> Answers]
  BY DEF IInv, TypeOK, CallStates, Answers
<1> QED
  BY <1>1, <1>2 DEF Ends, IInv, CallsNamePlans

LEMMA CallGone ==
  ASSUME IInv, NEW c \in Clients, NEW next \in CallStates, Goes(c, next),
         next.plan \in Plans, next.target \in Plans,
         next.pc \in {"supersede", "mark"} => plans'[next.target].added,
         \A q \in Plans : plans[q].added => plans'[q].added
  PROVE  call' \in [Clients -> CallStates] /\ answer' \in [Clients -> Answers] /\ CallsNamePlans'
<1>1. call \in [Clients -> CallStates] /\ answer \in [Clients -> Answers]
  BY DEF IInv, TypeOK, CallStates, Answers
<1> QED
  BY <1>1 DEF Goes, IInv, CallsNamePlans

LEMMA PlanEdited ==
  ASSUME NEW old \in PlanState, NEW status \in Statuses, NEW added \in BOOLEAN
  PROVE  LET after == [old EXCEPT !.added = added, !.status = status] IN
         /\ after \in PlanState
         /\ after.added = added
         /\ after.superseded_by = old.superseded_by
  BY DEF PlanState

\* What is beside a call are writes.
LEMMA BesideTyped == IInv /\ [Next]_vars => beside' \in [Clients -> SUBSET Writes]
<1> SUFFICES ASSUME IInv, Next PROVE beside' \in [Clients -> SUBSET Writes]
  BY DEF IInv, TypeOK, vars
<1>1. ASSUME NEW c \in Clients, NEW kinds \in SUBSET Writes, Wrote(c, kinds)
      PROVE  beside' \in [Clients -> SUBSET Writes]
  BY <1>1 DEF Wrote, IInv, TypeOK
<1>2. \/ UNCHANGED beside
      \/ \E c \in Clients, kinds \in SUBSET Writes : Wrote(c, kinds)
  BY DEF Next, AddPlan, SetPlanStatus, Begin, LinkRead, CommitSupersede, CommitMark,
         UnlinkReadLinked, UnlinkReadMarked, CommitUnsupersede, CommitReinstate, Fail, Writes
<1> QED BY <1>1, <1>2 DEF IInv, TypeOK

LEMMA NextIInv == IInv /\ [Next]_vars => IInv'
<1> SUFFICES ASSUME IInv, Next PROVE IInv'
  BY DEF IInv, TypeOK, CallsNamePlans, OnlyAddedMarked, SupersededByOne, vars
<1> /\ plans \in [Plans -> PlanState]
    /\ begun \in [Clients -> Nat]
    /\ call \in [Clients -> CallStates]
    /\ NoPlan \notin Plans
    /\ beside' \in [Clients -> SUBSET Writes]
  BY PlansAssumption, BesideTyped DEF IInv, TypeOK, PlanState, CallStates
<1> DEFINE Sound ==
      call' \in [Clients -> CallStates] /\ answer' \in [Clients -> Answers] /\ CallsNamePlans'
<1>a. ASSUME Sound, UNCHANGED plans, begun' \in [Clients -> Nat]
      PROVE  IInv'
  BY <1>a DEF IInv, TypeOK, OnlyAddedMarked, SupersededByOne, PlanState, CallStates, Answers
<1>b. ASSUME Sound, UNCHANGED begun, plans' \in [Plans -> PlanState], OnlyAddedMarked',
             SupersededByOne'
      PROVE  IInv'
  BY <1>b DEF IInv, TypeOK, PlanState, CallStates, Answers
<1>1. ASSUME NEW p \in Plans, NEW status \in Statuses, AddPlan(p, status)
      PROVE  IInv'
  <2> DEFINE after == [plans[p] EXCEPT !.added = TRUE, !.status = status]
  <2>0. plans[p] \in PlanState
    OBVIOUS
  <2>1. after \in PlanState /\ after.added /\ after.superseded_by = plans[p].superseded_by
    BY <2>0, PlanEdited, Zenon
  <2>2. plans' = [plans EXCEPT ![p] = after] /\ UNCHANGED <<call, begun, answer>>
    BY <1>1 DEF AddPlan, PlanState
  <2>3. after.superseded_by = NoPlan /\ after.status # "superseded"
    BY <1>1, <2>1 DEF IInv, OnlyAddedMarked, AddPlan, PlanState
  <2> HIDE DEF after
  <2>4. /\ plans' \in [Plans -> PlanState] /\ OnlyAddedMarked' /\ SupersededByOne'
        /\ \A q \in Plans : plans[q].added => plans'[q].added
    BY <2>1, <2>2, <2>3, PlanWritten
  <2> QED
    BY <2>2, <2>4 DEF IInv, TypeOK, CallsNamePlans, PlanState
<1>2. ASSUME NEW p \in Plans, NEW to \in Statuses, SetPlanStatus(p, to)
      PROVE  IInv'
  <2> DEFINE after == [plans[p] EXCEPT !.status = to]
  <2>0. plans[p].added
    BY <1>2 DEF SetPlanStatus
  <2>1. after \in PlanState /\ after.added /\ after.superseded_by = plans[p].superseded_by
    BY <2>0 DEF PlanState
  <2>2. plans' = [plans EXCEPT ![p] = after] /\ UNCHANGED <<call, begun, answer>>
    BY <1>2 DEF SetPlanStatus, PlanState
  <2>3. after.superseded_by = NoPlan /\ after.status # "superseded"
    BY <1>2, <2>1 DEF IInv, SupersededByOne, SetPlanStatus, MayBecome, PlanState
  <2> HIDE DEF after
  <2>4. /\ plans' \in [Plans -> PlanState] /\ OnlyAddedMarked' /\ SupersededByOne'
        /\ \A q \in Plans : plans[q].added => plans'[q].added
    BY <2>1, <2>2, <2>3, PlanWritten
  <2> QED
    BY <2>2, <2>4 DEF IInv, TypeOK, CallsNamePlans, PlanState
<1>3. ASSUME NEW c \in Clients, NEW pc \in {"link", "unlink"}, NEW plan \in Plans,
             NEW target \in Plans, Begin(c, pc, plan, target)
      PROVE  IInv'
  <2> DEFINE next == [Idle EXCEPT !.pc = pc, !.plan = plan, !.target = target]
  <2>1. /\ next \in CallStates /\ next.plan = plan /\ next.target = target
        /\ next.pc \notin {"supersede", "mark"}
    BY DEF Idle, CallStates
  <2>2. Goes(c, next) /\ UNCHANGED plans /\ begun' \in [Clients -> Nat]
    BY <1>3 DEF Begin
  <2> HIDE DEF next
  <2>3. Sound
    BY <2>1, <2>2, CallGone
  <2> QED
    BY <1>a, <2>2, <2>3
<1>4. ASSUME NEW c \in Clients, LinkRead(c)
      PROVE  IInv'
  <2>1. UNCHANGED plans /\ UNCHANGED begun /\ call[c] \in CallStates
        /\ call[c].plan \in Plans /\ call[c].target \in Plans
    BY <1>4 DEF LinkRead, IInv, CallsNamePlans
  <2>2. CASE Ends(c, "refused")
    BY <1>a, <2>1, <2>2, CallEnded DEF Answers
  <2>3. ASSUME ~Ends(c, "refused")
        PROVE  Sound
    <3>1. PICK pc \in {"mark", "supersede"}, marked \in BOOLEAN :
            Goes(c, [call[c] EXCEPT !.pc = pc, !.marked = marked])
      BY <1>4, <2>3 DEF LinkRead
    <3>2. plans[call[c].target].added
      BY <1>4, <2>3 DEF LinkRead
    <3> DEFINE next == [call[c] EXCEPT !.pc = pc, !.marked = marked]
    <3>3. next \in CallStates /\ next.plan = call[c].plan /\ next.target = call[c].target
      BY <2>1 DEF CallStates
    <3>4. Goes(c, next)
      BY <3>1
    <3> HIDE DEF next
    <3> QED
      BY <2>1, <3>2, <3>3, <3>4, CallGone
  <2> QED
    BY <1>a, <2>1, <2>2, <2>3
<1>5. ASSUME NEW c \in Clients, CommitSupersede(c)
      PROVE  IInv'
  <2> DEFINE p == call[c].plan
  <2> DEFINE after == [plans[p] EXCEPT !.supersedes = @ \cup {call[c].target}]
  <2>1. p \in Plans /\ call[c].target \in Plans /\ plans[call[c].target].added
    BY <1>5 DEF CommitSupersede, IInv, CallsNamePlans
  <2>2. CASE UNCHANGED plans /\ Ends(c, "refused")
    BY <1>5, <1>a, <2>2, CallEnded DEF CommitSupersede, Answers
  <2>3. CASE plans' = [plans EXCEPT ![p].supersedes = @ \cup {call[c].target}]
    <3>1. after \in PlanState
      BY <2>1 DEF PlanState
    <3>2. plans' = [plans EXCEPT ![p] = after]
      BY <2>1, <2>3 DEF PlanState
    <3>3. /\ after.added = plans[p].added
          /\ after.status = plans[p].status
          /\ after.superseded_by = plans[p].superseded_by
      BY <2>1 DEF PlanState
    <3> HIDE DEF after
    <3>4. /\ plans' \in [Plans -> PlanState] /\ OnlyAddedMarked' /\ SupersededByOne'
          /\ \A q \in Plans : plans[q].added => plans'[q].added
      BY <2>1, <3>1, <3>2, <3>3, PlanWritten DEF IInv, OnlyAddedMarked, SupersededByOne
    <3>5. (Ends(c, "linked") \/ Ends(c, "refused") \/ To(c, "mark")) /\ UNCHANGED begun
      BY <1>5 DEF CommitSupersede
    <3>6. CASE Ends(c, "linked") \/ Ends(c, "refused")
      BY <1>b, <3>4, <3>5, <3>6, CallEnded DEF Answers
    <3>7. CASE To(c, "mark")
      <4> DEFINE next == [call[c] EXCEPT !.pc = "mark"]
      <4>1. next \in CallStates /\ next.plan = p /\ next.target = call[c].target
        BY DEF CallStates
      <4>2. Goes(c, next)
        BY <3>7 DEF To
      <4> HIDE DEF next
      <4>3. Sound
        BY <2>1, <3>4, <4>1, <4>2, CallGone
      <4> QED
        BY <1>b, <3>4, <3>5, <4>3
    <3> QED
      BY <3>5, <3>6, <3>7
  <2> QED
    BY <1>5, <2>2, <2>3 DEF CommitSupersede
<1>6. ASSUME NEW c \in Clients, CommitMark(c)
      PROVE  IInv'
  <2> DEFINE p == call[c].target
  <2> DEFINE after == Marked(plans[p], call[c].plan)
  <2>1. p \in Plans /\ call[c].plan \in Plans /\ plans[p].added
    BY <1>6 DEF CommitMark, IInv, CallsNamePlans
  <2>2. CASE UNCHANGED plans /\ Ends(c, "refused")
    BY <1>6, <1>a, <2>2, CallEnded DEF CommitMark, Answers
  <2>3. CASE plans' = [plans EXCEPT ![p] = Marked(@, call[c].plan)] /\ Ends(c, "linked")
    <3>1. /\ after \in PlanState /\ after.added
          /\ after.status = "superseded" /\ after.superseded_by # NoPlan
      BY <2>1, MarkedWhole
    <3>2. plans' = [plans EXCEPT ![p] = after]
      BY <2>3
    <3> HIDE DEF after
    <3>3. /\ plans' \in [Plans -> PlanState] /\ OnlyAddedMarked' /\ SupersededByOne'
          /\ \A q \in Plans : plans[q].added => plans'[q].added
      BY <2>1, <3>1, <3>2, PlanWritten
    <3> QED
      BY <1>6, <1>b, <2>3, <3>3, CallEnded DEF CommitMark, Answers
  <2> QED
    BY <1>6, <2>2, <2>3 DEF CommitMark
<1>7. ASSUME NEW c \in Clients, UnlinkReadLinked(c) \/ UnlinkReadMarked(c)
      PROVE  IInv'
  <2>1. UNCHANGED plans /\ UNCHANGED begun /\ call[c] \in CallStates
        /\ call[c].plan \in Plans /\ call[c].target \in Plans
    BY <1>7 DEF UnlinkReadLinked, UnlinkReadMarked, IInv, CallsNamePlans
  <2>2. CASE Ends(c, "refused")
    BY <1>a, <2>1, <2>2, CallEnded DEF Answers
  <2>3. ASSUME ~Ends(c, "refused")
        PROVE  Sound
    <3>1. CASE UnlinkReadLinked(c)
      <4> DEFINE linked == call[c].target \in plans[call[c].plan].supersedes
      <4> DEFINE next == [call[c] EXCEPT !.pc = "unlink_marked", !.linked = linked]
      <4>1. linked \in BOOLEAN
        OBVIOUS
      <4>2. Goes(c, next)
        BY <3>1 DEF UnlinkReadLinked
      <4> HIDE DEF linked
      <4>3. /\ next \in CallStates /\ next.plan = call[c].plan /\ next.target = call[c].target
            /\ next.pc \notin {"supersede", "mark"}
        BY <2>1, <4>1 DEF CallStates
      <4> HIDE DEF next
      <4> QED
        BY <2>1, <4>2, <4>3, CallGone
    <3>2. CASE UnlinkReadMarked(c)
      <4> DEFINE pc == IF call[c].linked THEN "unsupersede" ELSE "reinstate"
      <4> DEFINE marked == plans[call[c].target].superseded_by = call[c].plan
      <4> DEFINE next == [call[c] EXCEPT !.pc = pc, !.marked = marked]
      <4>1. pc \in {"unsupersede", "reinstate"} /\ marked \in BOOLEAN
        OBVIOUS
      <4>2. Goes(c, next)
        BY <3>2, <2>3 DEF UnlinkReadMarked
      <4> HIDE DEF pc, marked
      <4>3. /\ next \in CallStates /\ next.plan = call[c].plan /\ next.target = call[c].target
            /\ next.pc \notin {"supersede", "mark"}
        BY <2>1, <4>1 DEF CallStates
      <4> HIDE DEF next
      <4> QED
        BY <2>1, <4>2, <4>3, CallGone
    <3> QED
      BY <1>7, <3>1, <3>2
  <2> QED
    BY <1>a, <2>1, <2>2, <2>3
<1>8. ASSUME NEW c \in Clients, CommitUnsupersede(c)
      PROVE  IInv'
  <2> DEFINE p == call[c].plan
  <2> DEFINE after == [plans[p] EXCEPT !.supersedes = @ \ {call[c].target}]
  <2>1. p \in Plans /\ call[c].target \in Plans
    BY <1>8 DEF CommitUnsupersede, IInv, CallsNamePlans
  <2>2. CASE UNCHANGED plans /\ Ends(c, "refused")
    BY <1>8, <1>a, <2>2, CallEnded DEF CommitUnsupersede, Answers
  <2>3. CASE plans' = [plans EXCEPT ![p].supersedes = @ \ {call[c].target}]
    <3>1. after \in PlanState
      BY <2>1 DEF PlanState
    <3>2. plans' = [plans EXCEPT ![p] = after]
      BY <2>1, <2>3 DEF PlanState
    <3>3. /\ after.added = plans[p].added
          /\ after.status = plans[p].status
          /\ after.superseded_by = plans[p].superseded_by
      BY <2>1 DEF PlanState
    <3> HIDE DEF after
    <3>4. /\ plans' \in [Plans -> PlanState] /\ OnlyAddedMarked' /\ SupersededByOne'
          /\ \A q \in Plans : plans[q].added => plans'[q].added
      BY <2>1, <3>1, <3>2, <3>3, PlanWritten DEF IInv, OnlyAddedMarked, SupersededByOne
    <3>5. (Ends(c, "unlinked") \/ Ends(c, "refused") \/ To(c, "reinstate")) /\ UNCHANGED begun
      BY <1>8 DEF CommitUnsupersede
    <3>6. CASE Ends(c, "unlinked") \/ Ends(c, "refused")
      BY <1>b, <3>4, <3>5, <3>6, CallEnded DEF Answers
    <3>7. CASE To(c, "reinstate")
      <4> DEFINE next == [call[c] EXCEPT !.pc = "reinstate"]
      <4>1. /\ next \in CallStates /\ next.plan = p /\ next.target = call[c].target
            /\ next.pc = "reinstate"
        BY DEF CallStates
      <4>2. Goes(c, next)
        BY <3>7 DEF To
      <4> HIDE DEF next
      <4>3. Sound
        BY <2>1, <3>4, <4>1, <4>2, CallGone
      <4> QED
        BY <1>b, <3>4, <3>5, <4>3
    <3> QED
      BY <3>5, <3>6, <3>7
  <2> QED
    BY <1>8, <2>2, <2>3 DEF CommitUnsupersede
<1>9. ASSUME NEW c \in Clients, CommitReinstate(c)
      PROVE  IInv'
  <2> DEFINE p == call[c].target
  <2> DEFINE after == Reinstated(plans[p])
  <2>1. p \in Plans
    BY <1>9 DEF CommitReinstate, IInv, CallsNamePlans
  <2>2. CASE UNCHANGED plans /\ Ends(c, "refused")
    BY <1>9, <1>a, <2>2, CallEnded DEF CommitReinstate, Answers
  <2>3. CASE /\ plans[p].status = "superseded"
             /\ plans' = [plans EXCEPT ![p] = Reinstated(@)]
             /\ Ends(c, "unlinked")
    <3>0. plans[p] \in PlanState /\ plans[p].added
      BY <2>1, <2>3 DEF IInv, OnlyAddedMarked
    <3>1. /\ after \in PlanState /\ after.added
          /\ after.status = "active" /\ after.superseded_by = NoPlan
      BY <3>0, ReinstatedWhole
    <3>2. plans' = [plans EXCEPT ![p] = after]
      BY <2>3
    <3> HIDE DEF after
    <3>3. /\ plans' \in [Plans -> PlanState] /\ OnlyAddedMarked' /\ SupersededByOne'
          /\ \A q \in Plans : plans[q].added => plans'[q].added
      BY <2>1, <3>1, <3>2, PlanWritten
    <3> QED
      BY <1>9, <1>b, <2>3, <3>3, CallEnded DEF CommitReinstate, Answers
  <2> QED
    BY <1>9, <2>2, <2>3 DEF CommitReinstate
<1>10. ASSUME NEW c \in Clients, Fail(c)
       PROVE  IInv'
  BY <1>10, <1>a, CallEnded DEF Fail, Answers
<1> QED
  BY <1>1, <1>2, <1>3, <1>4, <1>5, <1>6, <1>7, <1>8, <1>9, <1>10 DEF Next

LEMMA SpecIInv == Spec => []IInv
  BY InitIInv, NextIInv, PTL DEF Spec

------------------------------------------------------------------------------
\* The plans, the calls and their answers keep their types, for any plans and
\* processes (PlanState, lib.rs apply).
THEOREM PlanTypeCorrect == Spec => []TypeOK
<1>1. IInv => TypeOK
  BY DEF IInv
<1> QED
  BY <1>1, SpecIInv, PTL

\* Whatever links, unlinks and status changes of any number of callers come in
\* whatever order, a plan is superseded exactly while it names the plan that
\* supersedes it (PlanState.superseded_by; aggregate.rs mark_superseded and
\* reinstate; lib.rs may_become).
THEOREM SupersededAlwaysByOne == Spec => []SupersededByOne
<1>1. IInv => SupersededByOne
  BY DEF IInv
<1> QED
  BY <1>1, SpecIInv, PTL

------------------------------------------------------------------------------
(* What is reached.  The natural numbers are well founded, so a recursive   *)
(* function of them is what its equation says, and a set of them that holds *)
(* 0 and what follows each of its members holds every one.                  *)

LEMMA Induction ==
  ASSUME NEW T, 0 \in T, \A n \in Nat : n \in T => n + 1 \in T
  PROVE  Nat \subseteq T
<1> DEFINE R == {ss \in Nat \X Nat : ss[1] < ss[2]}
           Rest == Nat \ T
<1> SUFFICES ASSUME Rest # {} PROVE FALSE
  OBVIOUS
<1>1. IsWellFoundedOn(R, Nat)
  BY NatLessThanWellFounded DEF OpToRel
<1>2. PICK n \in Rest : \A m \in Rest : <<m, n>> \notin R
  <2> Rest \subseteq Nat
    OBVIOUS
  <2> HIDE DEF R, Rest
  <2> QED BY <1>1, WFMin
<1>3. n \in Nat /\ n # 0 /\ n - 1 \in Nat /\ (n - 1) + 1 = n
  BY <1>2
<1>4. n - 1 \in Rest
  BY <1>2, <1>3
<1>5. <<n - 1, n>> \in R
  BY <1>3
<1> QED BY <1>2, <1>4, <1>5

Onward(S) == UNION {plans[p].supersedes : p \in S}

\* w[n] is what at most n links come to from `from`.
Within(w, from, m) ==
  w = [n \in 0..m |-> IF n = 0 THEN {from} ELSE w[n-1] \cup Onward(w[n-1])]

LEMMA WithinExists ==
  ASSUME NEW from PROVE \A m \in Nat : \E w : Within(w, from, m)
<1> DEFINE T == {m \in Nat : \E w : Within(w, from, m)}
<1>1. 0 \in T
  <2>1. Within([n \in 0..0 |-> {from}], from, 0)
    BY DEF Within
  <2> QED BY <2>1
<1>2. ASSUME NEW m \in Nat, m \in T PROVE m + 1 \in T
  <2>1. PICK w : Within(w, from, m)
    BY <1>2
  <2> DEFINE x == [n \in 0..(m + 1) |-> IF n <= m THEN w[n] ELSE w[m] \cup Onward(w[m])]
  <2>2. (\A n \in 0..m : x[n] = w[n]) /\ x[m + 1] = w[m] \cup Onward(w[m])
    OBVIOUS
  <2>3. x = [n \in 0..(m + 1) |-> x[n]]
    OBVIOUS
  <2>4. \A n \in 0..m : w[n] = IF n = 0 THEN {from} ELSE w[n-1] \cup Onward(w[n-1])
    BY <2>1 DEF Within
  <2> HIDE DEF x
  <2>5. ASSUME NEW n \in 0..(m + 1)
        PROVE  x[n] = IF n = 0 THEN {from} ELSE x[n-1] \cup Onward(x[n-1])
    <3>1. CASE n = m + 1
      <4>1. n # 0 /\ n - 1 = m /\ m \in 0..m
        BY <3>1
      <4> QED BY <2>2, <3>1, <4>1
    <3>2. CASE n \in 0..m
      <4>1. n # 0 => n - 1 \in 0..m
        BY <3>2
      <4> QED BY <2>2, <2>4, <3>2, <4>1
    <3> QED BY <3>1, <3>2
  <2>6. Within(x, from, m + 1)
    BY <2>3, <2>5 DEF Within
  <2> QED BY <2>6
<1> QED
  <2> HIDE DEF T
  <2>1. Nat \subseteq T
    BY <1>1, <1>2, Induction
  <2> QED BY <2>1 DEF T

LEMMA ReachedWithin ==
  ASSUME NEW from
  PROVE  \E w : Within(w, from, Cardinality(Plans)) /\ Reached(from) = w[Cardinality(Plans)]
<1>1. Cardinality(Plans) \in Nat
  BY PlansAssumption, FS_CardinalityType
<1>2. \E w : Within(w, from, Cardinality(Plans))
  BY <1>1, WithinExists
<1> QED BY <1>2 DEF Reached, Within, Onward

Closed(S) == \A p \in S : plans[p].supersedes \subseteq S

\* What is reached from a plan holds it and what each of its plans supersedes,
\* and is the least set that does.
Reaches ==
  \A from \in Plans :
    /\ from \in Reached(from)
    /\ Reached(from) \subseteq Plans
    /\ Closed(Reached(from))
    /\ \A S : from \in S /\ Closed(S) => Reached(from) \subseteq S

LEMMA ReachedIs == TypeOK => Reaches
<1> SUFFICES ASSUME TypeOK, NEW from \in Plans
             PROVE  /\ from \in Reached(from)
                    /\ Reached(from) \subseteq Plans
                    /\ Closed(Reached(from))
                    /\ \A S : from \in S /\ Closed(S) => Reached(from) \subseteq S
  BY DEF Reaches
<1> DEFINE N == Cardinality(Plans)
<1>1. N \in Nat /\ IsFiniteSet(Plans)
  BY PlansAssumption, FS_CardinalityType
<1>2. PICK w : Within(w, from, N) /\ Reached(from) = w[N]
  BY ReachedWithin
<1>3. \A p \in Plans : plans[p].supersedes \subseteq Plans
  BY DEF TypeOK
<1> HIDE DEF N
<1>4. w[0] = {from} /\ \A n \in Nat : n + 1 <= N => w[n + 1] = w[n] \cup Onward(w[n])
  <2>1. \A n \in 0..N : w[n] = IF n = 0 THEN {from} ELSE w[n-1] \cup Onward(w[n-1])
    BY <1>2 DEF Within
  <2>2. ASSUME NEW n \in Nat, n + 1 <= N PROVE w[n + 1] = w[n] \cup Onward(w[n])
    <3>1. n + 1 \in 0..N /\ n + 1 # 0 /\ (n + 1) - 1 = n
      BY <1>1, <2>2
    <3> QED BY <2>1, <3>1
  <2>3. w[0] = {from}
    <3>1. 0 \in 0..N
      BY <1>1
    <3> QED BY <2>1, <3>1
  <2> QED BY <2>2, <2>3
<1>5. ASSUME NEW S, from \in S, Closed(S) PROVE \A n \in 0..N : w[n] \subseteq S
  <2> DEFINE T == {n \in Nat : n <= N => w[n] \subseteq S}
  <2>1. 0 \in T
    BY <1>4, <1>5
  <2>2. ASSUME NEW n \in Nat, n \in T PROVE n + 1 \in T
    BY <1>1, <1>4, <1>5, <2>2 DEF Closed, Onward
  <2>3. Nat \subseteq T
    <3> HIDE DEF T
    <3> QED BY <2>1, <2>2, Induction
  <2> QED BY <1>1, <2>3
<1>6. \A n \in 0..N : w[n] \subseteq Plans
  BY <1>3, <1>5 DEF Closed
<1>7. \A n \in 0..N : from \in w[n] /\ (Cardinality(w[n]) >= n + 1 \/ Closed(w[n]))
  <2> DEFINE T == {n \in Nat : n <= N =>
                     from \in w[n] /\ (Cardinality(w[n]) >= n + 1 \/ Closed(w[n]))}
  <2>1. 0 \in T
    <3>1. Cardinality(w[0]) = 1
      BY <1>4, FS_Singleton
    <3> QED BY <1>4, <3>1
  <2>2. ASSUME NEW n \in Nat, n \in T, n + 1 <= N, ~Closed(w[n + 1])
        PROVE  Cardinality(w[n + 1]) >= (n + 1) + 1
    <3>1. w[n + 1] = w[n] \cup Onward(w[n])
      BY <1>4, <2>2
    <3>2. ~Closed(w[n])
      BY <2>2, <3>1 DEF Closed, Onward
    <3>3. w[n] \subseteq w[n + 1] /\ w[n] # w[n + 1]
      BY <3>1, <3>2 DEF Closed, Onward
    <3>4. IsFiniteSet(w[n + 1])
      BY <1>1, <1>6, <2>2, FS_Subset
    <3>5. Cardinality(w[n]) <= Cardinality(w[n + 1]) /\ Cardinality(w[n]) # Cardinality(w[n + 1])
      BY <3>3, <3>4, FS_Subset
    <3>6. Cardinality(w[n]) \in Nat /\ Cardinality(w[n + 1]) \in Nat
      BY <3>3, <3>4, FS_Subset, FS_CardinalityType
    <3> QED BY <1>1, <2>2, <3>2, <3>5, <3>6
  <2>3. ASSUME NEW n \in Nat, n \in T PROVE n + 1 \in T
    BY <1>1, <1>4, <2>2, <2>3
  <2>4. Nat \subseteq T
    <3> HIDE DEF T
    <3> QED BY <2>1, <2>3, Induction
  <2> QED BY <1>1, <2>4
<1>8. Closed(w[N])
  <2>1. Cardinality(w[N]) <= N /\ Cardinality(w[N]) \in Nat
    BY <1>1, <1>6, FS_Subset, FS_CardinalityType DEF N
  <2> QED BY <1>1, <1>7, <2>1
<1> QED BY <1>1, <1>2, <1>5, <1>6, <1>7, <1>8

LEMMA ReachedNext == TypeOK' => Reaches'
BY ReachedIs, PTL

\* Links taken away, or left, reach no further, and no plan comes to supersede
\* itself through them.
LEMMA LinksLeft ==
  ASSUME IInv, IInv', \A p \in Plans : plans'[p].supersedes \subseteq plans[p].supersedes
  PROVE  /\ \A p \in Plans : Reached(p)' \subseteq Reached(p)
         /\ Cyclic' \subseteq Cyclic
<1>1. Reaches /\ Reaches'
  BY ReachedIs, ReachedNext DEF IInv
<1>2. ASSUME NEW p \in Plans PROVE Reached(p)' \subseteq Reached(p)
  <2>1. p \in Reached(p) /\ Reached(p) \subseteq Plans /\ Closed(Reached(p))
    BY <1>1 DEF Reaches
  <2> DEFINE S == Reached(p)
  <2>2. p \in S /\ \A q \in S : plans'[q].supersedes \subseteq S
    BY <2>1 DEF Closed
  <2> HIDE DEF S
  <2>3. Reached(p)' \subseteq S
    BY <1>1, <2>2 DEF Reaches, Closed
  <2> QED BY <2>3 DEF S
<1>3. \A p \in Plans : plans[p].supersedes \subseteq Plans
  BY DEF IInv, TypeOK
<1> QED BY <1>2, <1>3 DEF Cyclic, SupersedesReaches

\* By a link to a plan that does not reach the one linked, no plan comes to
\* supersede itself through others.
LEMMA LinkAdded ==
  ASSUME IInv, IInv', NEW plan \in Plans, NEW target \in Plans,
         plan \notin Reached(target),
         \A p \in Plans : plans'[p].supersedes =
           plans[p].supersedes \cup {t \in {target} : p = plan}
  PROVE  Cyclic' \subseteq Cyclic
<1>1. Reaches /\ Reaches'
  BY ReachedIs, ReachedNext DEF IInv
<1>0. \A p \in Plans : plans[p].supersedes \subseteq Plans
  BY DEF IInv, TypeOK
<1>2. ASSUME NEW q \in Plans, plan \notin Reached(q)
      PROVE  Reached(q)' \subseteq Reached(q)
  <2> DEFINE S == Reached(q)
  <2>1. q \in S /\ S \subseteq Plans /\ \A p \in S : plans[p].supersedes \subseteq S
    BY <1>1 DEF Reaches, Closed
  <2>2. \A p \in S : plans'[p].supersedes \subseteq S
    BY <1>2, <2>1
  <2> HIDE DEF S
  <2>3. Reached(q)' \subseteq S
    BY <1>1, <2>1, <2>2 DEF Reaches, Closed
  <2> QED BY <2>3 DEF S
<1>3. ASSUME NEW q \in Plans
      PROVE  Reached(q)' \subseteq Reached(q) \cup Reached(target)
  <2> DEFINE S == Reached(q) \cup Reached(target)
  <2>1. q \in S /\ target \in S /\ S \subseteq Plans
        /\ \A p \in S : plans[p].supersedes \subseteq S
    BY <1>1 DEF Reaches, Closed
  <2>2. \A p \in S : plans'[p].supersedes \subseteq S
    BY <2>1
  <2> HIDE DEF S
  <2>3. Reached(q)' \subseteq S
    BY <1>1, <2>1, <2>2 DEF Reaches, Closed
  <2> QED BY <2>3 DEF S
<1>4. ASSUME NEW p \in Plans, p \notin Cyclic, NEW q \in Plans, q \in plans[p].supersedes,
             p \in Reached(q)'
      PROVE  FALSE
  <2>1. p \notin Reached(q)
    BY <1>4 DEF Cyclic, SupersedesReaches
  <2>2. plan \in Reached(q) /\ p \in Reached(target)
    BY <1>2, <1>3, <1>4, <2>1
  <2>3. q \in Reached(target) /\ Closed(Reached(target))
    BY <1>1, <1>4, <2>2 DEF Reaches, Closed
  <2>4. Reached(q) \subseteq Reached(target)
    BY <1>1, <2>3 DEF Reaches
  <2> QED BY <2>2, <2>4
<1>5. plan \notin Reached(target)'
  BY <1>2
<1>6. \A p, q \in Plans : q \in plans'[p].supersedes =>
        q \in plans[p].supersedes \/ (p = plan /\ q = target)
  OBVIOUS
<1>7. \A p \in Plans : plans'[p].supersedes \subseteq Plans
  BY DEF IInv, TypeOK
<1> QED BY <1>4, <1>5, <1>6, <1>7 DEF Cyclic, SupersedesReaches

------------------------------------------------------------------------------
(* What a call judged stands, or what undid it was written beside it.       *)

\* What c's call read is so still, as far as nothing beside it undid it.
Judged(c) ==
  LET plan == call[c].plan
      target == call[c].target
      there == target \in plans[plan].supersedes
      marked == plans[target].superseded_by = plan IN
  /\ call[c].pc = "supersede" =>
       /\ plan \notin Reached(target) \/ "supersede" \in beside[c]
       /\ call[c].marked => marked \/ "reinstate" \in beside[c]
  /\ call[c].pc = "mark" => there \/ "unsupersede" \in beside[c]
  /\ call[c].pc = "unlink_marked" => call[c].linked \/ ~there \/ "supersede" \in beside[c]
  /\ call[c].pc = "unsupersede" =>
       /\ call[c].marked => marked \/ "reinstate" \in beside[c]
       /\ call[c].marked \/ ~marked \/ "mark" \in beside[c]
  /\ call[c].pc = "reinstate" =>
       /\ ~there \/ "supersede" \in beside[c]
       /\ marked \/ "reinstate" \in beside[c]

LinkInv == IInv /\ \A c \in Clients : Judged(c)

\* What c's answer, if this step gives it one, says of its link.
Whole(c) ==
  LET plan == call[c].plan
      target == call[c].target IN
  /\ Answered(c, "linked") /\ beside[c] \cap {"unsupersede", "reinstate"} = {} =>
       /\ target \in plans'[plan].supersedes
       /\ plans'[target].superseded_by = plan
  /\ Answered(c, "unlinked") /\ beside[c] \cap {"supersede", "mark"} = {} =>
       /\ target \notin plans'[plan].supersedes
       /\ plans'[target].superseded_by # plan
  /\ Answered(c, "unlinked") /\ call[c].pc = "reinstate" /\ "reinstate" \notin beside[c] =>
       plans[target].superseded_by = plan

\* A step that brings a plan to supersede itself is a link raced by another.
Raced ==
  \/ Cyclic' \subseteq Cyclic
  \/ \E c \in Clients :
       call[c].pc = "supersede" /\ call'[c] # call[c] /\ "supersede" \in beside[c]

\* A step does to links and marks no more than these kinds of writes do.
Does(kinds) ==
  \A p \in Plans :
    /\ plans'[p].supersedes \subseteq plans[p].supersedes \/ "supersede" \in kinds
    /\ plans[p].supersedes \subseteq plans'[p].supersedes \/ "unsupersede" \in kinds
    /\ \A q \in Plans :
         /\ plans[p].superseded_by = q =>
              plans'[p].superseded_by = q \/ "reinstate" \in kinds
         /\ plans'[p].superseded_by = q =>
              plans[p].superseded_by = q \/ "mark" \in kinds

\* Writes that do not link reach no further.
LEMMA DoesReach ==
  ASSUME IInv, IInv', NEW kinds, Does(kinds), "supersede" \notin kinds
  PROVE  (\A p \in Plans : Reached(p)' \subseteq Reached(p)) /\ Raced
<1>1. \A p \in Plans : plans'[p].supersedes \subseteq plans[p].supersedes
  BY DEF Does
<1> QED BY <1>1, LinksLeft DEF Raced

\* A call that stands by while these are written beside it stays judged.
LEMMA StillJudged ==
  ASSUME IInv, IInv', NEW d \in Clients, NEW kinds, Judged(d), Does(kinds),
         call'[d] = call[d],
         call[d].pc \notin {"idle", "link", "unlink"} => beside'[d] = beside[d] \cup kinds
  PROVE  Judged(d)'
<1> SUFFICES ASSUME call[d].pc \notin {"idle", "link", "unlink"} PROVE Judged(d)'
  BY DEF Judged
<1> DEFINE plan == call[d].plan
           target == call[d].target
<1>1. plan \in Plans /\ target \in Plans
  BY DEF IInv, CallsNamePlans
<1>2. \A k : k \in beside[d] \/ k \in kinds => k \in beside'[d]
  OBVIOUS
<1>3. /\ target \in plans'[plan].supersedes =>
           target \in plans[plan].supersedes \/ "supersede" \in kinds
      /\ target \in plans[plan].supersedes =>
           target \in plans'[plan].supersedes \/ "unsupersede" \in kinds
      /\ plans[target].superseded_by = plan =>
           plans'[target].superseded_by = plan \/ "reinstate" \in kinds
      /\ plans'[target].superseded_by = plan =>
           plans[target].superseded_by = plan \/ "mark" \in kinds
  BY <1>1 DEF Does
<1>4. Reached(target)' \subseteq Reached(target) \/ "supersede" \in kinds
  BY <1>1, DoesReach
<1> QED
  BY <1>2, <1>3, <1>4 DEF Judged

\* A step of c that writes these and leaves c's own call judged keeps every call so.
LEMMA Stepped ==
  ASSUME LinkInv, IInv', NEW c \in Clients, NEW kinds, NEW next,
         Does(kinds), Wrote(c, kinds), call' = [call EXCEPT ![c] = next],
         Judged(c)', Whole(c), "supersede" \in kinds => Raced
  PROVE  LinkInv' /\ (\A d \in Clients : Whole(d)) /\ Raced
<1>0. IInv /\ \A d \in Clients : Judged(d)
  BY DEF LinkInv
<1>1. \A d \in Clients \ {c} : call'[d] = call[d]
  BY <1>0 DEF IInv, TypeOK
<1>2. ASSUME NEW d \in Clients \ {c} PROVE Judged(d)' /\ Whole(d)
  <2>1. call[d].pc \notin {"idle", "link", "unlink"} => beside'[d] = beside[d] \cup kinds
    BY <1>1 DEF Wrote
  <2>2. Judged(d)'
    BY <1>0, <1>1, <2>1, StillJudged
  <2>3. Whole(d)
    BY <1>1 DEF Whole, Answered
  <2> QED BY <2>2, <2>3
<1>3. Raced
  BY <1>0, DoesReach
<1> QED BY <1>2, <1>3 DEF LinkInv

\* What c keeps beside itself as its own step goes.
LEMMA OwnBeside ==
  ASSUME NEW c \in Clients, NEW kinds, Wrote(c, kinds),
         call'[c].pc \notin {"idle", "link", "unlink"}
  PROVE  beside'[c] = beside[c]
BY DEF Wrote

\* Plans left as they are have nothing done to them.
LEMMA NothingDone ==
  ASSUME \A p \in Plans : /\ plans'[p].supersedes = plans[p].supersedes
                          /\ plans'[p].superseded_by = plans[p].superseded_by
  PROVE  Does({})
BY DEF Does

\* A call that ends has nothing left judged.
LEMMA EndedJudged ==
  ASSUME NEW c \in Clients, NEW said, IInv, Ends(c, said)
  PROVE  /\ Judged(c)'
         /\ call' = [call EXCEPT ![c] = Idle]
         /\ call'[c].pc = "idle"
         /\ answer'[c] = said
<1>1. call'[c] = Idle /\ answer'[c] = said /\ call' = [call EXCEPT ![c] = Idle]
  BY DEF Ends, IInv, TypeOK
<1> QED BY <1>1 DEF Judged, Idle

LEMMA GoneTo ==
  ASSUME NEW c \in Clients, NEW next, IInv, Goes(c, next)
  PROVE  call'[c] = next /\ call' = [call EXCEPT ![c] = next]
BY DEF Goes, IInv, TypeOK

\* A call that ends without an answer that it is done leaves nothing to be whole.
LEMMA EndedUndone ==
  ASSUME LinkInv, IInv', NEW c \in Clients, NEW said \in {"refused", "failed"},
         Ends(c, said), UNCHANGED plans, Wrote(c, {})
  PROVE  LinkInv' /\ (\A d \in Clients : Whole(d)) /\ Raced
<1>1. /\ Judged(c)' /\ call' = [call EXCEPT ![c] = Idle] /\ answer'[c] = said
  BY EndedJudged DEF LinkInv
<1>2. Whole(c)
  BY <1>1 DEF Whole, Answered
<1>3. Does({})
  BY NothingDone
<1> QED
  <2> DEFINE none == {}
             next == Idle
  <2>1. /\ Does(none) /\ Wrote(c, none) /\ call' = [call EXCEPT ![c] = next]
        /\ "supersede" \notin none
    BY <1>1, <1>3
  <2> HIDE DEF none, next
  <2> QED BY <1>1, <1>2, <2>1, Stepped

LEMMA NextLinkInv ==
  LinkInv /\ [Next]_vars => LinkInv' /\ (\A c \in Clients : Whole(c)) /\ Raced
<1> DEFINE Goal == LinkInv' /\ (\A c \in Clients : Whole(c)) /\ Raced
<1> SUFFICES ASSUME LinkInv, [Next]_vars PROVE Goal
  OBVIOUS
<1>0. IInv /\ IInv'
  BY NextIInv DEF LinkInv
<1>t. /\ plans \in [Plans -> PlanState]
      /\ call \in [Clients -> CallStates]
      /\ NoPlan \notin Plans
  BY <1>0, PlansAssumption DEF IInv, TypeOK, PlanState, CallStates
<1>j. \A c \in Clients : Judged(c)
  BY DEF LinkInv
<1>n. UNCHANGED plans => Does({}) /\ (\A p \in Plans : Reached(p)' \subseteq Reached(p)) /\ Raced
  BY <1>0, NothingDone, DoesReach
<1>s. ASSUME UNCHANGED <<call, beside>>,
             \A p \in Plans : /\ plans'[p].supersedes = plans[p].supersedes
                              /\ plans'[p].superseded_by = plans[p].superseded_by
      PROVE  Goal
  <2>1. Does({})
    BY <1>s, NothingDone
  <2>2. \A c \in Clients : Judged(c)'
    BY <1>0, <1>j, <1>s, <2>1, StillJudged
  <2>3. \A c \in Clients : Whole(c)
    BY <1>s DEF Whole, Answered
  <2>4. Raced
    BY <1>0, <2>1, DoesReach
  <2> QED BY <1>0, <2>2, <2>3, <2>4 DEF LinkInv
\* A step of c, writing nothing, on to what it has judged.
<1>g. ASSUME NEW c \in Clients, NEW next, UNCHANGED plans, Wrote(c, {}), Goes(c, next),
             Judged(c)', Whole(c)
      PROVE  Goal
  <2>1. call' = [call EXCEPT ![c] = next]
    BY <1>0, <1>g, GoneTo
  <2> DEFINE none == {}
  <2>2. Does(none) /\ Wrote(c, none) /\ "supersede" \notin none
    BY <1>g, <1>n
  <2> HIDE DEF none
  <2> QED BY <1>0, <1>g, <2>1, <2>2, Stepped
<1>1. CASE UNCHANGED vars
  BY <1>s, <1>1 DEF vars
<1>2. ASSUME NEW p \in Plans, NEW status \in Statuses,
             AddPlan(p, status) \/ SetPlanStatus(p, status)
      PROVE  Goal
  <2>1. UNCHANGED <<call, beside>>
    BY <1>2 DEF AddPlan, SetPlanStatus
  <2>2. CASE plans' = [plans EXCEPT ![p].added = TRUE, ![p].status = status]
    BY <1>t, <1>s, <2>1, <2>2 DEF PlanState
  <2>3. CASE plans' = [plans EXCEPT ![p].status = status]
    BY <1>t, <1>s, <2>1, <2>3 DEF PlanState
  <2> QED BY <1>2, <2>2, <2>3 DEF AddPlan, SetPlanStatus
<1>3. ASSUME NEW c \in Clients, NEW pc \in {"link", "unlink"}, NEW plan \in Plans,
             NEW target \in Plans, Begin(c, pc, plan, target)
      PROVE  Goal
  <2> DEFINE next == [Idle EXCEPT !.pc = pc, !.plan = plan, !.target = target]
  <2>1. /\ call'[c] = next /\ call' = [call EXCEPT ![c] = next]
        /\ UNCHANGED <<plans, beside>> /\ call[c].pc = "idle"
    BY <1>0, <1>3, GoneTo DEF Begin
  <2>2. call'[c].pc \in {"link", "unlink"}
    BY <2>1 DEF Idle
  <2> HIDE DEF next
  <2>3. \A d \in Clients \ {c} : call'[d] = call[d]
    BY <1>t, <2>1
  <2>4. \A d \in Clients : Judged(d)'
    <3>1. Judged(c)'
      BY <2>2 DEF Judged
    <3>2. ASSUME NEW d \in Clients \ {c} PROVE Judged(d)'
      BY <1>0, <1>j, <1>n, <2>1, <2>3, StillJudged
    <3> QED BY <3>1, <3>2
  <2>5. \A d \in Clients : Whole(d)
    BY <2>1, <2>2, <2>3 DEF Whole, Answered
  <2> QED BY <1>0, <1>n, <2>1, <2>4, <2>5 DEF LinkInv
<1>4. ASSUME NEW c \in Clients, LinkRead(c)
      PROVE  Goal
  <2> DEFINE plan == call[c].plan
             target == call[c].target
             linked == target \in plans[plan].supersedes
             by == plans[target].superseded_by
  <2>1. /\ UNCHANGED plans /\ Wrote(c, {}) /\ call[c].pc = "link"
        /\ plan \in Plans /\ target \in Plans
    BY <1>0, <1>4 DEF LinkRead, IInv, CallsNamePlans
  <2>2. CASE Ends(c, "refused")
    BY <1>0, <2>1, <2>2, EndedUndone
  <2>3. CASE ~Ends(c, "refused")
    <3> DEFINE next == [call[c] EXCEPT !.pc = IF linked THEN "mark" ELSE "supersede",
                                       !.marked = by # NoPlan]
    <3>1. /\ Goes(c, next)
          /\ plan \notin Reached(target)
          /\ by \in {NoPlan, plan}
      BY <1>4, <2>3 DEF LinkRead, ClosesCycle, SupersedesReaches
    <3>2. call'[c] = next
      BY <1>0, <3>1, GoneTo
    <3>3. /\ call'[c].plan = plan /\ call'[c].target = target
          /\ call'[c].pc = IF linked THEN "mark" ELSE "supersede"
          /\ call'[c].marked = (by # NoPlan)
      BY <1>t, <3>2 DEF CallStates
    <3>4. Judged(c)' /\ Whole(c)
      BY <1>n, <2>1, <3>1, <3>3 DEF Judged, Whole, Answered
    <3> HIDE DEF next
    <3> QED BY <1>g, <2>1, <3>1, <3>4
  <2> QED BY <2>2, <2>3
<1>5. ASSUME NEW c \in Clients, CommitSupersede(c)
      PROVE  Goal
  <2> DEFINE plan == call[c].plan
             target == call[c].target
  <2>1. call[c].pc = "supersede" /\ plan \in Plans /\ target \in Plans
    BY <1>0, <1>5 DEF CommitSupersede, IInv, CallsNamePlans
  <2>j. /\ plan \notin Reached(target) \/ "supersede" \in beside[c]
        /\ call[c].marked => plans[target].superseded_by = plan \/ "reinstate" \in beside[c]
    BY <1>j, <2>1 DEF Judged
  <2>2. CASE Ends(c, "refused") /\ UNCHANGED plans /\ Wrote(c, {})
    BY <1>0, <2>2, EndedUndone
  <2>3. CASE /\ plans' = [plans EXCEPT ![plan].supersedes = @ \cup {target}]
             /\ Wrote(c, {"supersede"})
             /\ IF call[c].marked THEN Ends(c, "linked") ELSE To(c, "mark")
    <3>1. \A p \in Plans :
            /\ plans'[p].supersedes = plans[p].supersedes \cup {t \in {target} : p = plan}
            /\ plans'[p].superseded_by = plans[p].superseded_by
      BY <1>t, <2>1, <2>3 DEF PlanState
    <3> DEFINE kinds == {"supersede"}
    <3>2. Does(kinds) /\ Wrote(c, kinds)
      BY <2>3, <3>1 DEF Does
    <3>3. target \in plans'[plan].supersedes
      BY <2>1, <3>1
    <3>4. PICK next : /\ call' = [call EXCEPT ![c] = next] /\ call'[c].pc # "supersede"
                      /\ Judged(c)' /\ Whole(c)
      <4>1. CASE call[c].marked
        <5>1. /\ Judged(c)' /\ answer'[c] = "linked" /\ call'[c].pc = "idle"
              /\ call' = [call EXCEPT ![c] = Idle]
          BY <1>0, <2>3, <4>1, EndedJudged
        <5>2. Whole(c)
          BY <2>1, <2>j, <3>1, <3>3, <4>1, <5>1 DEF Whole, Answered
        <5> QED BY <5>1, <5>2
      <4>2. CASE ~call[c].marked
        <5> DEFINE next == [call[c] EXCEPT !.pc = "mark"]
        <5>1. call'[c] = next /\ call' = [call EXCEPT ![c] = next]
          BY <1>0, <2>3, <4>2, GoneTo DEF To
        <5>2. call'[c].pc = "mark" /\ call'[c].plan = plan /\ call'[c].target = target
          BY <1>t, <5>1 DEF CallStates
        <5>3. Judged(c)' /\ Whole(c)
          BY <3>3, <5>1, <5>2 DEF Judged, Whole, Answered
        <5> QED BY <5>1, <5>2, <5>3
      <4> QED BY <4>1, <4>2
    <3>5. Raced
      <4>1. CASE "supersede" \in beside[c]
        BY <2>1, <3>4, <4>1 DEF Raced
      <4>2. CASE plan \notin Reached(target)
        <5> HIDE DEF plan, target
        <5> QED BY <1>0, <2>1, <3>1, <4>2, LinkAdded DEF Raced
      <4> QED BY <2>j, <4>1, <4>2
    <3> HIDE DEF kinds
    <3> QED BY <1>0, <3>2, <3>4, <3>5, Stepped
  <2> QED BY <1>5, <2>2, <2>3 DEF CommitSupersede
<1>6. ASSUME NEW c \in Clients, CommitMark(c)
      PROVE  Goal
  <2> DEFINE plan == call[c].plan
             target == call[c].target
  <2>1. call[c].pc = "mark" /\ plan \in Plans /\ target \in Plans
    BY <1>0, <1>6 DEF CommitMark, IInv, CallsNamePlans
  <2>j. target \in plans[plan].supersedes \/ "unsupersede" \in beside[c]
    BY <1>j, <2>1 DEF Judged
  <2>2. CASE Ends(c, "refused") /\ UNCHANGED plans /\ Wrote(c, {})
    BY <1>0, <2>2, EndedUndone
  <2>3. CASE /\ plans[target].status # "superseded"
             /\ plans' = [plans EXCEPT ![target] = Marked(@, plan)]
             /\ Ends(c, "linked")
             /\ Wrote(c, {"mark"})
    <3>1. /\ \A p \in Plans : plans'[p].supersedes = plans[p].supersedes
          /\ plans'[target].superseded_by = plan
          /\ \A p \in Plans \ {target} : plans'[p].superseded_by = plans[p].superseded_by
      BY <1>t, <2>1, <2>3 DEF PlanState, Marked
    <3>2. plans[target].superseded_by = NoPlan
      BY <1>0, <2>1, <2>3 DEF IInv, SupersededByOne
    <3> DEFINE kinds == {"mark"}
    <3>3. Does(kinds) /\ Wrote(c, kinds) /\ "supersede" \notin kinds
      BY <1>t, <2>3, <3>1, <3>2 DEF Does
    <3>4. Judged(c)' /\ answer'[c] = "linked" /\ call' = [call EXCEPT ![c] = Idle]
      BY <1>0, <2>3, EndedJudged
    <3>5. Whole(c)
      BY <2>1, <2>j, <3>1, <3>4 DEF Whole, Answered
    <3> HIDE DEF kinds
    <3> QED BY <1>0, <3>3, <3>4, <3>5, Stepped
  <2> QED BY <1>6, <2>2, <2>3 DEF CommitMark
<1>7. ASSUME NEW c \in Clients, UnlinkReadLinked(c)
      PROVE  Goal
  <2> DEFINE there == call[c].target \in plans[call[c].plan].supersedes
             next == [call[c] EXCEPT !.pc = "unlink_marked", !.linked = there]
  <2>1. UNCHANGED plans /\ Wrote(c, {}) /\ Goes(c, next) /\ call'[c] = next
    BY <1>0, <1>7, GoneTo DEF UnlinkReadLinked
  <2>2. /\ call'[c].pc = "unlink_marked" /\ call'[c].linked = there
        /\ call'[c].plan = call[c].plan /\ call'[c].target = call[c].target
    BY <1>t, <2>1 DEF CallStates
  <2>3. Judged(c)' /\ Whole(c)
    BY <2>1, <2>2 DEF Judged, Whole, Answered
  <2> HIDE DEF next
  <2> QED BY <1>g, <2>1, <2>3
<1>8. ASSUME NEW c \in Clients, UnlinkReadMarked(c)
      PROVE  Goal
  <2> DEFINE marked == plans[call[c].target].superseded_by = call[c].plan
             pc == IF call[c].linked THEN "unsupersede" ELSE "reinstate"
             next == [call[c] EXCEPT !.pc = pc, !.marked = marked]
  <2>1. UNCHANGED plans /\ Wrote(c, {}) /\ call[c].pc = "unlink_marked"
    BY <1>8 DEF UnlinkReadMarked
  <2>j. \/ call[c].linked
        \/ call[c].target \notin plans[call[c].plan].supersedes
        \/ "supersede" \in beside[c]
    BY <1>j, <2>1 DEF Judged
  <2>2. CASE Ends(c, "refused")
    BY <1>0, <2>1, <2>2, EndedUndone
  <2>3. CASE (call[c].linked \/ marked) /\ Goes(c, next)
    <3>1. call'[c] = next
      BY <1>0, <2>3, GoneTo
    <3>2. /\ call'[c].pc = pc /\ call'[c].marked = marked
          /\ call'[c].plan = call[c].plan /\ call'[c].target = call[c].target
      BY <1>t, <3>1 DEF CallStates
    <3>3. beside'[c] = beside[c]
      BY <2>1, <3>2, OwnBeside
    <3>4. Judged(c)' /\ Whole(c)
      BY <2>1, <2>j, <2>3, <3>2, <3>3 DEF Judged, Whole, Answered
    <3> HIDE DEF next
    <3> QED BY <1>g, <2>1, <2>3, <3>4
  <2> QED BY <1>8, <2>2, <2>3 DEF UnlinkReadMarked
<1>9. ASSUME NEW c \in Clients, CommitUnsupersede(c)
      PROVE  Goal
  <2> DEFINE plan == call[c].plan
             target == call[c].target
  <2>1. call[c].pc = "unsupersede" /\ plan \in Plans /\ target \in Plans
    BY <1>0, <1>9 DEF CommitUnsupersede, IInv, CallsNamePlans
  <2>j. /\ call[c].marked => plans[target].superseded_by = plan \/ "reinstate" \in beside[c]
        /\ call[c].marked \/ plans[target].superseded_by # plan \/ "mark" \in beside[c]
    BY <1>j, <2>1 DEF Judged
  <2>2. CASE Ends(c, "refused") /\ UNCHANGED plans /\ Wrote(c, {})
    BY <1>0, <2>2, EndedUndone
  <2>3. CASE /\ plans' = [plans EXCEPT ![plan].supersedes = @ \ {target}]
             /\ Wrote(c, {"unsupersede"})
             /\ IF call[c].marked THEN To(c, "reinstate") ELSE Ends(c, "unlinked")
    <3>1. /\ \A p \in Plans : /\ plans'[p].supersedes \subseteq plans[p].supersedes
                              /\ plans'[p].superseded_by = plans[p].superseded_by
          /\ target \notin plans'[plan].supersedes
      BY <1>t, <2>1, <2>3 DEF PlanState
    <3> DEFINE kinds == {"unsupersede"}
    <3>2. Does(kinds) /\ Wrote(c, kinds) /\ "supersede" \notin kinds
      BY <2>3, <3>1 DEF Does
    <3>3. PICK next : call' = [call EXCEPT ![c] = next] /\ Judged(c)' /\ Whole(c)
      <4>1. CASE ~call[c].marked
        <5>1. /\ Judged(c)' /\ answer'[c] = "unlinked" /\ call'[c].pc = "idle"
              /\ call' = [call EXCEPT ![c] = Idle]
          BY <1>0, <2>3, <4>1, EndedJudged
        <5>2. Whole(c)
          BY <2>1, <2>j, <3>1, <4>1, <5>1 DEF Whole, Answered
        <5> QED BY <5>1, <5>2
      <4>2. CASE call[c].marked
        <5> DEFINE next == [call[c] EXCEPT !.pc = "reinstate"]
        <5>1. call'[c] = next /\ call' = [call EXCEPT ![c] = next]
          BY <1>0, <2>3, <4>2, GoneTo DEF To
        <5>2. call'[c].pc = "reinstate" /\ call'[c].plan = plan /\ call'[c].target = target
          BY <1>t, <5>1 DEF CallStates
        <5>3. beside'[c] = beside[c]
          BY <3>2, <5>2, OwnBeside
        <5>4. Judged(c)' /\ Whole(c)
          BY <2>1, <2>j, <3>1, <4>2, <5>2, <5>3 DEF Judged, Whole, Answered
        <5> QED BY <5>1, <5>4
      <4> QED BY <4>1, <4>2
    <3> HIDE DEF kinds
    <3> QED BY <1>0, <3>2, <3>3, Stepped
  <2> QED BY <1>9, <2>2, <2>3 DEF CommitUnsupersede
<1>10. ASSUME NEW c \in Clients, CommitReinstate(c)
       PROVE  Goal
  <2> DEFINE plan == call[c].plan
             target == call[c].target
  <2>1. call[c].pc = "reinstate" /\ plan \in Plans /\ target \in Plans
    BY <1>0, <1>10 DEF CommitReinstate, IInv, CallsNamePlans
  <2>j. /\ target \notin plans[plan].supersedes \/ "supersede" \in beside[c]
        /\ plans[target].superseded_by = plan \/ "reinstate" \in beside[c]
    BY <1>j, <2>1 DEF Judged
  <2>2. CASE Ends(c, "refused") /\ UNCHANGED plans /\ Wrote(c, {})
    BY <1>0, <2>2, EndedUndone
  <2>3. CASE /\ plans' = [plans EXCEPT ![target] = Reinstated(@)]
             /\ Ends(c, "unlinked")
             /\ Wrote(c, {"reinstate"})
    <3>1. /\ \A p \in Plans : plans'[p].supersedes = plans[p].supersedes
          /\ plans'[target].superseded_by = NoPlan
          /\ \A p \in Plans \ {target} : plans'[p].superseded_by = plans[p].superseded_by
      BY <1>t, <2>1, <2>3 DEF PlanState, Reinstated
    <3> DEFINE kinds == {"reinstate"}
    <3>2. Does(kinds) /\ Wrote(c, kinds) /\ "supersede" \notin kinds
      BY <1>t, <2>3, <3>1 DEF Does
    <3>3. /\ Judged(c)' /\ answer'[c] = "unlinked"
          /\ call' = [call EXCEPT ![c] = Idle]
      BY <1>0, <2>3, EndedJudged
    <3>4. Whole(c)
      BY <1>t, <2>1, <2>j, <3>1, <3>3 DEF Whole, Answered
    <3> HIDE DEF kinds
    <3> QED BY <1>0, <3>2, <3>3, <3>4, Stepped
  <2> QED BY <1>10, <2>2, <2>3 DEF CommitReinstate
<1>11. ASSUME NEW c \in Clients, Fail(c)
       PROVE  Goal
  BY <1>0, <1>11, EndedUndone DEF Fail
<1> QED
  BY <1>1, <1>2, <1>3, <1>4, <1>5, <1>6, <1>7, <1>8, <1>9, <1>10, <1>11 DEF Next

LEMMA InitLinkInv == Init => LinkInv
<1> SUFFICES ASSUME Init PROVE LinkInv
  OBVIOUS
<1>1. \A c \in Clients : Judged(c)
  BY DEF Init, Idle, Judged
<1> QED BY <1>1, InitIInv DEF LinkInv

\* Whatever callers link and unlink at once, and fail between any two writes of
\* a call, a plan comes to supersede itself through others only by a link beside
\* which another was recorded since its plan list was read, however long the
\* chain is (closes_cycle, read once over the list).
THEOREM CyclesAreRaced == Spec => CyclesOnlyRaced
<1>1. LinkInv /\ [Next]_vars =>
        [\/ Cyclic' \subseteq Cyclic
         \/ \E c \in Clients :
              call[c].pc = "supersede" /\ call'[c] # call[c] /\ "supersede" \in beside[c]]_vars
  BY NextLinkInv DEF Raced
<1> QED
  BY <1>1, InitLinkInv, NextLinkInv, PTL DEF Spec, CyclesOnlyRaced

\* Whatever callers link and unlink at once, a link answered done is on both
\* plans unless another call undid it since this one read, and an unlink on
\* neither unless another linked, also where a call that failed half done went
\* before; an unlink takes back its own plan's mark (superseding and unlink).
THEOREM LinksAlwaysEndWhole == Spec => LinksEndWhole
<1>1. LinkInv /\ [Next]_vars =>
        [\A c \in Clients :
           LET plan == call[c].plan
               target == call[c].target IN
           /\ Answered(c, "linked") /\ beside[c] \cap {"unsupersede", "reinstate"} = {} =>
                /\ target \in plans'[plan].supersedes
                /\ plans'[target].superseded_by = plan
           /\ Answered(c, "unlinked") /\ beside[c] \cap {"supersede", "mark"} = {} =>
                /\ target \notin plans'[plan].supersedes
                /\ plans'[target].superseded_by # plan
           /\ Answered(c, "unlinked") /\ call[c].pc = "reinstate" /\ "reinstate" \notin beside[c] =>
                plans[target].superseded_by = plan]_vars
  BY NextLinkInv DEF Whole
<1> QED
  BY <1>1, InitLinkInv, NextLinkInv, PTL DEF Spec, LinksEndWhole
=============================================================================
