--------------------------- MODULE PlanFiles_proofs ---------------------------
(***************************************************************************)
(* For any plans, files, tags, calls and clients, interleaved and dying    *)
(* anywhere:                                                               *)
(*                                                                         *)
(*   - the plan list is what the plans' own streams hold, in both its      *)
(*     directions (ListIs: it is a function of the plans' states, kept by  *)
(*     each event of each stream);                                         *)
(*   - an import retires a tag only once the plan of the file it names     *)
(*     has been made to govern its task (ImportInv: what each import goes  *)
(*     by was so when it read it, and nothing takes an event back);        *)
(*   - plans' paths and files' are written as they are located (TypeInv:   *)
(*     what normalizing leaves it leaves again, so what is located is);    *)
(*   - a file has one plan, where one process adds or imports (OnceInv:    *)
(*     what it is about to record no other plan is recorded at, and what   *)
(*     an import has left and is recorded is a row it read).               *)
(***************************************************************************)
EXTENDS PlanFiles, SequenceTheorems, FiniteSetTheorems, WellFoundedInduction, TLAPS

IsStream(s) == s \in Seq({s[i] : i \in DOMAIN s})

EventTypes ==
  {"Add", "SetStatus", "Govern", "Ungovern", "Supersede", "Unsupersede", "MarkSuperseded",
   "Reinstate", "Rehash"}

\* A plan's stream begins with its adding, and adds it once.
StreamSound(s) ==
  /\ IsStream(s)
  /\ \A i \in DOMAIN s : s[i].type \in EventTypes /\ ((s[i].type = "Add") <=> (i = 1))

StreamsSound ==
  /\ streams = [p \in Plans |-> streams[p]]
  /\ \A p \in Plans : StreamSound(streams[p])

\* A plan has its fields, and governs nothing before it is added.
IsPlan(t) ==
  /\ t \in [added: BOOLEAN, status: {t.status}, path: {t.path}, hash: {t.hash},
            governs: {t.governs}, supersedes: {t.supersedes},
            superseded_by: {t.superseded_by}]
  /\ ~t.added => t = NotAdded

------------------------------------------------------------------------------
(* What a stream folds to.                                                  *)

LEMMA Induction ==
  ASSUME NEW T, 0 \in T, \A n \in Nat : n \in T => n + 1 \in T
  PROVE  Nat \subseteq T
<1> DEFINE R == {ss \in Nat \X Nat : ss[1] < ss[2]}
           Rest == Nat \ T
<1> SUFFICES ASSUME Rest # {} PROVE FALSE
  OBVIOUS
<1>1. IsWellFoundedOn(R, Nat)
  BY NatLessThanWellFounded DEF OpToRel
<1>2. PICK n \in Rest : \A m \in Rest : <<m, n>> \notin R
  <2> Rest \subseteq Nat
    OBVIOUS
  <2> HIDE DEF R, Rest
  <2> QED BY <1>1, WFMin
<1>3. n \in Nat /\ n # 0 /\ n - 1 \in Nat /\ (n - 1) + 1 = n
  BY <1>2
<1>4. n - 1 \in Rest
  BY <1>2, <1>3
<1>5. <<n - 1, n>> \in R
  BY <1>3
<1> QED BY <1>2, <1>4, <1>5

\* f[n] is what the first n of the events leave of a plan.
Folds(f, s, m) ==
  f = [n \in 0..m |-> IF n = 0 THEN NotAdded ELSE Apply(f[n-1], s[n])]

LEMMA FoldsExist == ASSUME NEW s PROVE \A m \in Nat : \E f : Folds(f, s, m)
<1> DEFINE T == {m \in Nat : \E f : Folds(f, s, m)}
<1>1. 0 \in T
  <2>1. Folds([n \in 0..0 |-> NotAdded], s, 0)
    BY DEF Folds
  <2> QED BY <2>1
<1>2. ASSUME NEW m \in Nat, m \in T PROVE m + 1 \in T
  <2>1. PICK f : Folds(f, s, m)
    BY <1>2
  <2> DEFINE on == Apply(f[m], s[m + 1])
             g == [n \in 0..(m + 1) |-> IF n <= m THEN f[n] ELSE on]
  <2>2. (\A n \in 0..m : g[n] = f[n]) /\ g[m + 1] = on
    OBVIOUS
  <2>3. g = [n \in 0..(m + 1) |-> g[n]]
    OBVIOUS
  <2>4. \A n \in 0..m : f[n] = IF n = 0 THEN NotAdded ELSE Apply(f[n-1], s[n])
    BY <2>1 DEF Folds
  <2> HIDE DEF g
  <2>5. ASSUME NEW n \in 0..(m + 1)
        PROVE  g[n] = IF n = 0 THEN NotAdded ELSE Apply(g[n-1], s[n])
    <3>1. CASE n = m + 1
      <4>1. n # 0 /\ n - 1 = m /\ m \in 0..m
        BY <3>1
      <4> QED BY <2>2, <3>1, <4>1
    <3>2. CASE n \in 0..m
      <4>1. n # 0 => n - 1 \in 0..m
        BY <3>2
      <4> QED BY <2>2, <2>4, <3>2, <4>1
    <3> QED BY <3>1, <3>2
  <2>6. Folds(g, s, m + 1)
    BY <2>3, <2>5 DEF Folds
  <2> QED BY <2>6
<1>3. Nat \subseteq T
  <2> HIDE DEF T
  <2> QED BY <1>1, <1>2, Induction
<1> QED BY <1>3

LEMMA StateIs ==
  ASSUME NEW s, Len(s) \in Nat
  PROVE  \E f : /\ StateOf(s) = f[Len(s)]
               /\ f[0] = NotAdded
               /\ \A n \in Nat : n + 1 <= Len(s) => f[n + 1] = Apply(f[n], s[n + 1])
<1>1. \E f : Folds(f, s, Len(s))
  BY FoldsExist
<1>2. PICK f : Folds(f, s, Len(s)) /\ StateOf(s) = f[Len(s)]
  BY <1>1 DEF StateOf, Folds
<1>3. PICK m \in Nat : m = Len(s)
  OBVIOUS
<1>4. \A n \in 0..m : f[n] = IF n = 0 THEN NotAdded ELSE Apply(f[n-1], s[n])
  BY <1>2, <1>3 DEF Folds
<1>5. f[0] = NotAdded
  <2>1. 0 \in 0..m
    OBVIOUS
  <2> QED BY <1>4, <2>1
<1>6. ASSUME NEW n \in Nat, n + 1 <= m PROVE f[n + 1] = Apply(f[n], s[n + 1])
  <2>1. n + 1 \in 0..m /\ n + 1 # 0 /\ (n + 1) - 1 = n
    BY <1>6
  <2> QED BY <1>4, <2>1
<1> QED BY <1>2, <1>3, <1>5, <1>6

\* What one event makes of a plan.
LEMMA AppliedPlan ==
  ASSUME NEW t, IsPlan(t), NEW e, e.type \in EventTypes,
         e.type = "Add" => ~t.added, e.type # "Add" => t.added
  PROVE  /\ IsPlan(Apply(t, e)) /\ Apply(t, e).added
         /\ Apply(t, e).path = IF e.type = "Add" THEN e.path ELSE t.path
         /\ e.type # "Rehash" =>
              Apply(t, e).hash = IF e.type = "Add" THEN e.hash ELSE t.hash
         /\ \A x \in Apply(t, e).governs : x \in t.governs \/ (e.type = "Govern" /\ e.task = x)
<1>1. CASE e.type = "Add"
  BY <1>1 DEF Apply, IsPlan, NotAdded
<1>2. CASE e.type \in {"SetStatus", "MarkSuperseded", "Reinstate"}
  BY <1>2 DEF Apply, IsPlan
<1>3. CASE e.type \in {"Supersede", "Unsupersede"}
  BY <1>3 DEF Apply, IsPlan
<1>4. CASE e.type \in {"Govern", "Ungovern"}
  BY <1>4 DEF Apply, IsPlan
<1>5. CASE e.type = "Rehash"
  BY <1>5 DEF Apply, IsPlan
<1> QED BY <1>1, <1>2, <1>3, <1>4, <1>5 DEF EventTypes

LEMMA NotAddedIs ==
  IsPlan(NotAdded) /\ ~NotAdded.added /\ NotAdded.governs = {}
BY DEF IsPlan, NotAdded

\* A plan's state, told from its events.
StateTold(s, t) ==
  /\ IsPlan(t)
  /\ t.added <=> s # <<>>
  /\ s # <<>> => t.path = s[1].path
  /\ \A x \in t.governs : \E i \in DOMAIN s : s[i].type = "Govern" /\ s[i].task = x
  /\ s # <<>> /\ (\A i \in DOMAIN s : s[i].type # "Rehash") => t.hash = s[1].hash

LEMMA StateFacts ==
  ASSUME NEW s, StreamSound(s) PROVE StateTold(s, StateOf(s))
<1>1. PICK L \in Nat : L = Len(s) /\ DOMAIN s = 1..L /\ ((s = <<>>) <=> L = 0)
  <2>1. Len(s) \in Nat /\ DOMAIN s = 1..Len(s)
    BY DEF StreamSound, IsStream
  <2>2. (s = <<>>) <=> Len(s) = 0
    BY EmptySeq DEF StreamSound, IsStream
  <2> QED BY <2>1, <2>2
<1>2. PICK f : /\ StateOf(s) = f[L]
               /\ f[0] = NotAdded
               /\ \A n \in Nat : n + 1 <= L => f[n + 1] = Apply(f[n], s[n + 1])
  <2>1. \E f : /\ StateOf(s) = f[Len(s)]
              /\ f[0] = NotAdded
              /\ \A n \in Nat : n + 1 <= Len(s) => f[n + 1] = Apply(f[n], s[n + 1])
    BY <1>1, StateIs
  <2> QED BY <1>1, <2>1
<1> DEFINE Told(n) ==
             /\ IsPlan(f[n])
             /\ f[n].added <=> n # 0
             /\ n # 0 => f[n].path = s[1].path
             /\ \A x \in f[n].governs : \E i \in 1..n : s[i].type = "Govern" /\ s[i].task = x
             /\ n # 0 /\ (\A i \in 1..n : s[i].type # "Rehash") => f[n].hash = s[1].hash
           T == {n \in Nat : n <= L => Told(n)}
<1>3. 0 \in T
  BY <1>2, NotAddedIs
<1>4. ASSUME NEW n \in Nat, n \in T, n + 1 <= L PROVE Told(n + 1)
  <2>1. /\ Told(n) /\ n + 1 \in DOMAIN s
        /\ f[n + 1] = Apply(f[n], s[n + 1])
    BY <1>1, <1>2, <1>4
  <2>2. PICK e : e = s[n + 1]
    OBVIOUS
  <2>3. e.type \in EventTypes /\ ((e.type = "Add") <=> (n = 0))
    BY <2>1, <2>2 DEF StreamSound
  <2>4. /\ IsPlan(f[n + 1]) /\ f[n + 1].added
        /\ f[n + 1].path = IF e.type = "Add" THEN e.path ELSE f[n].path
        /\ e.type # "Rehash" =>
             f[n + 1].hash = IF e.type = "Add" THEN e.hash ELSE f[n].hash
        /\ \A x \in f[n + 1].governs : x \in f[n].governs \/ (e.type = "Govern" /\ e.task = x)
    BY <2>1, <2>2, <2>3, AppliedPlan
  <2>5. (1..(n + 1)) = (1..n) \cup {n + 1}
    OBVIOUS
  <2>6. f[n + 1].path = s[1].path
    BY <2>1, <2>2, <2>3, <2>4
  <2>7. \A x \in f[n + 1].governs :
          \E i \in 1..(n + 1) : s[i].type = "Govern" /\ s[i].task = x
    BY <2>1, <2>2, <2>4, <2>5
  <2>8. (\A i \in 1..(n + 1) : s[i].type # "Rehash") => f[n + 1].hash = s[1].hash
    BY <2>1, <2>2, <2>3, <2>4, <2>5
  <2> QED BY <2>4, <2>6, <2>7, <2>8
<1>5. Told(L)
  <2>1. \A n \in Nat : n \in T => n + 1 \in T
    <3> HIDE DEF Told
    <3> QED BY <1>4
  <2>2. Nat \subseteq T
    <3> HIDE DEF T
    <3> QED BY <1>3, <2>1, Induction
  <2> HIDE DEF Told
  <2> QED BY <2>2
<1> QED BY <1>1, <1>2, <1>5 DEF StateTold

LEMMA AppendedEvent ==
  ASSUME NEW s, IsStream(s), NEW e
  PROVE  /\ IsStream(Append(s, e))
         /\ Len(s) \in Nat /\ Len(Append(s, e)) = Len(s) + 1
         /\ DOMAIN s = 1..Len(s) /\ DOMAIN Append(s, e) = 1..(Len(s) + 1)
         /\ \A i \in 1..Len(s) : Append(s, e)[i] = s[i]
         /\ Append(s, e)[Len(s) + 1] = e
         /\ (s = <<>>) <=> (Len(s) = 0)
<1> DEFINE S == {s[i] : i \in DOMAIN s} \cup {e}
           t == Append(s, e)
<1>1. s \in Seq(S)
  BY DEF IsStream
<1>2. /\ t \in Seq(S) /\ Len(t) = Len(s) + 1
      /\ \A i \in 1..Len(s) : t[i] = s[i]
      /\ t[Len(s) + 1] = e
  BY <1>1, AppendProperties
<1>3. DOMAIN s = 1..Len(s) /\ DOMAIN t = 1..(Len(s) + 1) /\ Len(s) \in Nat
  BY <1>1, <1>2
<1>4. IsStream(t)
  <2>1. \A i \in 1..Len(t) : t[i] \in {t[j] : j \in DOMAIN t}
    BY <1>2, <1>3
  <2> QED BY <1>2, <1>3, <2>1, IsASeq DEF IsStream
<1>5. (s = <<>>) <=> (Len(s) = 0)
  BY <1>1, EmptySeq
<1> QED BY <1>2, <1>3, <1>4, <1>5

------------------------------------------------------------------------------
(* The list, as a function of the plans' states.                            *)

\* The list of the plans S has the states of.
ListFor(S) ==
  [rows |-> [q \in {r \in DOMAIN S : S[r].added} |-> S[q]],
   governing |-> [t \in UNION {S[q].governs : q \in DOMAIN S} |->
                    {q \in DOMAIN S : t \in S[q].governs}]]

\* States of the plans of D.
IsStates(S, D) ==
  /\ S = [q \in D |-> S[q]]
  /\ \A q \in D : IsPlan(S[q])

LEMMA GoverningFor ==
  ASSUME NEW S, NEW D, IsStates(S, D), NEW t
  PROVE  GoverningIn(ListFor(S), t) = {q \in D : t \in S[q].governs}
<1>1. DOMAIN S = D
  BY DEF IsStates
<1>2. CASE t \in UNION {S[q].governs : q \in D}
  BY <1>1, <1>2 DEF GoverningIn, ListFor
<1>3. CASE t \notin UNION {S[q].governs : q \in D}
  BY <1>1, <1>3 DEF GoverningIn, ListFor
<1> QED BY <1>2, <1>3

\* One event of one plan's stream.
MayHappen(e, t) ==
  /\ e.type \in EventTypes
  /\ e.type = "Add" => ~t.added
  /\ e.type # "Add" => t.added
Happens(N, S, p, e) == N = [S EXCEPT ![p] = Apply(S[p], e)]

LEMMA ListedStep ==
  ASSUME NEW S, NEW D, IsStates(S, D), NEW p \in D, NEW e, MayHappen(e, S[p]),
         NEW N, Happens(N, S, p, e)
  PROVE  IsStates(N, D) /\ Listed(ListFor(S), p, e) = ListFor(N)
<1> N = [S EXCEPT ![p] = Apply(S[p], e)]
  BY DEF Happens
<1>0. /\ e.type \in EventTypes
      /\ e.type = "Add" => ~S[p].added
      /\ e.type # "Add" => S[p].added
  BY DEF MayHappen
<1>1. /\ DOMAIN S = D /\ DOMAIN N = D /\ N = [q \in D |-> N[q]]
      /\ N[p] = Apply(S[p], e) /\ \A q \in D : q # p => N[q] = S[q]
  BY DEF IsStates
<1>2. IsPlan(S[p]) /\ IsPlan(N[p]) /\ N[p].added
  BY <1>0, <1>1, AppliedPlan DEF IsStates
<1>3. IsStates(N, D)
  BY <1>1, <1>2 DEF IsStates
<1>4. PICK R, A, B :
        /\ R = {r \in D : S[r].added}
        /\ A = UNION {S[q].governs : q \in D} /\ B = UNION {N[q].governs : q \in D}
  OBVIOUS
<1>5. PICK rows, gov, rowsN, govN :
        /\ rows = [q \in R |-> S[q]] /\ gov = [t \in A |-> {q \in D : t \in S[q].governs}]
        /\ rowsN = [q \in R \cup {p} |-> N[q]]
        /\ govN = [t \in B |-> {q \in D : t \in N[q].governs}]
  OBVIOUS
<1>6. PICK list : list = ListFor(S)
  OBVIOUS
<1>7. /\ list = [rows |-> rows, governing |-> gov]
      /\ ListFor(N) = [rows |-> rowsN, governing |-> govN]
  <2>1. {r \in D : N[r].added} = R \cup {p}
    BY <1>1, <1>2, <1>4
  <2> QED BY <1>1, <1>4, <1>5, <1>6, <2>1 DEF ListFor
<1>8. /\ DOMAIN gov = A /\ gov = [t \in A |-> gov[t]]
      /\ DOMAIN govN = B /\ govN = [t \in B |-> govN[t]]
      /\ DOMAIN rows = R /\ rowsN = [q \in R \cup {p} |-> IF q = p THEN N[p] ELSE rows[q]]
  <2>1. \A q \in R \cup {p} : N[q] = IF q = p THEN N[p] ELSE rows[q]
    BY <1>1, <1>4, <1>5
  <2> QED BY <1>5, <2>1
<1>9. CASE e.type = "Add"
  <2>1. S[p] = NotAdded
    BY <1>0, <1>2, <1>9 DEF IsPlan
  <2>2. N[p] = [NotAdded EXCEPT !.added = TRUE, !.status = e.status, !.path = e.path,
                                !.hash = e.hash]
    BY <1>1, <1>9, <2>1 DEF Apply
  <2>3. N[p].governs = S[p].governs
    <3>1. PICK x : x = NotAdded
      OBVIOUS
    <3>2. "governs" \in DOMAIN x
      BY <3>1 DEF NotAdded
    <3>3. N[p] = [x EXCEPT !.added = TRUE, !.status = e.status, !.path = e.path, !.hash = e.hash]
      BY <2>2, <3>1
    <3>4. N[p].governs = x.governs
      BY <3>2, <3>3
    <3> QED BY <2>1, <3>1, <3>4
  <2>4. govN = gov
    <3>1. \A q \in D : N[q].governs = S[q].governs
      BY <1>1, <2>3
    <3>2. A = B /\ \A t : {q \in D : t \in N[q].governs} = {q \in D : t \in S[q].governs}
      BY <1>4, <3>1
    <3> QED BY <1>5, <3>2
  <2>5. rowsN = With(rows, p, N[p])
    BY <1>8 DEF With
  <2>6. Listed(list, p, e) = [list EXCEPT !.rows = With(rows, p, N[p])]
    BY <1>7, <1>9, <2>2 DEF Listed
  <2> QED BY <1>3, <1>6, <1>7, <2>4, <2>5, <2>6
<1>10. ASSUME e.type # "Add"
       PROVE  p \in DOMAIN list.rows /\ rows[p] = S[p] /\ rowsN = [rows EXCEPT ![p] = N[p]]
  <2>1. p \in R /\ R \cup {p} = R
    BY <1>0, <1>4, <1>10
  <2>2. rows = [q \in R |-> rows[q]]
    BY <1>5
  <2> QED BY <1>5, <1>7, <1>8, <2>1, <2>2
<1>11. \A t : GoverningIn(list, t) = {q \in D : t \in S[q].governs}
  BY <1>6, GoverningFor
<1>12. CASE e.type = "Govern"
  <2>1. N[p] = [S[p] EXCEPT !.governs = @ \cup {e.task}]
    BY <1>1, <1>12 DEF Apply
  <2>2. N[p].governs = S[p].governs \cup {e.task}
    BY <1>2, <2>1 DEF IsPlan
  <2>3. PICK by : by = {q \in D : e.task \in S[q].governs} \cup {p}
    OBVIOUS
  <2>4. B = A \cup {e.task}
    BY <1>1, <1>4, <2>2
  <2>5. ASSUME NEW t \in B PROVE govN[t] = IF t = e.task THEN by ELSE gov[t]
    <3>1. govN[t] = {q \in D : t \in N[q].governs}
      BY <1>5
    <3>2. CASE t = e.task
      BY <1>1, <2>2, <2>3, <3>1, <3>2
    <3>3. CASE t # e.task
      <4>1. gov[t] = {q \in D : t \in S[q].governs}
        BY <1>5, <2>4, <3>3
      <4> QED BY <1>1, <2>2, <3>1, <3>3, <4>1
    <3> QED BY <3>2, <3>3
  <2>6. govN = With(gov, e.task, by)
    BY <1>8, <2>4, <2>5 DEF With
  <2>7. Listed(list, p, e) =
          [list EXCEPT !.rows[p].governs = @ \cup {e.task},
                       !.governing = With(@, e.task, by)]
    BY <1>10, <1>11, <1>12, <2>3 DEF Listed
  <2>8. Listed(list, p, e) = [rows |-> [rows EXCEPT ![p] = N[p]], governing |-> govN]
    <3>1. list.rows = rows /\ list.governing = gov /\ rows[p] = S[p]
      BY <1>7, <1>10, <1>12
    <3>2. Listed(list, p, e) = [[list EXCEPT !.rows = [rows EXCEPT ![p] = N[p]]] EXCEPT
                                  !.governing = govN]
      BY <2>1, <2>6, <2>7, <3>1
    <3> QED BY <1>7, <3>2
  <2> QED BY <1>3, <1>6, <1>7, <1>10, <1>12, <2>8
<1>13. CASE e.type = "Ungovern"
  <2>1. N[p] = [S[p] EXCEPT !.governs = @ \ {e.task}]
    BY <1>1, <1>13 DEF Apply
  <2>2. N[p].governs = S[p].governs \ {e.task}
    BY <1>2, <2>1 DEF IsPlan
  <2>3. PICK left : left = {q \in D : e.task \in S[q].governs} \ {p}
    OBVIOUS
  <2>4. \A q \in D : e.task \in N[q].governs <=> q \in left
    BY <1>1, <2>2, <2>3
  <2>5. B = IF left = {} THEN A \ {e.task} ELSE A \cup {e.task}
    <3>1. \A t : t # e.task => (t \in A <=> t \in B)
      BY <1>1, <1>4, <2>2
    <3>2. e.task \in B <=> left # {}
      BY <1>4, <2>3, <2>4
    <3> QED BY <3>1, <3>2
  <2>6. ASSUME NEW t \in B PROVE govN[t] = IF t = e.task THEN left ELSE gov[t]
    <3>1. govN[t] = {q \in D : t \in N[q].governs}
      BY <1>5
    <3>2. CASE t = e.task
      BY <2>3, <2>4, <3>1, <3>2
    <3>3. CASE t # e.task
      <4>1. t \in A
        BY <2>5, <3>3
      <4>2. gov[t] = {q \in D : t \in S[q].governs}
        BY <1>5, <4>1
      <4> QED BY <1>1, <2>2, <3>1, <3>3, <4>2
    <3> QED BY <3>2, <3>3
  <2>7. govN = IF left = {} THEN Without(gov, e.task) ELSE With(gov, e.task, left)
    <3>1. CASE left = {}
      <4>1. B = A \ {e.task} /\ \A t \in B : govN[t] = gov[t]
        BY <2>5, <2>6, <3>1
      <4>2. govN = [t \in A \ {e.task} |-> gov[t]]
        BY <1>8, <4>1
      <4> QED BY <1>8, <3>1, <4>2 DEF Without
    <3>2. CASE left # {}
      BY <1>8, <2>5, <2>6, <3>2 DEF With
    <3> QED BY <3>1, <3>2
  <2>8. Listed(list, p, e) = Ungoverned(list, p, e.task)
    BY <1>10, <1>13 DEF Listed
  <2>9. left = GoverningIn(list, e.task) \ {p}
    BY <1>11, <2>3
  <2>10. Ungoverned(list, p, e.task) =
           [list EXCEPT !.rows[p].governs = @ \ {e.task},
                        !.governing = IF left = {} THEN Without(@, e.task)
                                      ELSE With(@, e.task, left)]
    BY <2>9 DEF Ungoverned
  <2>11. Listed(list, p, e) = [rows |-> [rows EXCEPT ![p] = N[p]], governing |-> govN]
    <3>1. list.rows = rows /\ list.governing = gov /\ rows[p] = S[p]
      BY <1>7, <1>10, <1>13
    <3>2. Listed(list, p, e) = [[list EXCEPT !.rows = [rows EXCEPT ![p] = N[p]]] EXCEPT
                                  !.governing = govN]
      BY <2>1, <2>7, <2>8, <2>10, <3>1
    <3> QED BY <1>7, <3>2
  <2> QED BY <1>3, <1>6, <1>7, <1>10, <1>13, <2>11
<1>14. CASE e.type \in EventTypes \ {"Add", "Govern", "Ungovern"}
  <2>1. N[p].governs = S[p].governs
    BY <1>1, <1>2, <1>14 DEF Apply, EventTypes, IsPlan
  <2>2. govN = gov
    <3>1. \A q \in D : N[q].governs = S[q].governs
      BY <1>1, <2>1
    <3>2. A = B /\ \A t : {q \in D : t \in N[q].governs} = {q \in D : t \in S[q].governs}
      BY <1>4, <3>1
    <3> QED BY <1>5, <3>2
  <2>3. Listed(list, p, e) = [list EXCEPT !.rows[p] = Apply(@, e)]
    BY <1>10, <1>14 DEF Listed
  <2>4. Listed(list, p, e) = [rows |-> [rows EXCEPT ![p] = N[p]], governing |-> gov]
    BY <1>1, <1>7, <1>10, <1>14, <2>3
  <2> QED BY <1>3, <1>6, <1>7, <1>10, <1>14, <2>2, <2>4
<1> QED BY <1>0, <1>9, <1>12, <1>13, <1>14

WithNew(W, S, d, p) ==
  W = [q \in d \cup {p} |-> IF q = p THEN NotAdded ELSE S[q]]

\* A plan not added is not in the list.
LEMMA Unlisted ==
  ASSUME NEW S, NEW d, IsStates(S, d), NEW p, p \notin d,
         NEW W, WithNew(W, S, d, p)
  PROVE  IsStates(W, d \cup {p}) /\ ListFor(W) = ListFor(S)
<1> W = [q \in d \cup {p} |-> IF q = p THEN NotAdded ELSE S[q]]
  BY DEF WithNew
<1>1. /\ DOMAIN S = d /\ DOMAIN W = d \cup {p} /\ W = [q \in d \cup {p} |-> W[q]]
      /\ W[p] = NotAdded /\ \A q \in d : W[q] = S[q]
  BY DEF IsStates
<1>2. IsStates(W, d \cup {p})
  BY <1>1, NotAddedIs DEF IsStates
<1>3. PICK R, Q, A, B :
        /\ R = {r \in d : S[r].added} /\ Q = {r \in d \cup {p} : W[r].added}
        /\ A = UNION {S[q].governs : q \in d} /\ B = UNION {W[q].governs : q \in d \cup {p}}
  OBVIOUS
<1>4. Q = R
  BY <1>1, <1>3, NotAddedIs
<1>5. B = A
  <2>1. ASSUME NEW t \in B PROVE t \in A
    <3>1. PICK q \in d \cup {p} : t \in W[q].governs
      BY <1>3
    <3>2. q \in d /\ t \in S[q].governs
      BY <1>1, <3>1, NotAddedIs
    <3> QED BY <1>3, <3>2
  <2>2. ASSUME NEW t \in A PROVE t \in B
    <3>1. PICK q \in d : t \in S[q].governs
      BY <1>3
    <3>2. t \in W[q].governs
      BY <1>1, <3>1
    <3> QED BY <1>3, <3>2
  <2> QED BY <2>1, <2>2
<1>6. \A t : {q \in d \cup {p} : t \in W[q].governs} = {q \in d : t \in S[q].governs}
  BY <1>1, NotAddedIs
<1>7. [q \in Q |-> W[q]] = [q \in R |-> S[q]]
  BY <1>1, <1>3, <1>4
<1>8. [t \in B |-> {q \in d \cup {p} : t \in W[q].governs}]
        = [t \in A |-> {q \in d : t \in S[q].governs}]
  BY <1>5, <1>6
<1>9. /\ ListFor(W) = [rows |-> [q \in Q |-> W[q]],
                       governing |-> [t \in B |-> {q \in d \cup {p} : t \in W[q].governs}]]
      /\ ListFor(S) = [rows |-> [q \in R |-> S[q]],
                       governing |-> [t \in A |-> {q \in d : t \in S[q].governs}]]
  BY <1>1, <1>3 DEF ListFor
<1> QED BY <1>2, <1>7, <1>8, <1>9

\* A stream's events, one by one.
StatesAlong(f, s, L) ==
  /\ StateOf(s) = f[L]
  /\ f[0] = NotAdded
  /\ \A n \in Nat : n + 1 <= L =>
       /\ f[n + 1] = Apply(f[n], s[n + 1])
       /\ s[n + 1].type \in EventTypes
       /\ s[n + 1].type = "Add" => ~f[n].added
       /\ s[n + 1].type # "Add" => f[n].added

LEMMA StatesStep ==
  ASSUME NEW s, StreamSound(s) PROVE \E f : StatesAlong(f, s, Len(s))
<1>1. PICK L \in Nat : L = Len(s) /\ DOMAIN s = 1..L
  BY DEF StreamSound, IsStream
<1>2. PICK f : /\ StateOf(s) = f[L]
               /\ f[0] = NotAdded
               /\ \A n \in Nat : n + 1 <= L => f[n + 1] = Apply(f[n], s[n + 1])
  <2>1. \E f : /\ StateOf(s) = f[Len(s)]
              /\ f[0] = NotAdded
              /\ \A n \in Nat : n + 1 <= Len(s) => f[n + 1] = Apply(f[n], s[n + 1])
    BY <1>1, StateIs
  <2> QED BY <1>1, <2>1
<1> DEFINE T == {n \in Nat : n <= L => IsPlan(f[n]) /\ (f[n].added <=> n # 0)}
<1>3. 0 \in T
  BY <1>2, NotAddedIs
<1>4. ASSUME NEW n \in Nat, n + 1 <= L
      PROVE  s[n + 1].type \in EventTypes /\ ((s[n + 1].type = "Add") <=> (n = 0))
  <2>1. n + 1 \in DOMAIN s
    BY <1>1, <1>4
  <2> QED BY <2>1 DEF StreamSound
<1>5. ASSUME NEW n \in Nat, n \in T, n + 1 <= L
      PROVE  IsPlan(f[n + 1]) /\ (f[n + 1].added <=> n + 1 # 0)
  <2>1. IsPlan(f[n]) /\ (f[n].added <=> n # 0) /\ f[n + 1] = Apply(f[n], s[n + 1])
    BY <1>2, <1>5
  <2>2. PICK e : e = s[n + 1]
    OBVIOUS
  <2>3. e.type \in EventTypes /\ ((e.type = "Add") <=> (n = 0))
    BY <1>4, <1>5, <2>2
  <2>4. IsPlan(Apply(f[n], e)) /\ Apply(f[n], e).added
    BY <2>1, <2>3, AppliedPlan
  <2> QED BY <2>1, <2>2, <2>4
<1>6. Nat \subseteq T
  <2>1. \A n \in Nat : n \in T => n + 1 \in T
    BY <1>5
  <2> HIDE DEF T
  <2> QED BY <1>3, <2>1, Induction
<1>7. \A n \in Nat : n <= L => (f[n].added <=> n # 0)
  BY <1>6
<1>8. StatesAlong(f, s, L)
  BY <1>2, <1>4, <1>7 DEF StatesAlong
<1> QED BY <1>1, <1>8

Catches(N, S, p, s) == N = [S EXCEPT ![p] = StateOf(s)]

LEMMA ListedAllIs ==
  ASSUME NEW S, NEW D, IsStates(S, D), NEW p \in D, S[p] = NotAdded,
         NEW s, StreamSound(s), NEW N, Catches(N, S, p, s)
  PROVE  IsStates(N, D) /\ ListedAll(ListFor(S), p, s) = ListFor(N)
<1> N = [S EXCEPT ![p] = StateOf(s)]
  BY DEF Catches
<1>1. PICK L \in Nat : L = Len(s)
  BY DEF StreamSound, IsStream
<1>2. PICK f : StatesAlong(f, s, L)
  BY <1>1, StatesStep
<1> DEFINE At(n) == [S EXCEPT ![p] = f[n]]
           W == [n \in 0..L |-> ListFor(At(n))]
           F(g) == g = [n \in 0..L |-> IF n = 0 THEN ListFor(S) ELSE Listed(g[n-1], p, s[n])]
           T == {n \in Nat : n <= L => IsStates(At(n), D)}
<1>3. At(0) = S
  <2>1. f[0] = S[p] /\ S = [q \in D |-> S[q]]
    BY <1>2 DEF StatesAlong, IsStates
  <2> QED BY <2>1
<1>4. ASSUME NEW n \in Nat, n \in T, n + 1 <= L
      PROVE  IsStates(At(n + 1), D) /\ Listed(ListFor(At(n)), p, s[n + 1]) = ListFor(At(n + 1))
  <2>1. PICK X, Y, e : X = At(n) /\ Y = At(n + 1) /\ e = s[n + 1]
    OBVIOUS
  <2>2. IsStates(X, D)
    BY <1>4, <2>1
  <2>3. S = [q \in D |-> S[q]]
    BY DEF IsStates
  <2>4. X[p] = f[n] /\ f[n + 1] = Apply(f[n], e)
    BY <1>2, <1>4, <2>1, <2>3 DEF StatesAlong
  <2>5. Happens(Y, X, p, e)
    BY <2>1, <2>3, <2>4 DEF Happens
  <2>6. MayHappen(e, X[p])
    BY <1>2, <1>4, <2>1, <2>4 DEF StatesAlong, MayHappen
  <2> HIDE DEF At
  <2>7. IsStates(Y, D) /\ Listed(ListFor(X), p, e) = ListFor(Y)
    BY <2>2, <2>5, <2>6, ListedStep
  <2> QED BY <2>1, <2>7
<1>5. Nat \subseteq T
  <2>1. 0 \in T
    BY <1>3
  <2>2. \A n \in Nat : n \in T => n + 1 \in T
    <3> HIDE DEF At
    <3> QED BY <1>4
  <2> HIDE DEF T
  <2> QED BY <2>1, <2>2, Induction
<1>6. \A n \in Nat : n + 1 <= L => Listed(ListFor(At(n)), p, s[n + 1]) = ListFor(At(n + 1))
  <2> HIDE DEF At, T
  <2> QED BY <1>4, <1>5
<1> HIDE DEF At
<1>7. F(W)
  <2>1. ASSUME NEW n \in 0..L
        PROVE  W[n] = IF n = 0 THEN ListFor(S) ELSE Listed(W[n-1], p, s[n])
    <3>1. CASE n = 0
      BY <1>3, <3>1
    <3>2. CASE n # 0
      <4>1. n - 1 \in Nat /\ (n - 1) + 1 = n /\ (n - 1) + 1 <= L /\ n - 1 \in 0..L
        BY <3>2
      <4>2. Listed(ListFor(At(n - 1)), p, s[(n - 1) + 1]) = ListFor(At((n - 1) + 1))
        BY <1>6, <4>1
      <4> QED BY <3>2, <4>1, <4>2
    <3> QED BY <3>1, <3>2
  <2> QED BY <2>1
<1>8. PICK g : F(g) /\ ListedAll(ListFor(S), p, s) = g[L]
  <2>1. \E g : F(g)
    BY <1>7
  <2> QED BY <1>1, <2>1 DEF ListedAll
<1>9. \A n \in 0..L : g[n] = IF n = 0 THEN ListFor(S) ELSE Listed(g[n-1], p, s[n])
  BY <1>8
<1> DEFINE U == {n \in Nat : n <= L => g[n] = ListFor(At(n))}
<1>10. 0 \in U
  <2>1. 0 \in 0..L
    OBVIOUS
  <2> QED BY <1>3, <1>9, <2>1
<1>11. ASSUME NEW n \in Nat, n \in U, n + 1 <= L PROVE g[n + 1] = ListFor(At(n + 1))
  <2>1. n + 1 \in 0..L /\ n + 1 # 0 /\ (n + 1) - 1 = n
    BY <1>11
  <2>2. g[n + 1] = Listed(g[n], p, s[n + 1])
    BY <1>9, <2>1
  <2> QED BY <1>6, <1>11, <2>2
<1>12. Nat \subseteq U
  <2>1. \A n \in Nat : n \in U => n + 1 \in U
    BY <1>11
  <2> HIDE DEF U
  <2> QED BY <1>10, <2>1, Induction
<1>13. g[L] = ListFor(At(L)) /\ IsStates(At(L), D)
  BY <1>5, <1>12
<1>14. At(L) = N
  BY <1>2 DEF StatesAlong, At
<1> QED BY <1>8, <1>13, <1>14

StatesIn(ss, d) == [q \in d |-> StateOf(ss[q])]

LEMMA PlanListed ==
  ASSUME NEW ss, NEW d, NEW p, p \notin d, \A q \in d \cup {p} : StreamSound(ss[q])
  PROVE  ListedAll(ListFor(StatesIn(ss, d)), p, ss[p]) = ListFor(StatesIn(ss, d \cup {p}))
<1>1. PICK S : S = StatesIn(ss, d)
  OBVIOUS
<1>2. PICK W : W = [q \in d \cup {p} |-> IF q = p THEN NotAdded ELSE S[q]]
  OBVIOUS
<1>3. PICK N : N = StatesIn(ss, d \cup {p})
  OBVIOUS
<1>4. /\ S = [q \in d |-> S[q]] /\ \A q \in d : S[q] = StateOf(ss[q])
      /\ \A q \in d : IsPlan(S[q])
  BY <1>1, StateFacts DEF StatesIn, StateTold
<1>5. IsStates(S, d) /\ WithNew(W, S, d, p)
  BY <1>2, <1>4 DEF IsStates, WithNew
<1>6. IsStates(W, d \cup {p}) /\ ListFor(W) = ListFor(S)
  BY <1>5, Unlisted
<1>7. W[p] = NotAdded /\ StreamSound(ss[p])
  BY <1>2
<1>8. Catches(N, W, p, ss[p])
  <2>1. [W EXCEPT ![p] = StateOf(ss[p])]
          = [q \in d \cup {p} |-> IF q = p THEN StateOf(ss[p]) ELSE W[q]]
    BY <1>2
  <2>2. \A q \in d \cup {p} : StateOf(ss[q]) = IF q = p THEN StateOf(ss[p]) ELSE W[q]
    BY <1>2, <1>4
  <2>3. N = [q \in d \cup {p} |-> StateOf(ss[q])]
    BY <1>3 DEF StatesIn
  <2>4. [q \in d \cup {p} |-> StateOf(ss[q])]
          = [q \in d \cup {p} |-> IF q = p THEN StateOf(ss[p]) ELSE W[q]]
    BY <2>2, Zenon
  <2> QED BY <2>1, <2>3, <2>4 DEF Catches
<1>9. p \in d \cup {p}
  OBVIOUS
<1>10. ListedAll(ListFor(W), p, ss[p]) = ListFor(N)
  BY <1>6, <1>7, <1>8, <1>9, ListedAllIs
<1> QED BY <1>1, <1>3, <1>6, <1>10

\* The plans, each once.
LEMMA PlansInOrder ==
  LET order == SetToSeq(Plans) IN
  /\ Len(order) \in Nat /\ order \in [1..Len(order) -> Plans]
  /\ \A i, j \in 1..Len(order) : order[i] = order[j] => i = j
  /\ \A p \in Plans : \E i \in 1..Len(order) : order[i] = p
<1>1. PICK n \in Nat : n = Cardinality(Plans)
  BY PlanNamesAssumption, FS_CardinalityType
<1>2. \E f \in [1..n -> Plans] : IsInjective(f)
  <2>1. ExistsBijection(1..n, Plans)
    BY <1>1, PlanNamesAssumption, FS_CardinalityType
  <2> QED BY <2>1 DEF ExistsBijection, Bijection, Injection
<1>3. PICK order : order = SetToSeq(Plans)
  OBVIOUS
<1>4. order \in [1..n -> Plans] /\ IsInjective(order)
  BY <1>1, <1>2, <1>3 DEF SetToSeq
<1>5. order \in Seq(Plans) /\ DOMAIN order = 1..n
  <2>1. order = [i \in 1..n |-> order[i]] /\ \A i \in 1..n : order[i] \in Plans
    BY <1>4
  <2>2. [i \in 1..n |-> order[i]] \in Seq(Plans)
    BY <2>1, IsASeq
  <2> QED BY <2>1, <2>2
<1>6. Len(order) = n
  BY <1>5
<1>7. IsFiniteSet(1..n) /\ Cardinality(1..n) = n
  BY FS_Interval
<1>8. order \in Injection(1..n, Plans)
  BY <1>4 DEF Injection
<1>9. order \in Surjection(1..n, Plans)
  BY <1>1, <1>7, <1>8, PlanNamesAssumption, FS_Injection
<1>10. \A p \in Plans : \E i \in 1..n : order[i] = p
  BY <1>9 DEF Surjection
<1> QED BY <1>3, <1>4, <1>6, <1>10 DEF IsInjective

\* The list is that of the states the plans' streams hold.
LEMMA ListIs ==
  ASSUME NEW ss, \A p \in Plans : StreamSound(ss[p])
  PROVE  ListOf(ss) = ListFor(StatesIn(ss, Plans))
<1>1. PICK order : order = SetToSeq(Plans)
  OBVIOUS
<1>2. PICK N \in Nat : N = Len(order)
  BY <1>1, PlansInOrder
<1>3. /\ order \in [1..N -> Plans]
      /\ \A i, j \in 1..N : order[i] = order[j] => i = j
      /\ \A p \in Plans : \E i \in 1..N : order[i] = p
  BY <1>1, <1>2, PlansInOrder
<1> DEFINE D(n) == {order[i] : i \in 1..n}
           At(n) == ListFor(StatesIn(ss, D(n)))
           W == [n \in 0..N |-> At(n)]
           F(g) == g = [n \in 0..N |-> IF n = 0 THEN EmptyList
                                       ELSE ListedAll(g[n-1], order[n], ss[order[n]])]
<1>4. At(0) = EmptyList
  <2>1. D(0) = {}
    OBVIOUS
  <2> HIDE DEF D
  <2>2. PICK S : S = StatesIn(ss, D(0))
    OBVIOUS
  <2>3. DOMAIN S = {}
    BY <2>1, <2>2 DEF StatesIn
  <2>4. {r \in DOMAIN S : S[r].added} = {} /\ UNION {S[q].governs : q \in DOMAIN S} = {}
    BY <2>3
  <2>5. ListFor(S) = [rows |-> [q \in {} |-> S[q]],
                      governing |-> [t \in {} |-> {q \in DOMAIN S : t \in S[q].governs}]]
    BY <2>4 DEF ListFor
  <2>6. [q \in {} |-> S[q]] = [p \in {} |-> NotAdded]
    OBVIOUS
  <2>7. [t \in {} |-> {q \in DOMAIN S : t \in S[q].governs}] = [t \in {} |-> {}]
    OBVIOUS
  <2> QED BY <2>2, <2>5, <2>6, <2>7 DEF EmptyList
<1>5. ASSUME NEW n \in Nat, n + 1 <= N
      PROVE  ListedAll(At(n), order[n + 1], ss[order[n + 1]]) = At(n + 1)
  <2>1. PICK p : p = order[n + 1]
    OBVIOUS
  <2>2. n + 1 \in 1..N /\ p \in Plans /\ D(n) \subseteq Plans
    BY <1>3, <1>5, <2>1
  <2>3. p \notin D(n)
    BY <1>3, <1>5, <2>1, <2>2
  <2>4. D(n + 1) = D(n) \cup {p}
    <3>1. 1..(n + 1) = (1..n) \cup {n + 1}
      OBVIOUS
    <3> QED BY <2>1, <3>1
  <2>5. \A q \in D(n) \cup {p} : StreamSound(ss[q])
    BY <2>2
  <2> HIDE DEF D
  <2> QED BY <2>1, <2>3, <2>4, <2>5, PlanListed
<1> HIDE DEF D, At
<1>6. F(W)
  <2>1. ASSUME NEW n \in 0..N
        PROVE  W[n] = IF n = 0 THEN EmptyList ELSE ListedAll(W[n-1], order[n], ss[order[n]])
    <3>1. CASE n = 0
      BY <1>4, <3>1
    <3>2. CASE n # 0
      <4>1. n - 1 \in Nat /\ (n - 1) + 1 = n /\ (n - 1) + 1 <= N /\ n - 1 \in 0..N
        BY <3>2
      <4>2. ListedAll(At(n - 1), order[(n - 1) + 1], ss[order[(n - 1) + 1]]) = At((n - 1) + 1)
        BY <1>5, <4>1
      <4> QED BY <3>2, <4>1, <4>2
    <3> QED BY <3>1, <3>2
  <2> QED BY <2>1
<1>7. PICK g : F(g) /\ ListOf(ss) = g[N]
  <2>1. \E g : F(g)
    BY <1>6
  <2> QED BY <1>1, <1>2, <2>1 DEF ListOf
<1>8. \A n \in 0..N : g[n] = IF n = 0 THEN EmptyList
                             ELSE ListedAll(g[n-1], order[n], ss[order[n]])
  BY <1>7
<1> DEFINE U == {n \in Nat : n <= N => g[n] = At(n)}
<1>9. 0 \in U
  <2>1. 0 \in 0..N
    OBVIOUS
  <2> QED BY <1>4, <1>8, <2>1
<1>10. ASSUME NEW n \in Nat, n \in U, n + 1 <= N PROVE g[n + 1] = At(n + 1)
  <2>1. n + 1 \in 0..N /\ n + 1 # 0 /\ (n + 1) - 1 = n
    BY <1>10
  <2>2. g[n + 1] = ListedAll(g[n], order[n + 1], ss[order[n + 1]])
    BY <1>8, <2>1
  <2> QED BY <1>5, <1>10, <2>2
<1>11. Nat \subseteq U
  <2>1. \A n \in Nat : n \in U => n + 1 \in U
    BY <1>10
  <2> HIDE DEF U
  <2> QED BY <1>9, <2>1, Induction
<1>12. D(N) = Plans
  BY <1>3 DEF D
<1> QED BY <1>7, <1>11, <1>12 DEF At

------------------------------------------------------------------------------
(* What a commit leaves of the streams.                                     *)

\* t is s with what followed it.
Grown(s, t) == DOMAIN s \subseteq DOMAIN t /\ \A i \in DOMAIN s : t[i] = s[i]

LEMMA SoundMay ==
  ASSUME NEW t, NEW p, NEW m, Refusal(t, p, m) = "sound"
  PROVE  IF m.type = "Add" THEN ~t.added ELSE t.added
BY DEF Refusal

\* An event recorded follows the plan's others, or is its adding.
LEMMA Appends ==
  ASSUME NEW s, StreamSound(s), NEW p, NEW m, m.type \in EventTypes,
         Refusal(StateOf(s), p, m) = "sound"
  PROVE  /\ StreamSound(Append(s, m)) /\ Grown(s, Append(s, m))
         /\ \E i \in DOMAIN Append(s, m) : Append(s, m)[i] = m
<1>1. PICK n \in Nat : n = Len(s)
  BY DEF StreamSound, IsStream
<1>2. PICK t : t = Append(s, m)
  OBVIOUS
<1>3. /\ IsStream(t) /\ DOMAIN s = 1..n /\ DOMAIN t = 1..(n + 1)
      /\ \A i \in 1..n : t[i] = s[i]
      /\ t[n + 1] = m
      /\ (s = <<>>) <=> (n = 0)
  BY <1>1, <1>2, AppendedEvent DEF StreamSound
<1>4. (m.type = "Add") <=> (n = 0)
  <2>1. StateOf(s).added <=> s # <<>>
    BY StateFacts DEF StateTold
  <2> QED BY <1>3, <2>1, SoundMay
<1>5. ASSUME NEW i \in DOMAIN t
      PROVE  t[i].type \in EventTypes /\ ((t[i].type = "Add") <=> (i = 1))
  <2>1. CASE i = n + 1
    BY <1>3, <1>4, <2>1
  <2>2. CASE i \in 1..n
    BY <1>3, <2>2 DEF StreamSound
  <2> QED BY <1>3, <2>1, <2>2
<1> QED BY <1>2, <1>3, <1>5 DEF StreamSound, Grown

LEMMA Commits ==
  ASSUME StreamsSound, NEW p, NEW m, m.type \in EventTypes, Committed(p, m)
  PROVE  /\ StreamsSound' /\ \A q \in Plans : Grown(streams[q], streams'[q])
         /\ p \in Plans /\ Sound(p, m) =>
              \E i \in DOMAIN streams'[p] : streams'[p][i] = m
<1>1. CASE ~Sound(p, m) \/ p \notin Plans
  <2>1. streams' = streams
    BY <1>1 DEF Committed, StreamsSound
  <2> QED BY <1>1, <2>1 DEF StreamsSound, Grown
<1>2. CASE Sound(p, m) /\ p \in Plans
  <2>1. /\ StreamSound(Append(streams[p], m)) /\ Grown(streams[p], Append(streams[p], m))
        /\ \E i \in DOMAIN Append(streams[p], m) : Append(streams[p], m)[i] = m
    BY <1>2, Appends DEF Sound, State, StreamsSound
  <2>2. /\ streams' = [q \in Plans |-> streams'[q]]
        /\ streams'[p] = Append(streams[p], m)
        /\ \A q \in Plans : q # p => streams'[q] = streams[q]
    <3>1. streams' = [streams EXCEPT ![p] = Append(streams[p], m)]
      BY <1>2 DEF Committed
    <3>2. streams = [q \in Plans |-> streams[q]]
      BY DEF StreamsSound
    <3> QED BY <1>2, <3>1, <3>2
  <2>3. ASSUME NEW q \in Plans PROVE StreamSound(streams'[q]) /\ Grown(streams[q], streams'[q])
    <3>1. CASE q = p
      BY <2>1, <2>2, <3>1
    <3>2. CASE q # p
      BY <2>2, <3>2 DEF StreamsSound, Grown
    <3> QED BY <3>1, <3>2
  <2> QED BY <2>1, <2>2, <2>3 DEF StreamsSound
<1> QED BY <1>1, <1>2

LEMMA StreamsSoundFirst == Init => StreamsSound
<1> SUFFICES ASSUME Init PROVE StreamsSound
  OBVIOUS
<1>1. streams = [p \in Plans |-> <<>>]
  BY DEF Init
<1>2. StreamSound(<<>>)
  BY IsASeq DEF StreamSound, IsStream
<1> QED BY <1>1, <1>2 DEF StreamsSound

LEMMA StreamsStep ==
  ASSUME StreamsSound, [Next]_vars
  PROVE  StreamsSound' /\ \A q \in Plans : Grown(streams[q], streams'[q])
<1>1. ASSUME streams' = streams
      PROVE  StreamsSound' /\ \A q \in Plans : Grown(streams[q], streams'[q])
  BY <1>1 DEF StreamsSound, Grown
<1>2. CASE OtherCommand
  <2>1. PICK e \in Elsewhere :
          /\ Refusal(State(e.plan), e.plan, e.command) = "sound"
          /\ streams' = [streams EXCEPT ![e.plan] = Append(@, e.command)]
    BY <1>2 DEF OtherCommand
  <2>2. e.command.type \in EventTypes
    BY PlanFilesAssumption DEF EventTypes
  <2>3. Committed(e.plan, e.command)
    BY <2>1 DEF Committed, Sound
  <2> QED BY <2>2, <2>3, Commits
<1>3. CASE \E c \in Clients : AddCommit(c) \/ ImportRegister(c)
  <2>1. PICK c \in Clients : \E status : Committed(call[c].plan, AddCommand(c, status))
    BY <1>3 DEF AddCommit, ImportRegister
  <2>2. PICK status : Committed(call[c].plan, AddCommand(c, status))
    BY <2>1
  <2>3. PICK m : m = AddCommand(c, status)
    OBVIOUS
  <2>4. m.type = "Add"
    BY <2>3 DEF AddCommand
  <2> QED BY <2>2, <2>3, <2>4, Commits DEF EventTypes
<1>4. CASE \E c \in Clients : AddGovern(c) \/ ImportJoin(c)
  <2>1. PICK p, t : Committed(p, [type |-> "Govern", task |-> t])
    BY <1>4 DEF AddGovern, ImportJoin
  <2>2. PICK m : m = [type |-> "Govern", task |-> t]
    OBVIOUS
  <2> QED BY <2>1, <2>2, Commits DEF EventTypes
<1>5. CASE \E c \in Clients : LinkCommit(c)
  <2>1. PICK p, m : m.type \in {"Govern", "Ungovern"} /\ Committed(p, m)
    <3>1. PICK c \in Clients : LinkCommit(c)
      BY <1>5
    <3>2. PICK m : m = [type |-> IF call[c].pc = "link" THEN "Govern" ELSE "Ungovern",
                        task |-> First(call[c].tasks)]
      OBVIOUS
    <3>3. Committed(call[c].plan, m)
      BY <3>1, <3>2 DEF LinkCommit
    <3>4. m.type \in {"Govern", "Ungovern"}
      BY <3>2
    <3> QED BY <3>3, <3>4
  <2> QED BY <2>1, Commits DEF EventTypes
<1>6. CASE \E c \in Clients : ReadRehash(c)
  <2>1. PICK p, hash : Committed(p, [type |-> "Rehash", hash |-> hash])
    BY <1>6 DEF ReadRehash
  <2> QED BY <2>1, Commits DEF EventTypes
<1>7. CASE Edit \/ (\E t \in Tasks : PruneTask(t)) \/ UNCHANGED vars
  BY <1>1, <1>7 DEF Edit, PruneTask, vars
<1>8. CASE \E c \in Clients :
             \/ Begin(c) \/ Dies(c) \/ AddLook(c) \/ AddExhausted(c) \/ AddCreate(c)
             \/ ReadRows(c) \/ ReadFile(c) \/ ReadGoverned(c) \/ ReadEnds(c)
  <2>1. streams' = streams
    BY <1>8 DEF Begin, Dies, AddLook, AddExhausted, AddCreate, ReadRows, ReadFile,
       ReadGoverned, ReadEnds
  <2> QED BY <1>1, <2>1
<1>9. CASE \E c \in Clients :
             \/ Governing(c) \/ ImportTagged(c) \/ ImportList(c) \/ ImportGroup(c)
             \/ ImportCopy(c) \/ ImportUntag(c) \/ ImportEnds(c)
  <2>1. streams' = streams
    BY <1>9 DEF Governing, ImportTagged, ImportList, ImportGroup, ImportCopy, ImportUntag,
       ImportEnds
  <2> QED BY <1>1, <2>1
<1> QED BY <1>2, <1>3, <1>4, <1>5, <1>6, <1>7, <1>8, <1>9 DEF Next

------------------------------------------------------------------------------
(* The list.                                                                *)

LEMMA ListStands ==
  ASSUME StreamsSound
  PROVE  /\ List = ListFor(StatesIn(streams, Plans))
         /\ IsStates(StatesIn(streams, Plans), Plans)
         /\ \A p \in Plans : StatesIn(streams, Plans)[p] = State(p)
<1>1. \A p \in Plans : StreamSound(streams[p])
  BY DEF StreamsSound
<1>2. List = ListFor(StatesIn(streams, Plans))
  BY <1>1, ListIs DEF List
<1>3. \A p \in Plans : IsPlan(StateOf(streams[p]))
  BY <1>1, StateFacts DEF StateTold
<1> QED BY <1>2, <1>3 DEF IsStates, StatesIn, State

LEMMA ListAgreed == ASSUME StreamsSound PROVE ListAgrees
<1>1. PICK S : S = StatesIn(streams, Plans)
  OBVIOUS
<1>2. /\ List = ListFor(S) /\ IsStates(S, Plans) /\ DOMAIN S = Plans
      /\ \A p \in Plans : S[p] = State(p)
  BY <1>1, ListStands DEF IsStates
<1>3. /\ DOMAIN List.rows = {p \in Plans : S[p].added}
      /\ \A p \in DOMAIN List.rows : List.rows[p] = S[p]
      /\ DOMAIN List.governing = UNION {S[p].governs : p \in Plans}
      /\ \A t \in DOMAIN List.governing : List.governing[t] = {p \in Plans : t \in S[p].governs}
  BY <1>2 DEF ListFor
<1>4. \A t : GoverningIn(List, t) = {p \in Plans : t \in S[p].governs}
  BY <1>2, GoverningFor
<1>5. {p \in Plans : S[p].added} = {p \in Plans : Holds(p)}
  BY <1>2 DEF Holds
<1>6. \A p \in DOMAIN List.rows : List.rows[p] = State(p)
  BY <1>2, <1>3
<1>7. \A t : GoverningIn(List, t) = {p \in Plans : t \in State(p).governs}
  BY <1>2, <1>4
<1>8. \A t \in DOMAIN List.governing : List.governing[t] # {}
  BY <1>3
<1> QED BY <1>3, <1>5, <1>6, <1>7, <1>8 DEF ListAgrees

\* After any calls, commands and deaths the plan list holds every plan added,
\* as its own stream has it, and for each task exactly the plans that govern
\* it: the two directions of `governs` never part (projection.rs).
THEOREM ListAlwaysAgrees == Spec => []ListAgrees
<1>1. Init => StreamsSound
  BY StreamsSoundFirst
<1>2. StreamsSound /\ [Next]_vars => StreamsSound'
  BY StreamsStep
<1>3. StreamsSound => ListAgrees
  BY ListAgreed
<1> QED BY <1>1, <1>2, <1>3, PTL DEF Spec

------------------------------------------------------------------------------
(* Imports.  What a call goes by, of the streams ss.                        *)

HasGoverned(ss, p, t) ==
  \E i \in DOMAIN ss[p] : ss[p][i].type = "Govern" /\ ss[p][i].task = t

\* Plan p was added for the file at path, or for a copy of it.
RecordedAt(ss, p, path) ==
  /\ ss[p] # <<>>
  /\ IF path.outside THEN UnderPlansDir(ss[p][1].path) ELSE ss[p][1].path = path

IsCall(k) ==
  k \in [pc : {k.pc}, op : {k.op}, plan : {k.plan}, path : {k.path}, text : {k.text},
         tasks : {k.tasks}, rows : {k.rows}, left : {k.left}, group : {k.group},
         found : {k.found}]

\* A group holds tags that name its file.
GroupSound(g) ==
  /\ g \in [path : {g.path}, text : {g.text}, tags : {g.tags}]
  /\ g.tags # {}
  /\ \A tv \in g.tags : Located(tv[2]) = g.path

\* The rows were so once.
RowSound(row, p, ss) ==
  /\ p \in Plans /\ ss[p] # <<>> /\ row.path = ss[p][1].path
  /\ \A t \in row.governs : HasGoverned(ss, p, t)
RowsSound(rows, ss) == \A p \in DOMAIN rows : RowSound(rows[p], p, ss)

\* A group's plan is the one of its file, and its tasks are governed, or will.
Joins(k, ss) ==
  /\ k.plan \in Plans /\ RecordedAt(ss, k.plan, k.group.path)
  /\ \A tv \in k.group.tags :
       (k.pc = "join" /\ tv[1] \in k.tasks) \/ HasGoverned(ss, k.plan, tv[1])
  /\ k.pc = "join" => k.tasks # {}

Importing == {"list", "group", "copy", "register", "join", "untag"}

CallSound(k, ss) ==
  /\ IsCall(k)
  /\ k.pc \in Importing => \A g \in k.left : GroupSound(g)
  /\ k.pc \in Importing \ {"list"} => RowsSound(k.rows, ss)
  /\ k.pc \in Importing \ {"list", "group"} => GroupSound(k.group)
  /\ k.pc \in {"copy", "register"} =>
       /\ k.plan \in Plans
       /\ IF k.group.path.outside THEN UnderPlansDir(k.path) ELSE k.path = k.group.path
  /\ k.pc \in {"join", "untag"} => Joins(k, ss)

\* What a value v retired from task t's tags leaves behind.
Told(ss, t, v) ==
  \E p \in Plans : HasGoverned(ss, p, t) /\ RecordedAt(ss, p, Located(v))

CallsSound == call = [c \in Clients |-> call[c]] /\ \A c \in Clients : CallSound(call[c], streams)

TagsTold ==
  \A t \in DOMAIN tags : \A v \in TagsAtFirst[t] \ tags[t] : Told(streams, t, v)

ImportInv == StreamsSound /\ CallsSound /\ TagsTold

LEMMA ToldTagOrLink == TagsTold => TagOrLink
BY DEF TagsTold, TagOrLink, Told, HasGoverned, RecordedAt, AddOf

\* Nothing takes an event back.
LEMMA GrownStands ==
  ASSUME NEW ss, NEW tt,
         \A p \in Plans : StreamSound(ss[p]) /\ StreamSound(tt[p]) /\ Grown(ss[p], tt[p]),
         NEW p \in Plans
  PROVE  /\ ss[p] # <<>> => tt[p] # <<>> /\ tt[p][1] = ss[p][1]
         /\ \A t : HasGoverned(ss, p, t) => HasGoverned(tt, p, t)
         /\ \A path : RecordedAt(ss, p, path) => RecordedAt(tt, p, path)
<1>1. PICK s, t : s = ss[p] /\ t = tt[p]
  OBVIOUS
<1>2. IsStream(s) /\ IsStream(t) /\ Grown(s, t)
  BY <1>1 DEF StreamSound
<1>3. s # <<>> => t # <<>> /\ t[1] = s[1]
  <2>1. Len(s) \in Nat /\ DOMAIN s = 1..Len(s) /\ (s = <<>> <=> Len(s) = 0)
    BY <1>2, EmptySeq DEF IsStream
  <2>2. (t = <<>>) => DOMAIN t = {}
    OBVIOUS
  <2>3. s # <<>> => 1 \in DOMAIN s
    BY <2>1
  <2> QED BY <1>2, <2>2, <2>3 DEF Grown
<1>4. \A x : HasGoverned(ss, p, x) => HasGoverned(tt, p, x)
  BY <1>1, <1>2 DEF Grown, HasGoverned
<1> QED BY <1>1, <1>3, <1>4 DEF RecordedAt

LEMMA RowsStand ==
  ASSUME NEW ss, NEW tt,
         \A p \in Plans : StreamSound(ss[p]) /\ StreamSound(tt[p]) /\ Grown(ss[p], tt[p]),
         NEW rows, RowsSound(rows, ss)
  PROVE  RowsSound(rows, tt)
<1> SUFFICES ASSUME NEW p \in DOMAIN rows PROVE RowSound(rows[p], p, tt)
  BY DEF RowsSound
<1>1. RowSound(rows[p], p, ss)
  BY DEF RowsSound
<1>2. p \in Plans
  BY <1>1 DEF RowSound
<1>3. /\ ss[p] # <<>> => tt[p] # <<>> /\ tt[p][1] = ss[p][1]
      /\ \A t : HasGoverned(ss, p, t) => HasGoverned(tt, p, t)
  BY <1>2, GrownStands
<1> QED BY <1>1, <1>3 DEF RowSound

LEMMA CallStands ==
  ASSUME NEW ss, NEW tt,
         \A p \in Plans : StreamSound(ss[p]) /\ StreamSound(tt[p]) /\ Grown(ss[p], tt[p]),
         NEW k, CallSound(k, ss)
  PROVE  CallSound(k, tt)
<1>1. ASSUME Joins(k, ss) PROVE Joins(k, tt)
  <2>1. /\ \A t : HasGoverned(ss, k.plan, t) => HasGoverned(tt, k.plan, t)
        /\ \A path : RecordedAt(ss, k.plan, path) => RecordedAt(tt, k.plan, path)
    BY <1>1, GrownStands DEF Joins
  <2> QED BY <1>1, <2>1 DEF Joins
<1>2. RowsSound(k.rows, ss) => RowsSound(k.rows, tt)
  BY RowsStand
<1> QED BY <1>1, <1>2 DEF CallSound

LEMMA IdleSound == \A ss : CallSound(Idle, ss)
<1>1. IsCall(Idle) /\ Idle.pc = "idle"
  BY DEF IsCall, Idle
<1>2. "idle" \notin Importing
  BY DEF Importing
<1> QED BY <1>1, <1>2 DEF CallSound, Importing

LEMMA Elsewise ==
  ASSUME NEW k, IsCall(k), k.pc \notin Importing, NEW ss PROVE CallSound(k, ss)
BY DEF CallSound, Importing

\* A step's calls, from its streams and the call that took it.
LEMMA OneCall ==
  ASSUME StreamsSound, StreamsSound', CallsSound,
         \A p \in Plans : Grown(streams[p], streams'[p]),
         NEW c \in Clients, NEW k, CallSound(k, streams'), call' = [call EXCEPT ![c] = k]
  PROVE  CallsSound'
<1>1. \A p \in Plans :
        StreamSound(streams[p]) /\ StreamSound(streams'[p]) /\ Grown(streams[p], streams'[p])
  BY DEF StreamsSound
<1>2. call = [d \in Clients |-> call[d]]
  BY DEF CallsSound
<1>3. call' = [d \in Clients |-> IF d = c THEN k ELSE call[d]]
  BY <1>2
<1>4. ASSUME NEW d \in Clients, d # c PROVE CallSound(call[d], streams')
  <2>1. CallSound(call[d], streams)
    BY DEF CallsSound
  <2> QED BY <1>1, <2>1, CallStands
<1>5. \A d \in Clients : CallSound(call'[d], streams')
  BY <1>3, <1>4
<1>6. call' = [d \in Clients |-> call'[d]]
  BY <1>3
<1> QED BY <1>5, <1>6 DEF CallsSound

LEMMA NoCall ==
  ASSUME StreamsSound, StreamsSound', CallsSound,
         \A p \in Plans : Grown(streams[p], streams'[p]), call' = call
  PROVE  CallsSound'
<1>1. \A p \in Plans :
        StreamSound(streams[p]) /\ StreamSound(streams'[p]) /\ Grown(streams[p], streams'[p])
  BY DEF StreamsSound
<1>2. ASSUME NEW d \in Clients PROVE CallSound(call[d], streams')
  <2>1. CallSound(call[d], streams)
    BY DEF CallsSound
  <2> QED BY <1>1, <2>1, CallStands
<1> QED BY <1>2 DEF CallsSound

LEMMA SameTags ==
  ASSUME StreamsSound, StreamsSound', TagsTold,
         \A p \in Plans : Grown(streams[p], streams'[p]), tags' = tags
  PROVE  TagsTold'
<1>1. \A p \in Plans :
        StreamSound(streams[p]) /\ StreamSound(streams'[p]) /\ Grown(streams[p], streams'[p])
  BY DEF StreamsSound
<1>2. ASSUME NEW t, NEW v, Told(streams, t, v) PROVE Told(streams', t, v)
  <2>1. PICK p \in Plans : HasGoverned(streams, p, t) /\ RecordedAt(streams, p, Located(v))
    BY <1>2 DEF Told
  <2>2. HasGoverned(streams', p, t) /\ RecordedAt(streams', p, Located(v))
    BY <1>1, <2>1, GrownStands
  <2> QED BY <2>2 DEF Told
<1> QED BY <1>2 DEF TagsTold

\* The steps of calls that are not imports.
OtherStep(c) ==
  \/ Begin(c) \/ Dies(c)
  \/ AddLook(c) \/ AddExhausted(c) \/ AddCreate(c) \/ AddCommit(c) \/ AddGovern(c)
  \/ LinkCommit(c)
  \/ ReadRows(c) \/ ReadFile(c) \/ ReadRehash(c) \/ ReadGoverned(c) \/ ReadEnds(c)
  \/ Governing(c) \/ ImportEnds(c)

\* What they leave their call.
Other(n) == n = Idle \/ (IsCall(n) /\ n.pc \notin Importing)
GoesOther(c) == \E n : Other(n) /\ call' = [call EXCEPT ![c] = n]

LEMMA OtherEnds ==
  ASSUME NEW c, call' = [call EXCEPT ![c] = Idle] PROVE GoesOther(c)
BY DEF GoesOther, Other

LEMMA OtherGoes ==
  ASSUME NEW c, NEW n, IsCall(n), n.pc \notin Importing, call' = [call EXCEPT ![c] = n]
  PROVE  GoesOther(c)
BY DEF GoesOther, Other

LEMMA OtherSteps ==
  ASSUME NEW c \in Clients, IsCall(call[c]), OtherStep(c) PROVE GoesOther(c)
<1>1. PICK k : k = call[c]
  OBVIOUS
<1>2. IsCall(k)
  BY <1>1
<1>3. CASE Begin(c)
  <2>1. PICK o \in Calls[c] :
          \/ call' = [call EXCEPT ![c] = Idle]
          \/ \E pc \in {"look", "link", "unlink", "rows", "governing", "tagged"} :
               call' = [call EXCEPT ![c] = [Idle EXCEPT !.pc = pc, !.op = o, !.plan = o.plan,
                                                        !.tasks = o.tasks]]
    <3>1. PICK o \in Calls[c] :
            LET missing == {t \in o.tasks : ~Exists(t)}
                begin(pc) == Goes(c, [Idle EXCEPT !.pc = pc, !.op = o, !.plan = o.plan,
                                                  !.tasks = o.tasks]) IN
            CASE o.op = "add" ->
                   IF AddRefusal([title |-> o.title, status |-> o.status, hash |-> NoFile])
                        # "sound"
                     THEN Refuses(c, AddRefusal([title |-> o.title, status |-> o.status,
                                                 hash |-> NoFile]))
                   ELSE IF missing # {} THEN Refuses(c, "NoSuchTask")
                   ELSE begin("look")
              [] o.op = "link" ->
                   IF ~Holds(o.plan) THEN Refuses(c, "NoSuchPlan")
                   ELSE IF o.link /\ missing # {} THEN Refuses(c, "NoSuchTask")
                   ELSE begin(IF o.link THEN "link" ELSE "unlink")
              [] o.op \in {"read", "check"} -> begin("rows")
              [] o.op = "governing" -> begin("governing")
              [] o.op = "import" -> begin("tagged")
      BY <1>3 DEF Begin
    <3>2. o.op \in {"add", "import", "link", "read", "check", "governing"}
      BY PlanFilesAssumption
    <3> DEFINE begin(pc) ==
                 call' = [call EXCEPT ![c] = [Idle EXCEPT !.pc = pc, !.op = o, !.plan = o.plan,
                                                          !.tasks = o.tasks]]
               End == call' = [call EXCEPT ![c] = Idle]
    <3>3. CASE o.op = "add"
      <4>1. End \/ begin("look")
        BY <3>1, <3>3 DEF Goes, Ends, Refuses
      <4> QED BY <4>1
    <3>4. CASE o.op = "link"
      <4>1. End \/ begin("link") \/ begin("unlink")
        BY <3>1, <3>4 DEF Goes, Ends, Refuses
      <4> QED BY <4>1
    <3>5. CASE o.op \in {"read", "check"}
      <4>1. begin("rows")
        BY <3>1, <3>5 DEF Goes, Ends, Refuses
      <4> QED BY <4>1
    <3>6. CASE o.op = "governing"
      <4>1. begin("governing")
        BY <3>1, <3>6 DEF Goes, Ends, Refuses
      <4> QED BY <4>1
    <3>7. CASE o.op = "import"
      <4>1. begin("tagged")
        BY <3>1, <3>7 DEF Goes, Ends, Refuses
      <4> QED BY <4>1
    <3> QED BY <3>2, <3>3, <3>4, <3>5, <3>6, <3>7
  <2>2. CASE call' = [call EXCEPT ![c] = Idle]
    BY <2>2, OtherEnds
  <2>3. ASSUME NEW pc \in {"look", "link", "unlink", "rows", "governing", "tagged"},
               call' = [call EXCEPT ![c] = [Idle EXCEPT !.pc = pc, !.op = o, !.plan = o.plan,
                                                        !.tasks = o.tasks]]
        PROVE  GoesOther(c)
    <3>1. PICK n : n = [Idle EXCEPT !.pc = pc, !.op = o, !.plan = o.plan, !.tasks = o.tasks]
      OBVIOUS
    <3>2. IsCall(n) /\ n.pc = pc
      BY <3>1 DEF IsCall, Idle
    <3>3. n.pc \notin Importing
      BY <3>2 DEF Importing
    <3> QED BY <2>3, <3>1, <3>2, <3>3, OtherGoes
  <2> QED BY <2>1, <2>2, <2>3
<1>4. CASE \/ Dies(c) \/ AddExhausted(c) \/ LinkCommit(c) \/ ReadEnds(c) \/ Governing(c)
           \/ ImportEnds(c)
  <2>1. call' = [call EXCEPT ![c] = Idle]
    BY <1>4 DEF Dies, AddExhausted, LinkCommit, ReadEnds, Governing, ImportEnds, Ends, Refuses
  <2> QED BY <2>1, OtherEnds
<1>5. CASE AddLook(c)
  <2>1. \/ call' = [call EXCEPT ![c] = Idle]
        \/ \E p, path : call' = [call EXCEPT ![c] =
             [k EXCEPT !.pc = "create", !.plan = p, !.path = path]]
        \/ \E p, path, text : call' = [call EXCEPT ![c] =
             [k EXCEPT !.pc = "add", !.plan = p, !.path = path, !.text = text]]
    <3>1. PICK p, path :
            \/ Goes(c, [k EXCEPT !.pc = "create", !.plan = p, !.path = path])
            \/ \E why : Refuses(c, why)
            \/ Goes(c, [k EXCEPT !.pc = "add", !.plan = p, !.path = path, !.text = TextAt(path)])
      BY <1>1, <1>5 DEF AddLook
    <3> QED BY <3>1 DEF Goes, Ends, Refuses
  <2>2. \A p, path : LET n == [k EXCEPT !.pc = "create", !.plan = p, !.path = path] IN
          IsCall(n) /\ n.pc \notin Importing
    BY <1>2 DEF IsCall, Importing
  <2>3. \A p, path, text :
          LET n == [k EXCEPT !.pc = "add", !.plan = p, !.path = path, !.text = text] IN
          IsCall(n) /\ n.pc \notin Importing
    BY <1>2 DEF IsCall, Importing
  <2> QED BY <2>1, <2>2, <2>3, OtherEnds, OtherGoes
<1>6. CASE AddCreate(c)
  <2>1. PICK text :
          \/ call' = [call EXCEPT ![c] = Idle]
          \/ call' = [call EXCEPT ![c] = [k EXCEPT !.pc = "add", !.text = text]]
    BY <1>1, <1>6 DEF AddCreate, Creates, Goes, Ends, Refuses
  <2>2. LET n == [k EXCEPT !.pc = "add", !.text = text] IN IsCall(n) /\ n.pc \notin Importing
    BY <1>2 DEF IsCall, Importing
  <2> QED BY <2>1, <2>2, OtherEnds, OtherGoes
<1>7. CASE AddCommit(c)
  <2>1. \/ call' = [call EXCEPT ![c] = Idle]
        \/ call' = [call EXCEPT ![c] = [k EXCEPT !.pc = "govern"]]
    BY <1>1, <1>7 DEF AddCommit, Goes, Ends, Refuses
  <2>2. LET n == [k EXCEPT !.pc = "govern"] IN IsCall(n) /\ n.pc \notin Importing
    BY <1>2 DEF IsCall, Importing
  <2> QED BY <2>1, <2>2, OtherEnds, OtherGoes
<1>8. CASE AddGovern(c)
  <2>1. PICK t :
          \/ call' = [call EXCEPT ![c] = Idle]
          \/ call' = [call EXCEPT ![c] = [k EXCEPT !.tasks = @ \ {t}]]
    BY <1>1, <1>8 DEF AddGovern, Goes, Ends, Refuses
  <2>2. k.pc = "govern"
    BY <1>1, <1>8 DEF AddGovern
  <2>3. LET n == [k EXCEPT !.tasks = @ \ {t}] IN IsCall(n) /\ n.pc \notin Importing
    BY <1>2, <2>2 DEF IsCall, Importing
  <2> QED BY <2>1, <2>3, OtherEnds, OtherGoes
<1>9. CASE ReadRows(c)
  <2>1. PICK left, rows :
          \/ call' = [call EXCEPT ![c] = Idle]
          \/ call' = [call EXCEPT ![c] = [k EXCEPT !.pc = "file", !.left = left, !.rows = rows]]
    BY <1>1, <1>9 DEF ReadRows, Goes, Ends, Refuses
  <2>2. LET n == [k EXCEPT !.pc = "file", !.left = left, !.rows = rows] IN
        IsCall(n) /\ n.pc \notin Importing
    BY <1>2 DEF IsCall, Importing
  <2> QED BY <2>1, <2>2, OtherEnds, OtherGoes
<1>10. CASE ReadFile(c)
  <2>1. PICK p, text, missing, pc :
          /\ pc = IF text \in {NoFile, k.rows[p].hash} THEN "governed" ELSE "rehash"
          /\ call' = [call EXCEPT ![c] =
               [k EXCEPT !.pc = pc, !.plan = p, !.text = text, !.found = @ \cup missing]]
    <3>1. PICK p :
            LET row == k.rows[p]
                text == TextAt(row.path)
                missing == IF text = NoFile THEN {[why |-> "Missing", plan |-> p, on |-> row.path]}
                           ELSE {} IN
            Goes(c, [k EXCEPT
              !.pc = IF text \in {NoFile, row.hash} THEN "governed" ELSE "rehash",
              !.plan = p, !.text = text, !.found = @ \cup missing])
      BY <1>1, <1>10 DEF ReadFile
    <3>2. PICK text, missing, pc :
            /\ text = TextAt(k.rows[p].path)
            /\ missing = IF text = NoFile
                           THEN {[why |-> "Missing", plan |-> p, on |-> k.rows[p].path]} ELSE {}
            /\ pc = IF text \in {NoFile, k.rows[p].hash} THEN "governed" ELSE "rehash"
      OBVIOUS
    <3>3. call' = [call EXCEPT ![c] =
               [k EXCEPT !.pc = pc, !.plan = p, !.text = text, !.found = @ \cup missing]]
      BY <3>1, <3>2, Zenon DEF Goes
    <3> QED BY <3>2, <3>3
  <2>2. LET n == [k EXCEPT !.pc = pc, !.plan = p, !.text = text, !.found = @ \cup missing] IN
        IsCall(n) /\ n.pc \notin Importing
    BY <1>2, <2>1 DEF IsCall, Importing
  <2> QED BY <2>1, <2>2, OtherGoes
<1>11. CASE ReadRehash(c)
  <2>1. call' = [call EXCEPT ![c] = [k EXCEPT !.pc = "governed"]]
    BY <1>1, <1>11 DEF ReadRehash, Goes
  <2>2. LET n == [k EXCEPT !.pc = "governed"] IN IsCall(n) /\ n.pc \notin Importing
    BY <1>2 DEF IsCall, Importing
  <2> QED BY <2>1, <2>2, OtherGoes
<1>12. CASE ReadGoverned(c)
  <2>1. PICK left, found :
          call' = [call EXCEPT ![c] = [k EXCEPT !.pc = "file", !.left = left, !.found = found]]
    BY <1>1, <1>12 DEF ReadGoverned, Goes
  <2>2. LET n == [k EXCEPT !.pc = "file", !.left = left, !.found = found] IN
        IsCall(n) /\ n.pc \notin Importing
    BY <1>2 DEF IsCall, Importing
  <2> QED BY <2>1, <2>2, OtherGoes
<1> QED BY <1>3, <1>4, <1>5, <1>6, <1>7, <1>8, <1>9, <1>10, <1>11, <1>12 DEF OtherStep

------------------------------------------------------------------------------
(* An import's steps.                                                       *)

LEMMA SortedSound == \A g \in Sorted.groups : GroupSound(g)
<1> DEFINE named == {<<t, v>> : t \in DOMAIN tags, v \in UNION {tags[x] : x \in DOMAIN tags}}
           tagged == {tv \in named : tv[2] \in tags[tv[1]]}
           plans == {tv \in tagged : TextAt(Located(tv[2])) # NoFile /\ IsPlanFile(Located(tv[2]))}
           groups == {[path |-> path, text |-> TextAt(path),
                       tags |-> {tv \in plans : Located(tv[2]) = path}] :
                        path \in {Located(tv[2]) : tv \in plans}}
<1>1. Sorted.groups = groups
  BY DEF Sorted
<1> HIDE DEF plans
<1>2. ASSUME NEW g \in groups PROVE GroupSound(g)
  <2>1. PICK path \in {Located(tv[2]) : tv \in plans} :
          g = [path |-> path, text |-> TextAt(path),
               tags |-> {tv \in plans : Located(tv[2]) = path}]
    OBVIOUS
  <2> QED BY <2>1 DEF GroupSound
<1> QED BY <1>1, <1>2

LEMMA RowsRead == ASSUME StreamsSound PROVE RowsSound(List.rows, streams)
<1>1. ListAgrees
  BY ListAgreed
<1> SUFFICES ASSUME NEW p \in DOMAIN List.rows PROVE RowSound(List.rows[p], p, streams)
  BY DEF RowsSound
<1>2. p \in Plans /\ State(p).added /\ List.rows[p] = State(p)
  BY <1>1 DEF ListAgrees, Holds
<1>3. StateTold(streams[p], State(p))
  BY <1>2, StateFacts DEF State, StreamsSound
<1> QED BY <1>2, <1>3 DEF StateTold, RowSound, HasGoverned

LEMMA DefaultUnder == \A p : UnderPlansDir(DefaultPath(p)) /\ ~DefaultPath(p).outside
<1> TAKE p
<1>1. PICK x, d : x = NameOf[p] /\ d = PlansDir
  OBVIOUS
<1> DEFINE S == {d[i] : i \in {1, 2}} \cup {x}
<1>2. d \in Seq(S) /\ Len(d) = 2
  <2>1. d \in {".taskloom", "plans"} \X {".taskloom", "plans"}
    BY <1>1 DEF PlansDir
  <2>2. d = [i \in 1..2 |-> d[i]]
    BY <2>1
  <2>3. \A i \in 1..2 : d[i] \in S
    OBVIOUS
  <2> HIDE DEF S
  <2>4. [i \in 1..2 |-> d[i]] \in Seq(S)
    BY <2>3, IsASeq
  <2>5. DOMAIN d = 1..2 /\ d \in Seq(S)
    BY <2>2, <2>4
  <2>6. PICK n : n = Len(d) /\ n \in Nat /\ DOMAIN d = 1..n
    BY <2>5, LenProperties
  <2>7. 1..n = 1..2
    BY <2>5, <2>6
  <2>8. n = 2
    BY <2>6, <2>7
  <2> QED BY <2>5, <2>6, <2>8
<1>3. PICK s : s = Append(d, x)
  OBVIOUS
<1>4. s \in Seq(S) /\ Len(s) = 3 /\ s[1] = d[1] /\ s[2] = d[2]
  <2>1. x \in S
    OBVIOUS
  <2> HIDE DEF S
  <2>2. d \in Seq(S) /\ Len(d) = 2
    BY <1>2
  <2>3. /\ Append(d, x) \in Seq(S) /\ Len(Append(d, x)) = Len(d) + 1
        /\ \A i \in 1..Len(d) : Append(d, x)[i] = d[i]
    BY <2>1, <2>2, AppendProperties
  <2> QED BY <1>3, <2>2, <2>3
<1>5. PICK t : t = SubSeq(s, 1, 2)
  OBVIOUS
<1>6. t \in Seq(S) /\ Len(t) = 2 /\ t[1] = s[1] /\ t[2] = s[2]
  <2>1. \A i \in 1..2 : s[i] \in S
    BY <1>4
  <2> HIDE DEF S
  <2>2. 1 \in Int /\ 2 \in Int
    OBVIOUS
  <2>3. t \in Seq(S) /\ Len(t) = 2 /\ \A i \in 1..2 : t[i] = s[i]
    BY <1>5, <2>1, <2>2, SubSeqProperties
  <2> QED BY <2>3
<1>7. t = d
  <2>1. \A i \in 1..Len(t) : t[i] = d[i]
    BY <1>4, <1>6
  <2> HIDE DEF S
  <2> QED BY <1>2, <1>6, <2>1, SeqEqual
<1> QED BY <1>1, <1>3, <1>4, <1>5, <1>7 DEF DefaultPath, UnderPlansDir

LEMMA InvFrom ==
  ASSUME ImportInv, StreamsSound', \A p \in Plans : Grown(streams[p], streams'[p]),
         NEW c \in Clients, NEW k, CallSound(k, streams'), call' = [call EXCEPT ![c] = k],
         tags' = tags \/ TagsTold'
  PROVE  ImportInv'
<1>1. StreamsSound /\ CallsSound /\ TagsTold
  BY DEF ImportInv
<1>2. CallsSound'
  BY <1>1, OneCall
<1>3. TagsTold'
  BY <1>1, SameTags
<1> QED BY <1>2, <1>3 DEF ImportInv

LEMMA ImportTaggedStep ==
  ASSUME ImportInv, NEW c \in Clients, ImportTagged(c)
  PROVE  \E n : CallSound(n, streams) /\ call' = [call EXCEPT ![c] = n]
<1>1. PICK k, groups, found : k = call[c] /\ groups = Sorted.groups /\ found = Sorted.left
  OBVIOUS
<1>2. PICK n : n = [k EXCEPT !.pc = "list", !.left = groups, !.found = found]
  OBVIOUS
<1>3. IsCall(k) /\ call' = [call EXCEPT ![c] = n]
  BY <1>1, <1>2 DEF ImportInv, CallsSound, CallSound, ImportTagged, Goes
<1>4. IsCall(n) /\ n.pc = "list" /\ n.left = groups
  BY <1>2, <1>3 DEF IsCall
<1>5. CallSound(n, streams)
  BY <1>1, <1>4, SortedSound DEF CallSound, Importing
<1> QED BY <1>3, <1>5

LEMMA ImportListStep ==
  ASSUME ImportInv, NEW c \in Clients, ImportList(c)
  PROVE  \E n : CallSound(n, streams) /\ call' = [call EXCEPT ![c] = n]
<1>1. CASE call' = [call EXCEPT ![c] = Idle]
  BY <1>1, IdleSound
<1>2. PICK k, rows : k = call[c] /\ rows = List.rows
  OBVIOUS
<1>3. PICK n : n = [k EXCEPT !.pc = "group", !.rows = rows]
  OBVIOUS
<1>4. IsCall(k) /\ k.pc = "list" /\ \A g \in k.left : GroupSound(g)
  BY <1>2 DEF ImportInv, CallsSound, CallSound, ImportList, Importing
<1>5. IsCall(n) /\ n.pc = "group" /\ n.left = k.left /\ n.rows = rows
  BY <1>3, <1>4 DEF IsCall
<1>6. CallSound(n, streams)
  BY <1>2, <1>4, <1>5, RowsRead DEF CallSound, Importing, ImportInv
<1>7. CASE call' = [call EXCEPT ![c] = n]
  BY <1>6, <1>7
<1> QED BY <1>1, <1>2, <1>3, <1>7 DEF ImportList, Goes, Ends

LEMMA ImportGroupStep ==
  ASSUME ImportInv, NEW c \in Clients, ImportGroup(c)
  PROVE  \E n : CallSound(n, streams) /\ call' = [call EXCEPT ![c] = n]
<1>1. CASE call' = [call EXCEPT ![c] = Idle]
  BY <1>1, IdleSound
<1>2. PICK h, g, k : /\ h = call[c]
                     /\ g = First(IF {x \in h.left : ~x.path.outside} = {} THEN h.left
                                  ELSE {x \in h.left : ~x.path.outside})
                     /\ k = [h EXCEPT !.left = @ \ {g}, !.group = g, !.text = g.text]
  OBVIOUS
<1>3. /\ IsCall(h) /\ h.pc = "group" /\ h.left # {} /\ \A x \in h.left : GroupSound(x)
      /\ RowsSound(h.rows, streams)
  BY <1>2 DEF ImportInv, CallsSound, CallSound, ImportGroup, Importing
<1>4. g \in h.left
  BY <1>2, <1>3 DEF First
<1>5. /\ IsCall(k) /\ k.group = g /\ k.rows = h.rows /\ k.left \subseteq h.left /\ GroupSound(g)
  BY <1>2, <1>3, <1>4 DEF IsCall
<1>6. PICK list, recorded :
        /\ list = [EmptyList EXCEPT !.rows = h.rows]
        /\ recorded = IF g.path.outside THEN CopiesOf(list, g.text) ELSE ByPath(list, g.path)
  OBVIOUS
<1>7. list.rows = h.rows
  BY <1>6 DEF EmptyList
<1>8. ASSUME NEW p \in recorded, call' = [call EXCEPT ![c] = JoiningRecorded(k, p)]
      PROVE  \E n : CallSound(n, streams) /\ call' = [call EXCEPT ![c] = n]
  <2>1. PICK path, tasks, pc, n :
          /\ path = k.rows[p].path /\ tasks = {tv[1] : tv \in k.group.tags} \ k.rows[p].governs
          /\ pc = IF tasks = {} THEN "untag" ELSE "join"
          /\ n = [k EXCEPT !.pc = pc, !.plan = p, !.path = path, !.tasks = tasks]
    OBVIOUS
  <2>2. JoiningRecorded(k, p) = n
    BY <2>1 DEF JoiningRecorded, Joining
  <2>3. /\ IsCall(n) /\ n.pc = pc /\ n.plan = p /\ n.tasks = tasks /\ n.left = k.left
        /\ n.rows = k.rows /\ n.group = g
    BY <1>5, <2>1 DEF IsCall
  <2>4. p \in DOMAIN k.rows
    BY <1>5, <1>6, <1>7 DEF CopiesOf, ByPath
  <2>5. RowSound(k.rows[p], p, streams)
    BY <1>3, <1>5, <2>4 DEF RowsSound
  <2>6. IF g.path.outside THEN UnderPlansDir(k.rows[p].path) ELSE k.rows[p].path = g.path
    BY <1>5, <1>6, <1>7 DEF CopiesOf, ByPath
  <2>7. RecordedAt(streams, p, g.path)
    BY <2>5, <2>6 DEF RecordedAt, RowSound
  <2>8. \A tv \in g.tags : tv[1] \in tasks \/ HasGoverned(streams, p, tv[1])
    BY <1>5, <2>1, <2>5 DEF RowSound
  <2>9. Joins(n, streams)
    BY <2>1, <2>3, <2>5, <2>7, <2>8 DEF Joins, RowSound
  <2>10. CallSound(n, streams)
    BY <1>3, <1>5, <2>1, <2>3, <2>9 DEF CallSound, Importing
  <2> QED BY <1>8, <2>2, <2>10
<1>9. ASSUME NEW p \in Plans,
             call' = [call EXCEPT ![c] =
               [k EXCEPT !.pc = IF g.path.outside THEN "copy" ELSE "register", !.plan = p,
                         !.path = IF g.path.outside THEN DefaultPath(p) ELSE g.path]]
      PROVE  \E n : CallSound(n, streams) /\ call' = [call EXCEPT ![c] = n]
  <2>1. PICK path, pc, n :
          /\ path = IF g.path.outside THEN DefaultPath(p) ELSE g.path
          /\ pc = IF g.path.outside THEN "copy" ELSE "register"
          /\ n = [k EXCEPT !.pc = pc, !.plan = p, !.path = path]
    OBVIOUS
  <2>2. /\ IsCall(n) /\ n.pc = pc /\ n.plan = p /\ n.path = path /\ n.left = k.left
        /\ n.rows = k.rows /\ n.group = g
    BY <1>5, <2>1 DEF IsCall
  <2>3. IF g.path.outside THEN UnderPlansDir(path) ELSE path = g.path
    BY <2>1, DefaultUnder
  <2>4. CallSound(n, streams)
    BY <1>3, <1>5, <2>1, <2>2, <2>3 DEF CallSound, Importing
  <2> QED BY <1>9, <2>1, <2>4
<1>10. \/ \E p \in recorded : Goes(c, JoiningRecorded(k, p))
       \/ \E p \in Plans :
            Goes(c, [k EXCEPT !.pc = IF g.path.outside THEN "copy" ELSE "register", !.plan = p,
                              !.path = IF g.path.outside THEN DefaultPath(p) ELSE g.path])
       \/ Refuses(c, "HarpsExhausted")
  BY <1>2, <1>6 DEF ImportGroup
<1> QED BY <1>1, <1>8, <1>9, <1>10 DEF Goes, Refuses, Ends

LEMMA ImportCopyStep ==
  ASSUME ImportInv, NEW c \in Clients, ImportCopy(c)
  PROVE  \E n : CallSound(n, streams) /\ call' = [call EXCEPT ![c] = n]
<1>1. CASE call' = [call EXCEPT ![c] = Idle]
  BY <1>1, IdleSound
<1>2. PICK k : k = call[c]
  OBVIOUS
<1>3. PICK n : n = [k EXCEPT !.pc = "register"]
  OBVIOUS
<1>4. k.pc = "copy" /\ CallSound(k, streams)
  BY <1>2 DEF ImportInv, CallsSound, ImportCopy
<1>5. /\ n.pc = "register" /\ IsCall(n) /\ n.left = k.left /\ n.rows = k.rows
      /\ n.group = k.group /\ n.plan = k.plan /\ n.path = k.path
  BY <1>3, <1>4 DEF IsCall, CallSound
<1>6. CallSound(n, streams)
  BY <1>4, <1>5 DEF CallSound, Importing
<1>7. CASE call' = [call EXCEPT ![c] = n]
  BY <1>6, <1>7
<1> QED BY <1>1, <1>2, <1>3, <1>7 DEF ImportCopy, Creates, Refuses, Ends, Goes

\* The plan registered is its group's, and its tasks are to join it.
LEMMA ImportRegisterStep ==
  ASSUME ImportInv, NEW c \in Clients, ImportRegister(c)
  PROVE  /\ StreamsSound' /\ \A p \in Plans : Grown(streams[p], streams'[p])
         /\ \E n : CallSound(n, streams') /\ call' = [call EXCEPT ![c] = n]
<1>1. PICK k, m : k = call[c] /\ m = AddCommand(c, "active")
  OBVIOUS
<1>2. k.pc = "register" /\ CallSound(k, streams) /\ StreamsSound /\ Committed(k.plan, m)
  BY <1>1 DEF ImportInv, CallsSound, ImportRegister
<1>3. m.type = "Add" /\ m.path = k.path
  BY <1>1 DEF AddCommand
<1>4. /\ StreamsSound' /\ \A p \in Plans : Grown(streams[p], streams'[p])
      /\ k.plan \in Plans /\ Sound(k.plan, m) =>
           \E i \in DOMAIN streams'[k.plan] : streams'[k.plan][i] = m
  BY <1>2, <1>3, Commits DEF EventTypes
<1>5. CASE call' = [call EXCEPT ![c] = Idle]
  BY <1>4, <1>5, IdleSound
<1>6. CASE Sound(k.plan, m) /\ call' = [call EXCEPT ![c] = Joining(k, k.plan, k.path, {})]
  <2>1. PICK tasks, pc, n :
          /\ tasks = {tv[1] : tv \in k.group.tags} \ {}
          /\ pc = IF tasks = {} THEN "untag" ELSE "join"
          /\ n = [k EXCEPT !.pc = pc, !.plan = k.plan, !.path = k.path, !.tasks = tasks]
    OBVIOUS
  <2>2. Joining(k, k.plan, k.path, {}) = n
    BY <2>1 DEF Joining
  <2>3. /\ IsCall(n) /\ n.pc = pc /\ n.plan = k.plan /\ n.tasks = tasks /\ n.left = k.left
        /\ n.rows = k.rows /\ n.group = k.group
    BY <1>2, <2>1 DEF IsCall, CallSound
  <2>4. CallSound(k, streams')
    BY <1>2, <1>4, CallStands DEF StreamsSound
  <2>5. /\ k.plan \in Plans /\ GroupSound(k.group)
        /\ IF k.group.path.outside THEN UnderPlansDir(k.path) ELSE k.path = k.group.path
    BY <1>2 DEF CallSound, Importing
  <2>6. PICK s : s = streams'[k.plan]
    OBVIOUS
  <2>7. PICK i \in DOMAIN s : s[i] = m
    BY <1>4, <1>6, <2>5, <2>6
  <2>8. s # <<>> /\ s[1] = m
    <3>1. StreamSound(s)
      BY <1>4, <2>5, <2>6 DEF StreamsSound
    <3>2. i = 1
      BY <1>3, <2>7, <3>1 DEF StreamSound
    <3> QED BY <2>7, <3>2
  <2>9. RecordedAt(streams', k.plan, k.group.path)
    BY <1>3, <2>5, <2>6, <2>8 DEF RecordedAt
  <2>10. Joins(n, streams')
    <3>1. tasks # {} /\ \A tv \in k.group.tags : tv[1] \in tasks
      BY <2>1, <2>5 DEF GroupSound
    <3> QED BY <2>1, <2>3, <2>5, <2>9, <3>1 DEF Joins
  <2>11. CallSound(n, streams')
    BY <1>2, <2>1, <2>3, <2>4, <2>5, <2>10 DEF CallSound, Importing
  <2> QED BY <1>4, <1>6, <2>2, <2>11
<1> QED BY <1>1, <1>5, <1>6 DEF ImportRegister, Refuses, Ends, Goes

\* A task joined, or governed by the plan already.
LEMMA Governed ==
  ASSUME StreamsSound, NEW p \in Plans, streams[p] # <<>>, NEW t, NEW m,
         m = [type |-> "Govern", task |-> t], Committed(p, m)
  PROVE  /\ StreamsSound' /\ \A q \in Plans : Grown(streams[q], streams'[q])
         /\ HasGoverned(streams', p, t)
<1>1. m.type = "Govern" /\ m.task = t
  OBVIOUS
<1>2. /\ StreamsSound' /\ \A q \in Plans : Grown(streams[q], streams'[q])
      /\ Sound(p, m) => \E i \in DOMAIN streams'[p] : streams'[p][i] = m
  BY <1>1, Commits DEF EventTypes
<1>3. CASE Sound(p, m)
  BY <1>1, <1>2, <1>3 DEF HasGoverned
<1>4. CASE ~Sound(p, m)
  <2>1. StateTold(streams[p], State(p))
    BY StateFacts DEF State, StreamsSound
  <2>2. State(p).added
    BY <2>1 DEF StateTold
  <2>3. t \in State(p).governs
    BY <1>1, <1>4, <2>2 DEF Sound, Refusal
  <2>4. HasGoverned(streams, p, t)
    BY <2>1, <2>3 DEF StateTold, HasGoverned
  <2> QED BY <1>2, <2>4, GrownStands DEF StreamsSound
<1> QED BY <1>2, <1>3, <1>4

LEMMA ImportJoinStep ==
  ASSUME ImportInv, NEW c \in Clients, ImportJoin(c)
  PROVE  /\ StreamsSound' /\ \A p \in Plans : Grown(streams[p], streams'[p])
         /\ \E n : CallSound(n, streams') /\ call' = [call EXCEPT ![c] = n]
<1>1. PICK k, t, m, pc, n :
        /\ k = call[c] /\ t = First(k.tasks) /\ m = [type |-> "Govern", task |-> t]
        /\ pc = IF k.tasks = {t} THEN "untag" ELSE "join"
        /\ n = [k EXCEPT !.pc = pc, !.tasks = @ \ {t}]
  OBVIOUS
<1>2. k.pc = "join" /\ CallSound(k, streams) /\ StreamsSound /\ Committed(k.plan, m)
  BY <1>1 DEF ImportInv, CallsSound, ImportJoin
<1>3. call' = [call EXCEPT ![c] = n]
  BY <1>1 DEF ImportJoin, Goes
<1>4. /\ k.plan \in Plans /\ RecordedAt(streams, k.plan, k.group.path) /\ k.tasks # {}
      /\ \A tv \in k.group.tags : tv[1] \in k.tasks \/ HasGoverned(streams, k.plan, tv[1])
  BY <1>2 DEF CallSound, Joins
<1>5. t \in k.tasks
  BY <1>1, <1>4 DEF First
<1>6. /\ StreamsSound' /\ \A p \in Plans : Grown(streams[p], streams'[p])
      /\ HasGoverned(streams', k.plan, t)
  BY <1>1, <1>2, <1>4, Governed DEF RecordedAt
<1>7. /\ IsCall(n) /\ n.pc = pc /\ n.plan = k.plan /\ n.tasks = k.tasks \ {t} /\ n.left = k.left
      /\ n.rows = k.rows /\ n.group = k.group
  BY <1>1, <1>2 DEF IsCall, CallSound
<1>8. CallSound(k, streams')
  BY <1>2, <1>6, CallStands DEF StreamsSound
<1>9. /\ RecordedAt(streams', k.plan, k.group.path)
      /\ \A tv \in k.group.tags : tv[1] \in k.tasks \/ HasGoverned(streams', k.plan, tv[1])
  BY <1>2, <1>8 DEF CallSound, Joins
<1>10. Joins(n, streams')
  BY <1>1, <1>4, <1>5, <1>6, <1>7, <1>9 DEF Joins
<1>11. CallSound(n, streams')
  BY <1>1, <1>2, <1>7, <1>8, <1>10 DEF CallSound, Importing
<1> QED BY <1>3, <1>6, <1>11

\* A tag retired leaves its task governed by the plan of the file it named.
LEMMA ImportUntagStep ==
  ASSUME ImportInv, NEW c \in Clients, ImportUntag(c) PROVE ImportInv'
<1>1. PICK k, tv, left, pc, n :
        /\ k = call[c] /\ tv = First(k.group.tags) /\ left = k.group.tags \ {tv}
        /\ pc = IF left = {} THEN "group" ELSE "untag"
        /\ n = [k EXCEPT !.pc = pc, !.group.tags = left]
  OBVIOUS
<1>2. /\ k.pc = "untag" /\ CallSound(k, streams) /\ StreamsSound
      /\ streams' = streams /\ StreamsSound' /\ \A p \in Plans : Grown(streams[p], streams'[p])
  BY <1>1 DEF ImportInv, CallsSound, ImportUntag, StreamsSound, Grown
<1>3. CASE ~Exists(tv[1])
  <2>1. call' = [call EXCEPT ![c] = Idle] /\ tags' = tags
    BY <1>1, <1>3 DEF ImportUntag, Refuses, Ends
  <2> QED BY <1>2, <2>1, IdleSound, InvFrom
<1>4. CASE Exists(tv[1])
  <2>1. call' = [call EXCEPT ![c] = n] /\ tags' = [tags EXCEPT ![tv[1]] = @ \ {tv[2]}]
    BY <1>1, <1>4 DEF ImportUntag, Goes
  <2>2. /\ GroupSound(k.group) /\ k.plan \in Plans
        /\ RecordedAt(streams, k.plan, k.group.path)
        /\ \A x \in k.group.tags : HasGoverned(streams, k.plan, x[1])
    BY <1>2 DEF CallSound, Joins, Importing
  <2>3. tv \in k.group.tags
    BY <1>1, <2>2 DEF First, GroupSound
  <2>4. Told(streams, tv[1], tv[2])
    BY <2>2, <2>3 DEF Told, GroupSound
  <2>5. TagsTold'
    <3> SUFFICES ASSUME NEW t \in DOMAIN tags', NEW v \in TagsAtFirst[t] \ tags'[t]
                 PROVE  Told(streams, t, v)
      BY <1>2 DEF TagsTold
    <3>1. t \in DOMAIN tags /\ tags'[t] = IF t = tv[1] THEN tags[t] \ {tv[2]} ELSE tags[t]
      BY <2>1
    <3>2. CASE v \in TagsAtFirst[t] \ tags[t]
      BY <3>1, <3>2 DEF ImportInv, TagsTold
    <3>3. CASE t = tv[1] /\ v = tv[2]
      BY <2>4, <3>3
    <3> QED BY <3>1, <3>2, <3>3
  <2>6. PICK g : g = k.group
    OBVIOUS
  <2>7. PICK h : h = [g EXCEPT !.tags = left]
    OBVIOUS
  <2>8. h.path = g.path /\ h.tags = left /\ h \in [path : {h.path}, text : {h.text}, tags : {h.tags}]
    BY <2>2, <2>6, <2>7 DEF GroupSound
  <2>9. n = [k EXCEPT !.pc = pc, !.group = h]
    BY <1>1, <2>6, <2>7
  <2>10. /\ IsCall(n) /\ n.pc = pc /\ n.plan = k.plan /\ n.left = k.left
         /\ n.rows = k.rows /\ n.group = h
    BY <1>2, <2>9 DEF IsCall, CallSound
  <2>11. left # {} => GroupSound(h)
    BY <1>1, <2>2, <2>6, <2>8 DEF GroupSound
  <2>12. pc = "untag" => Joins(n, streams)
    BY <1>1, <2>2, <2>6, <2>8, <2>10 DEF Joins
  <2>13. CallSound(n, streams)
    BY <1>1, <1>2, <2>10, <2>11, <2>12 DEF CallSound, Importing
  <2> QED BY <1>2, <2>1, <2>5, <2>13, InvFrom
<1> QED BY <1>3, <1>4

LEMMA ImportInvStep == ASSUME ImportInv, [Next]_vars PROVE ImportInv'
<1>1. StreamsSound' /\ \A p \in Plans : Grown(streams[p], streams'[p])
  BY StreamsStep DEF ImportInv
<1>2. ASSUME call' = call, tags' = tags PROVE ImportInv'
  BY <1>1, <1>2, NoCall, SameTags DEF ImportInv
<1>3. CASE Edit \/ OtherCommand \/ UNCHANGED vars
  BY <1>2, <1>3 DEF Edit, OtherCommand, vars
<1>4. ASSUME NEW t \in Tasks, PruneTask(t) PROVE ImportInv'
  <2>1. tags' = Without(tags, t) /\ call' = call /\ streams' = streams
    BY <1>4 DEF PruneTask
  <2>2. TagsTold'
    BY <2>1 DEF TagsTold, Without, ImportInv
  <2>3. CallsSound'
    BY <1>1, <2>1, NoCall DEF ImportInv
  <2> QED BY <1>1, <2>2, <2>3 DEF ImportInv
<1>5. ASSUME NEW c \in Clients, OtherStep(c) PROVE ImportInv'
  <2>1. IsCall(call[c])
    BY DEF ImportInv, CallsSound, CallSound
  <2>2. PICK n : Other(n) /\ call' = [call EXCEPT ![c] = n]
    BY <1>5, <2>1, OtherSteps DEF GoesOther
  <2>3. CallSound(n, streams')
    BY <2>2, IdleSound, Elsewise DEF Other
  <2>4. tags' = tags
    BY <1>5 DEF OtherStep, Begin, Dies, AddLook, AddExhausted, AddCreate, AddCommit, AddGovern,
       LinkCommit, ReadRows, ReadFile, ReadRehash, ReadGoverned, ReadEnds, Governing, ImportEnds
  <2> QED BY <1>1, <2>2, <2>3, <2>4, InvFrom
<1>6. ASSUME NEW c \in Clients,
             ImportTagged(c) \/ ImportList(c) \/ ImportGroup(c) \/ ImportCopy(c)
      PROVE  ImportInv'
  <2>1. streams' = streams /\ tags' = tags
    BY <1>6 DEF ImportTagged, ImportList, ImportGroup, ImportCopy
  <2>2. PICK n : CallSound(n, streams) /\ call' = [call EXCEPT ![c] = n]
    BY <1>6, ImportTaggedStep, ImportListStep, ImportGroupStep, ImportCopyStep
  <2> QED BY <1>1, <2>1, <2>2, InvFrom
<1>7. ASSUME NEW c \in Clients, ImportRegister(c) \/ ImportJoin(c) PROVE ImportInv'
  <2>1. PICK n : CallSound(n, streams') /\ call' = [call EXCEPT ![c] = n]
    BY <1>7, ImportRegisterStep, ImportJoinStep
  <2>2. tags' = tags
    BY <1>7 DEF ImportRegister, ImportJoin
  <2> QED BY <1>1, <2>1, <2>2, InvFrom
<1>8. ASSUME NEW c \in Clients, ImportUntag(c) PROVE ImportInv'
  BY <1>8, ImportUntagStep
<1> QED BY <1>3, <1>4, <1>5, <1>6, <1>7, <1>8 DEF Next, OtherStep

LEMMA ImportInvFirst == Init => ImportInv
<1> SUFFICES ASSUME Init PROVE ImportInv
  OBVIOUS
<1>1. StreamsSound
  BY StreamsSoundFirst
<1>2. CallsSound
  BY IdleSound DEF Init, CallsSound
<1>3. TagsTold
  BY DEF Init, TagsTold
<1> QED BY <1>1, <1>2, <1>3 DEF ImportInv

\* However imports interleave, die and are run again, beside other calls,
\* edits and prunes, a tag is gone from its task only where a plan recorded
\* at the file it names, or for a copy of it, has been made to govern the
\* task: no import loses a link (import.rs:11).
THEOREM TagsBecomeLinks == Spec => []TagOrLink
<1>1. Init => ImportInv
  BY ImportInvFirst
<1>2. ImportInv /\ [Next]_vars => ImportInv'
  BY ImportInvStep
<1>3. ImportInv => TagOrLink
  BY ToldTagOrLink DEF ImportInv
<1> QED BY <1>1, <1>2, <1>3, PTL DEF Spec
------------------------------------------------------------------------------
(* One plan for a file.                                                     *)

Adders == {c \in Clients : \E k \in Calls[c] : k.op \in {"add", "import"}}

\* One process adds or imports plans at a time; any may read, link and change them.
OneAdder == \A c, d \in Adders : c = d

\* No add is given, and no tag names, the name another plan's file is given.
NamesKept ==
  \A p \in Plans :
    /\ \A c \in Clients : \A k \in Calls[c] :
         k.op = "add" /\ k.given # NoPath => Located(k.given) # DefaultPath(p)
    /\ \A t \in DOMAIN TagsAtFirst : \A v \in TagsAtFirst[t] : Located(v) # DefaultPath(p)

\* The files outside the work root are no one's to edit meanwhile, and what each
\* holds no other file does.
OutsideText(x) == \E path \in DOMAIN FilesAtFirst : path.outside /\ FilesAtFirst[path] = x
OutsideKept ==
  /\ \A path \in DOMAIN FilesAtFirst : OutsideText(FilesAtFirst[path]) => path.outside
  /\ \A path, other \in DOMAIN FilesAtFirst :
       path.outside /\ FilesAtFirst[other] = FilesAtFirst[path] => other = path
  /\ \A e \in Edits : ~e.path.outside /\ ~OutsideText(e.text)
  /\ \A c \in Clients : \A k \in Calls[c] : k.op = "add" => ~OutsideText(k.text)

\* Plan p was added with text x for a file that is its own, and has it still.
CopyOf(ss, p, x) ==
  /\ ss[p] # <<>> /\ ss[p][1].hash = x /\ UnderPlansDir(ss[p][1].path)
  /\ \A i \in DOMAIN ss[p] : ss[p][i].type # "Rehash"

TagsLeft == \A t \in DOMAIN tags : t \in DOMAIN TagsAtFirst /\ tags[t] \subseteq TagsAtFirst[t]

\* An outside file is as it was, and only a plan's own file is a copy of one.
FilesSound ==
  \A path \in DOMAIN files :
    /\ path.outside => path \in DOMAIN FilesAtFirst /\ files[path] = FilesAtFirst[path]
    /\ OutsideText(files[path]) => path.outside \/ \E p \in Plans : path = DefaultPath(p)

\* A file's name, and a text that was outside, are one plan's.
PlansOnce ==
  \A p \in Plans : streams[p] # <<>> =>
    /\ \A q \in Plans : streams[p][1].path = DefaultPath(q) => q = p
    /\ \A q \in Plans : streams[q] # <<>> /\ streams[p][1].path = streams[q][1].path => q = p
    /\ \A q \in Plans : \A x : OutsideText(x) /\ CopyOf(streams, p, x) /\ CopyOf(streams, q, x) => q = p

\* No plan but p is recorded at path, or has its text from outside.
Fresh(k, ss) ==
  /\ k.plan \in Plans
  /\ \A q \in Plans : k.path = DefaultPath(q) => q = k.plan
  /\ \A q \in Plans : q # k.plan /\ ss[q] # <<>> => ss[q][1].path # k.path
  /\ OutsideText(k.text) => \A q \in Plans : q # k.plan => ~CopyOf(ss, q, k.text)

\* A group is of a file that is no plan's own, with what it holds.
GroupOnce(g) ==
  /\ \A p \in Plans : g.path # DefaultPath(p)
  /\ g.path.outside => g.path \in DOMAIN FilesAtFirst /\ g.text = FilesAtFirst[g.path]
  /\ OutsideText(g.text) => g.path.outside
GroupsOnce(left) ==
  /\ \A g \in left : GroupOnce(g)
  /\ \A g, h \in left : g.path = h.path => g = h

\* What is left and recorded is a row the import read.
RowsTell(k, ss) ==
  \A g \in k.left : \A q \in Plans :
    /\ ~g.path.outside /\ ss[q] # <<>> /\ ss[q][1].path = g.path
         => q \in DOMAIN k.rows /\ k.rows[q].path = g.path
    /\ g.path.outside /\ CopyOf(ss, q, g.text)
         => /\ q \in DOMAIN k.rows /\ k.rows[q].hash = g.text
            /\ UnderPlansDir(k.rows[q].path)

\* What is registered is none of what is left.
Apart(k) == \A g \in k.left : g.path # k.path /\ (g.path.outside => g.text # k.text)

Looking == {"look", "create", "add", "govern"}
CallOnce(c, k, ss) ==
  /\ k.pc \in Looking => k.op \in Calls[c] /\ k.op.op = "add"
  /\ k.pc \in Looking \cup {"tagged"} \cup Importing => c \in Adders
  /\ k.pc = "create" => k.plan \in Plans /\ k.path = DefaultPath(k.plan)
  /\ k.pc \in {"add", "copy", "register"} => Fresh(k, ss)
  /\ k.pc \in Importing => GroupsOnce(k.left)
  /\ k.pc \in Importing \ {"list"} => RowsTell(k, ss)
  /\ k.pc \in {"copy", "register"} => Apart(k)
  /\ k.pc = "copy" => k.path = DefaultPath(k.plan)

CallsOnce == \A c \in Clients : CallOnce(c, call[c], streams)
OnceInv == TagsLeft /\ FilesSound /\ PlansOnce /\ CallsOnce

Assumed == OneAdder /\ NamesKept /\ OutsideKept

LEMMA OnceFileOnePlan ==
  ASSUME FilesSound, PlansOnce PROVE FileOnePlan
<1> SUFFICES ASSUME NEW p \in Plans, NEW q \in Plans, p # q, streams[p] # <<>>,
                    streams[q] # <<>>
             PROVE  /\ streams[p][1].path # streams[q][1].path
                    /\ ~ \E path \in DOMAIN files :
                          /\ path.outside /\ files[path] = streams[p][1].hash
                          /\ files[path] = streams[q][1].hash
                          /\ UnderPlansDir(streams[p][1].path)
                          /\ UnderPlansDir(streams[q][1].path)
                          /\ ~Rehashed(p) /\ ~Rehashed(q)
  BY DEF FileOnePlan, Added, AddOf
<1>1. streams[p][1].path # streams[q][1].path
  BY DEF PlansOnce
<1>2. ASSUME NEW path \in DOMAIN files, path.outside, files[path] = streams[p][1].hash,
             files[path] = streams[q][1].hash, UnderPlansDir(streams[p][1].path),
             UnderPlansDir(streams[q][1].path), ~Rehashed(p), ~Rehashed(q)
      PROVE  FALSE
  <2>1. OutsideText(files[path])
    BY <1>2 DEF FilesSound, OutsideText
  <2>2. CopyOf(streams, p, files[path]) /\ CopyOf(streams, q, files[path])
    BY <1>2 DEF CopyOf, Rehashed
  <2> QED BY <2>1, <2>2 DEF PlansOnce
<1> QED BY <1>1, <1>2
\* Between ss and tt no plan was added, and no text became a plan's again.
Settled(ss, tt) ==
  \A p \in Plans :
    /\ tt[p] # <<>> => ss[p] # <<>> /\ tt[p][1] = ss[p][1]
    /\ \A x : CopyOf(tt, p, x) => CopyOf(ss, p, x)

LEMMA SettlesUnadded ==
  ASSUME NEW ss, NEW tt,
         \A p \in Plans : StreamSound(ss[p]) /\ StreamSound(tt[p]) /\ Grown(ss[p], tt[p]),
         \A p \in Plans : tt[p] # <<>> => ss[p] # <<>>
  PROVE  Settled(ss, tt)
<1> SUFFICES ASSUME NEW p \in Plans
             PROVE  /\ tt[p] # <<>> => ss[p] # <<>> /\ tt[p][1] = ss[p][1]
                    /\ \A x : CopyOf(tt, p, x) => CopyOf(ss, p, x)
  BY DEF Settled
<1>1. tt[p] # <<>> => ss[p] # <<>> /\ tt[p][1] = ss[p][1]
  BY GrownStands
<1>2. ASSUME NEW x, CopyOf(tt, p, x) PROVE CopyOf(ss, p, x)
  <2>1. /\ tt[p] # <<>> /\ tt[p][1].hash = x /\ UnderPlansDir(tt[p][1].path)
        /\ \A i \in DOMAIN tt[p] : tt[p][i].type # "Rehash"
    BY <1>2 DEF CopyOf
  <2>2. \A i \in DOMAIN ss[p] : ss[p][i].type # "Rehash"
    BY <2>1 DEF Grown
  <2> QED BY <1>1, <2>1, <2>2 DEF CopyOf
<1> QED BY <1>1, <1>2

LEMMA OnceStands ==
  ASSUME NEW ss, NEW tt, Settled(ss, tt), NEW c, NEW k, CallOnce(c, k, ss)
  PROVE  CallOnce(c, k, tt)
<1>1. Fresh(k, ss) => Fresh(k, tt)
  BY DEF Fresh, Settled
<1>2. RowsTell(k, ss) => RowsTell(k, tt)
  BY DEF RowsTell, Settled
<1> QED BY <1>1, <1>2 DEF CallOnce

LEMMA PlansOnceStands ==
  ASSUME PlansOnce, Settled(streams, streams') PROVE PlansOnce'
<1> SUFFICES ASSUME NEW p \in Plans, streams'[p] # <<>>
             PROVE  /\ \A q \in Plans : streams'[p][1].path = DefaultPath(q) => q = p
                    /\ \A q \in Plans : streams'[q] # <<>>
                         /\ streams'[p][1].path = streams'[q][1].path => q = p
                    /\ \A q \in Plans : \A x : OutsideText(x) /\ CopyOf(streams', p, x)
                         /\ CopyOf(streams', q, x) => q = p
  BY DEF PlansOnce, CopyOf
<1>1. streams[p] # <<>> /\ streams'[p][1] = streams[p][1]
  BY DEF Settled
<1>2. \A q \in Plans : streams'[p][1].path = DefaultPath(q) => q = p
  BY <1>1 DEF PlansOnce
<1>3. \A q \in Plans : streams'[q] # <<>> /\ streams'[p][1].path = streams'[q][1].path => q = p
  BY <1>1 DEF PlansOnce, Settled
<1>4. \A q \in Plans : \A x : OutsideText(x) /\ CopyOf(streams', p, x) /\ CopyOf(streams', q, x)
        => q = p
  BY <1>1 DEF PlansOnce, Settled
<1> QED BY <1>2, <1>3, <1>4

LEMMA CommitAddsNone ==
  ASSUME StreamsSound, NEW p, NEW m, m.type # "Add", Committed(p, m), NEW q \in Plans,
         streams'[q] # <<>>
  PROVE  streams[q] # <<>>
<1>1. CASE ~Sound(p, m) \/ p \notin Plans \/ p # q
  BY <1>1 DEF Committed, StreamsSound
<1>2. CASE Sound(p, m) /\ p = q
  <2>1. State(p).added
    BY <1>2, SoundMay DEF Sound
  <2>2. StateTold(streams[p], State(p))
    BY <1>2, StateFacts DEF State, StreamsSound
  <2> QED BY <1>2, <2>1, <2>2 DEF StateTold
<1> QED BY <1>1, <1>2

\* Every step but an adding settles the plans.
LEMMA StepSettles ==
  ASSUME StreamsSound, [Next]_vars, \A c \in Clients : ~AddCommit(c) /\ ~ImportRegister(c)
  PROVE  Settled(streams, streams')
<1>1. StreamsSound' /\ \A q \in Plans : Grown(streams[q], streams'[q])
  BY StreamsStep
<1>2. ASSUME \A q \in Plans : streams'[q] # <<>> => streams[q] # <<>>
      PROVE  Settled(streams, streams')
  BY <1>1, <1>2, SettlesUnadded DEF StreamsSound
<1>3. CASE streams' = streams
  BY <1>2, <1>3
<1>4. ASSUME NEW p, NEW m, m.type # "Add", Committed(p, m) PROVE Settled(streams, streams')
  BY <1>2, <1>4, CommitAddsNone
<1>5. CASE OtherCommand
  <2>1. PICK e \in Elsewhere :
          /\ Refusal(State(e.plan), e.plan, e.command) = "sound"
          /\ streams' = [streams EXCEPT ![e.plan] = Append(@, e.command)]
    BY <1>5 DEF OtherCommand
  <2>2. e.command.type # "Add"
    BY PlanFilesAssumption
  <2>3. Committed(e.plan, e.command)
    BY <2>1 DEF Committed, Sound
  <2> QED BY <1>4, <2>2, <2>3
<1>6. CASE \E c \in Clients : AddGovern(c) \/ ImportJoin(c)
  <2>1. PICK p, t : Committed(p, [type |-> "Govern", task |-> t])
    BY <1>6 DEF AddGovern, ImportJoin
  <2>2. PICK m : m = [type |-> "Govern", task |-> t]
    OBVIOUS
  <2> QED BY <1>4, <2>1, <2>2
<1>7. CASE \E c \in Clients : LinkCommit(c)
  <2>1. PICK c \in Clients : LinkCommit(c)
    BY <1>7
  <2>2. PICK m : m = [type |-> IF call[c].pc = "link" THEN "Govern" ELSE "Ungovern",
                      task |-> First(call[c].tasks)]
    OBVIOUS
  <2>3. Committed(call[c].plan, m)
    BY <2>1, <2>2 DEF LinkCommit
  <2>4. m.type # "Add"
    BY <2>2
  <2> QED BY <1>4, <2>3, <2>4
<1>8. CASE \E c \in Clients : ReadRehash(c)
  <2>1. PICK p, hash : Committed(p, [type |-> "Rehash", hash |-> hash])
    BY <1>8 DEF ReadRehash
  <2>2. PICK m : m = [type |-> "Rehash", hash |-> hash]
    OBVIOUS
  <2> QED BY <1>4, <2>1, <2>2
<1>9. CASE Edit \/ (\E t \in Tasks : PruneTask(t)) \/ UNCHANGED vars
  BY <1>3, <1>9 DEF Edit, PruneTask, vars
<1>10. CASE \E c \in Clients :
             \/ Begin(c) \/ Dies(c) \/ AddLook(c) \/ AddExhausted(c) \/ AddCreate(c)
             \/ ReadRows(c) \/ ReadFile(c) \/ ReadGoverned(c) \/ ReadEnds(c)
  BY <1>3, <1>10 DEF Begin, Dies, AddLook, AddExhausted, AddCreate, ReadRows, ReadFile,
     ReadGoverned, ReadEnds
<1>11. CASE \E c \in Clients :
             \/ Governing(c) \/ ImportTagged(c) \/ ImportList(c) \/ ImportGroup(c)
             \/ ImportCopy(c) \/ ImportUntag(c) \/ ImportEnds(c)
  BY <1>3, <1>11 DEF Governing, ImportTagged, ImportList, ImportGroup, ImportCopy,
     ImportUntag, ImportEnds
<1> QED BY <1>5, <1>6, <1>7, <1>8, <1>9, <1>10, <1>11 DEF Next
\* Tags only go.
LEMMA TagsLeftStep == ASSUME TagsLeft, [Next]_vars PROVE TagsLeft'
<1>1. CASE tags' = tags
  BY <1>1 DEF TagsLeft
<1>2. CASE \E t \in Tasks : PruneTask(t)
  <2>1. PICK t \in Tasks : tags' = Without(tags, t)
    BY <1>2 DEF PruneTask
  <2> QED BY <2>1 DEF TagsLeft, Without
<1>3. CASE \E c \in Clients : ImportUntag(c)
  <2>1. PICK tv : tags' = tags \/ tags' = [tags EXCEPT ![tv[1]] = @ \ {tv[2]}]
    BY <1>3 DEF ImportUntag
  <2>2. CASE tags' = [tags EXCEPT ![tv[1]] = @ \ {tv[2]}]
    <3>1. ASSUME NEW t \in DOMAIN tags' PROVE t \in DOMAIN tags /\ tags'[t] \subseteq tags[t]
      BY <2>2
    <3> QED BY <3>1 DEF TagsLeft
  <2> QED BY <1>1, <2>1, <2>2
<1>4. CASE UNCHANGED vars \/ Edit \/ OtherCommand
  BY <1>1, <1>4 DEF vars, Edit, OtherCommand
<1>5. CASE \E c \in Clients :
             \/ Begin(c) \/ Dies(c) \/ AddLook(c) \/ AddExhausted(c) \/ AddCreate(c)
             \/ AddCommit(c) \/ AddGovern(c) \/ LinkCommit(c) \/ ReadRows(c) \/ ReadFile(c)
             \/ ReadRehash(c) \/ ReadGoverned(c) \/ ReadEnds(c)
  BY <1>1, <1>5 DEF Begin, Dies, AddLook, AddExhausted, AddCreate, AddCommit, AddGovern,
     LinkCommit, ReadRows, ReadFile, ReadRehash, ReadGoverned, ReadEnds
<1>6. CASE \E c \in Clients :
             \/ Governing(c) \/ ImportTagged(c) \/ ImportList(c) \/ ImportGroup(c)
             \/ ImportCopy(c) \/ ImportRegister(c) \/ ImportJoin(c) \/ ImportEnds(c)
  BY <1>1, <1>6 DEF Governing, ImportTagged, ImportList, ImportGroup, ImportCopy,
     ImportRegister, ImportJoin, ImportEnds
<1> QED BY <1>2, <1>3, <1>4, <1>5, <1>6 DEF Next

\* A file made is a plan's own.
LEMMA MadeSound ==
  ASSUME FilesSound, NEW p \in Plans, NEW text, files' = With(files, DefaultPath(p), text)
  PROVE  FilesSound'
<1>1. ~DefaultPath(p).outside
  BY DefaultUnder
<1> QED BY <1>1 DEF FilesSound, With

LEMMA FilesStep ==
  ASSUME FilesSound, CallsOnce, OutsideKept, [Next]_vars PROVE FilesSound'
<1>1. CASE files' = files
  BY <1>1 DEF FilesSound
<1>2. CASE Edit
  <2>1. PICK e \in Edits :
          files' = IF e.text = NoFile THEN Without(files, e.path) ELSE With(files, e.path, e.text)
    BY <1>2 DEF Edit
  <2>2. ~e.path.outside /\ ~OutsideText(e.text)
    BY DEF OutsideKept
  <2>3. ASSUME NEW path \in DOMAIN files'
        PROVE  (path = e.path /\ files'[path] = e.text)
                 \/ (path \in DOMAIN files /\ files'[path] = files[path])
    <3>1. CASE e.text = NoFile
      BY <2>1, <3>1 DEF Without
    <3>2. CASE e.text # NoFile
      BY <2>1, <3>2 DEF With
    <3> QED BY <3>1, <3>2
  <2> QED BY <2>2, <2>3 DEF FilesSound
<1>3. CASE \E c \in Clients : AddCreate(c) \/ ImportCopy(c)
  <2>1. PICK c \in Clients : AddCreate(c) \/ ImportCopy(c)
    BY <1>3
  <2>2. PICK k, text :
          /\ k = call[c] /\ k.pc \in {"create", "copy"}
          /\ files' = files \/ files' = With(files, k.path, text)
    BY <2>1 DEF AddCreate, ImportCopy, Creates
  <2>3. CallOnce(c, k, streams)
    BY <2>2 DEF CallsOnce
  <2>4. k.plan \in Plans /\ k.path = DefaultPath(k.plan)
    BY <2>2, <2>3 DEF CallOnce, Fresh
  <2> QED BY <1>1, <2>2, <2>4, MadeSound
<1>4. CASE UNCHANGED vars \/ OtherCommand \/ \E t \in Tasks : PruneTask(t)
  BY <1>1, <1>4 DEF vars, PruneTask, OtherCommand
<1>5. CASE \E c \in Clients :
             \/ Begin(c) \/ Dies(c) \/ AddLook(c) \/ AddExhausted(c)
             \/ AddCommit(c) \/ AddGovern(c) \/ LinkCommit(c) \/ ReadRows(c) \/ ReadFile(c)
             \/ ReadRehash(c) \/ ReadGoverned(c) \/ ReadEnds(c)
  BY <1>1, <1>5 DEF Begin, Dies, AddLook, AddExhausted, AddCommit, AddGovern,
     LinkCommit, ReadRows, ReadFile, ReadRehash, ReadGoverned, ReadEnds
<1>6. CASE \E c \in Clients :
             \/ Governing(c) \/ ImportTagged(c) \/ ImportList(c) \/ ImportGroup(c)
             \/ ImportUntag(c) \/ ImportRegister(c) \/ ImportJoin(c) \/ ImportEnds(c)
  BY <1>1, <1>6 DEF Governing, ImportTagged, ImportList, ImportGroup, ImportUntag,
     ImportRegister, ImportJoin, ImportEnds
<1> QED BY <1>2, <1>3, <1>4, <1>5, <1>6 DEF Next

\* A plan added where k, and only k, was about to.
LEMMA AddedOnce ==
  ASSUME StreamsSound, PlansOnce, NEW k, Fresh(k, streams), NEW m, m.type = "Add",
         m.path = k.path, m.hash = k.text, Committed(k.plan, m), Sound(k.plan, m)
  PROVE  /\ PlansOnce'
         /\ streams'[k.plan] # <<>> /\ streams'[k.plan][1] = m
         /\ \A q \in Plans : q # k.plan => streams'[q] = streams[q]
<1>1. PICK p : p = k.plan
  OBVIOUS
<1>2. p \in Plans
  BY <1>1 DEF Fresh
<1>3. /\ StreamsSound' /\ \E i \in DOMAIN streams'[p] : streams'[p][i] = m
  BY <1>1, <1>2, Commits DEF EventTypes
<1>4. streams'[p] # <<>> /\ streams'[p][1] = m
  <2>1. PICK s : s = streams'[p]
    OBVIOUS
  <2>2. PICK i \in DOMAIN s : s[i] = m
    BY <1>3, <2>1
  <2>3. i = 1
    BY <1>2, <1>3, <2>1, <2>2 DEF StreamsSound, StreamSound
  <2> QED BY <2>1, <2>2, <2>3
<1>5. \A q \in Plans : q # p => streams'[q] = streams[q]
  BY <1>1 DEF Committed, StreamsSound
<1>6. \A q \in Plans : m.path = DefaultPath(q) => q = p
  BY <1>1 DEF Fresh
<1>7. \A q \in Plans : q # p /\ streams[q] # <<>> => streams[q][1].path # m.path
  BY <1>1 DEF Fresh
<1>8. \A q \in Plans : \A x : q # p /\ OutsideText(x) /\ CopyOf(streams', p, x)
        => ~CopyOf(streams', q, x)
  <2> SUFFICES ASSUME NEW q \in Plans, NEW x, q # p, OutsideText(x), CopyOf(streams', p, x)
               PROVE  ~CopyOf(streams', q, x)
    OBVIOUS
  <2>1. x = k.text
    BY <1>4 DEF CopyOf
  <2>2. ~CopyOf(streams, q, x)
    BY <1>1, <2>1 DEF Fresh
  <2> QED BY <1>5, <2>2 DEF CopyOf
<1>9. ASSUME NEW r \in Plans, streams'[r] # <<>>, NEW q \in Plans
      PROVE  /\ streams'[r][1].path = DefaultPath(q) => q = r
             /\ streams'[q] # <<>> /\ streams'[r][1].path = streams'[q][1].path => q = r
             /\ \A x : OutsideText(x) /\ CopyOf(streams', r, x) /\ CopyOf(streams', q, x) => q = r
  <2>1. CASE r = p
    BY <1>4, <1>5, <1>6, <1>7, <1>8, <1>9, <2>1
  <2>2. CASE r # p /\ q = p
    <3>1. streams[r] # <<>> /\ streams'[r] = streams[r]
      BY <1>5, <1>9, <2>2
    <3>2. streams'[r][1].path = DefaultPath(q) => q = r
      BY <3>1 DEF PlansOnce
    <3> QED BY <1>4, <1>7, <1>8, <1>9, <2>2, <3>1, <3>2
  <2>3. CASE r # p /\ q # p
    <3>1. streams[r] # <<>> /\ streams'[r] = streams[r] /\ streams'[q] = streams[q]
      BY <1>5, <1>9, <2>3
    <3>2. \A x : /\ CopyOf(streams', r, x) => CopyOf(streams, r, x)
                 /\ CopyOf(streams', q, x) => CopyOf(streams, q, x)
      BY <3>1 DEF CopyOf
    <3> QED BY <3>1, <3>2 DEF PlansOnce
  <2> QED BY <2>1, <2>2, <2>3
<1>10. PlansOnce'
  BY <1>9 DEF PlansOnce, OutsideText
<1> QED BY <1>1, <1>4, <1>5, <1>10
\* The row of a plan added.
LEMMA RowOf ==
  ASSUME StreamsSound, NEW q \in Plans, streams[q] # <<>>
  PROVE  /\ q \in DOMAIN List.rows /\ List.rows[q].path = streams[q][1].path
         /\ \A x : CopyOf(streams, q, x) => List.rows[q].hash = x
<1>1. StateTold(streams[q], State(q))
  BY StateFacts DEF State, StreamsSound
<1>2. q \in DOMAIN List.rows /\ List.rows[q] = State(q)
  BY <1>1, ListAgreed DEF ListAgrees, Holds, StateTold
<1>3. List.rows[q].path = streams[q][1].path
  BY <1>1, <1>2 DEF StateTold
<1>4. \A x : CopyOf(streams, q, x) => List.rows[q].hash = x
  BY <1>1, <1>2 DEF StateTold, CopyOf
<1> QED BY <1>2, <1>3, <1>4

\* Plans' own files are apart.
LEMMA DefaultsApart == \A p, q \in Plans : DefaultPath(p) = DefaultPath(q) => q = p
<1> SUFFICES ASSUME NEW p \in Plans, NEW q \in Plans, DefaultPath(p) = DefaultPath(q)
             PROVE  q = p
  OBVIOUS
<1>1. PICK d, x, y : d = PlansDir /\ x = NameOf[p] /\ y = NameOf[q]
  OBVIOUS
<1>2. Append(d, x) = Append(d, y)
  BY <1>1 DEF DefaultPath
<1>3. IsStream(d)
  <2>1. d \in {".taskloom", "plans"} \X {".taskloom", "plans"}
    BY <1>1 DEF PlansDir
  <2>2. d = [i \in 1..2 |-> d[i]]
    BY <2>1
  <2> QED BY <2>2, IsASeq DEF IsStream
<1>4. Append(d, x)[Len(d) + 1] = x /\ Append(d, y)[Len(d) + 1] = y
  BY <1>3, AppendedEvent
<1>5. x = y
  BY <1>2, <1>4
<1> QED BY <1>1, <1>5, PlanNamesAssumption

\* A call that neither adds nor imports.
Plain(n) == n.pc \notin Looking \cup {"tagged"} \cup Importing

LEMMA PlainOnce == ASSUME NEW c, NEW n, Plain(n), NEW ss PROVE CallOnce(c, n, ss)
BY DEF Plain, CallOnce, Looking, Importing

LEMMA IdleOnce == \A c, ss : CallOnce(c, Idle, ss)
<1>1. Plain(Idle)
  BY DEF Plain, Idle, Looking, Importing
<1> QED BY <1>1, PlainOnce

LEMMA BeginOnce ==
  ASSUME NEW c \in Clients, Begin(c)
  PROVE  \E n : CallOnce(c, n, streams) /\ call' = [call EXCEPT ![c] = n]
<1>1. PICK o \in Calls[c] :
        LET missing == {t \in o.tasks : ~Exists(t)}
            begin(pc) == Goes(c, [Idle EXCEPT !.pc = pc, !.op = o, !.plan = o.plan,
                                              !.tasks = o.tasks]) IN
        CASE o.op = "add" ->
               IF AddRefusal([title |-> o.title, status |-> o.status, hash |-> NoFile])
                    # "sound"
                 THEN Refuses(c, AddRefusal([title |-> o.title, status |-> o.status,
                                             hash |-> NoFile]))
               ELSE IF missing # {} THEN Refuses(c, "NoSuchTask")
               ELSE begin("look")
          [] o.op = "link" ->
               IF ~Holds(o.plan) THEN Refuses(c, "NoSuchPlan")
               ELSE IF o.link /\ missing # {} THEN Refuses(c, "NoSuchTask")
               ELSE begin(IF o.link THEN "link" ELSE "unlink")
          [] o.op \in {"read", "check"} -> begin("rows")
          [] o.op = "governing" -> begin("governing")
          [] o.op = "import" -> begin("tagged")
  BY DEF Begin
<1>2. o.op \in {"add", "import", "link", "read", "check", "governing"}
  BY PlanFilesAssumption
<1> DEFINE begun(pc) == [Idle EXCEPT !.pc = pc, !.op = o, !.plan = o.plan, !.tasks = o.tasks]
           begin(pc) == call' = [call EXCEPT ![c] = begun(pc)]
           End == call' = [call EXCEPT ![c] = Idle]
<1>3. \A pc : begun(pc).pc = pc /\ begun(pc).op = o
  BY DEF Idle
<1>4. CASE o.op = "add"
  <2>1. End \/ begin("look")
    BY <1>1, <1>4 DEF Goes, Ends, Refuses
  <2>2. c \in Adders
    BY <1>4 DEF Adders
  <2>3. CallOnce(c, begun("look"), streams)
    <3> HIDE DEF begun
    <3> QED BY <1>3, <1>4, <2>2 DEF CallOnce, Looking, Importing
  <2> QED BY <2>1, <2>3, IdleOnce
<1>5. CASE o.op = "import"
  <2>1. begin("tagged")
    BY <1>1, <1>5 DEF Goes, Ends, Refuses
  <2>2. c \in Adders
    BY <1>5 DEF Adders
  <2>3. CallOnce(c, begun("tagged"), streams)
    <3> HIDE DEF begun
    <3> QED BY <1>3, <2>2 DEF CallOnce, Looking, Importing
  <2> QED BY <2>1, <2>3
<1>6. CASE o.op \in {"link", "read", "check", "governing"}
  <2>1. End \/ \E pc \in {"link", "unlink", "rows", "governing"} : begin(pc)
    <3>1. CASE o.op = "link"
      <4>1. End \/ begin("link") \/ begin("unlink")
        BY <1>1, <3>1 DEF Goes, Ends, Refuses
      <4> QED BY <4>1
    <3>2. CASE o.op \in {"read", "check"}
      <4>1. begin("rows")
        BY <1>1, <3>2 DEF Goes, Ends, Refuses
      <4> QED BY <4>1
    <3>3. CASE o.op = "governing"
      <4>1. begin("governing")
        BY <1>1, <3>3 DEF Goes, Ends, Refuses
      <4> QED BY <4>1
    <3> QED BY <1>6, <3>1, <3>2, <3>3
  <2>2. \A pc \in {"link", "unlink", "rows", "governing"} : Plain(begun(pc))
    <3> HIDE DEF begun
    <3> QED BY <1>3 DEF Plain, Looking, Importing
  <2> QED BY <2>1, <2>2, IdleOnce, PlainOnce
<1> QED BY <1>2, <1>4, <1>5, <1>6

\* The steps of calls that neither add nor import.
PlainStep(c) ==
  \/ Dies(c) \/ AddExhausted(c) \/ LinkCommit(c)
  \/ ReadRows(c) \/ ReadFile(c) \/ ReadRehash(c) \/ ReadGoverned(c) \/ ReadEnds(c)
  \/ Governing(c) \/ ImportEnds(c)

LEMMA PlainSteps ==
  ASSUME NEW c \in Clients, IsCall(call[c]), PlainStep(c), NEW ss
  PROVE  \E n : CallOnce(c, n, ss) /\ call' = [call EXCEPT ![c] = n]
<1>1. PICK k : k = call[c]
  OBVIOUS
<1>2. IsCall(k)
  BY <1>1
<1>3. CASE call' = [call EXCEPT ![c] = Idle]
  BY <1>3, IdleOnce
<1>4. ASSUME NEW n, call' = [call EXCEPT ![c] = n], n.pc \in {"file", "rehash", "governed"}
      PROVE  \E x : CallOnce(c, x, ss) /\ call' = [call EXCEPT ![c] = x]
  <2>1. Plain(n)
    BY <1>4 DEF Plain, Looking, Importing
  <2> QED BY <1>4, <2>1, PlainOnce
<1>5. CASE \/ Dies(c) \/ AddExhausted(c) \/ LinkCommit(c) \/ ReadEnds(c) \/ Governing(c)
           \/ ImportEnds(c)
  BY <1>3, <1>5 DEF Dies, AddExhausted, LinkCommit, ReadEnds, Governing, ImportEnds, Ends, Refuses
<1>6. CASE ReadRows(c)
  <2>1. PICK left, rows :
          \/ call' = [call EXCEPT ![c] = Idle]
          \/ call' = [call EXCEPT ![c] = [k EXCEPT !.pc = "file", !.left = left, !.rows = rows]]
    BY <1>1, <1>6 DEF ReadRows, Goes, Ends, Refuses
  <2>2. [k EXCEPT !.pc = "file", !.left = left, !.rows = rows].pc = "file"
    BY <1>2 DEF IsCall
  <2> QED BY <1>3, <1>4, <2>1, <2>2
<1>7. CASE ReadFile(c)
  <2>1. PICK n : call' = [call EXCEPT ![c] = n] /\ n.pc \in {"governed", "rehash"}
    <3>1. PICK p :
            LET row == k.rows[p]
                text == TextAt(row.path)
                missing == IF text = NoFile THEN {[why |-> "Missing", plan |-> p, on |-> row.path]}
                           ELSE {} IN
            Goes(c, [k EXCEPT
              !.pc = IF text \in {NoFile, row.hash} THEN "governed" ELSE "rehash",
              !.plan = p, !.text = text, !.found = @ \cup missing])
      BY <1>1, <1>7 DEF ReadFile
    <3>2. PICK text, missing, pc :
            /\ text = TextAt(k.rows[p].path)
            /\ missing = IF text = NoFile
                           THEN {[why |-> "Missing", plan |-> p, on |-> k.rows[p].path]} ELSE {}
            /\ pc = IF text \in {NoFile, k.rows[p].hash} THEN "governed" ELSE "rehash"
      OBVIOUS
    <3>3. PICK n : n = [k EXCEPT !.pc = pc, !.plan = p, !.text = text, !.found = @ \cup missing]
      OBVIOUS
    <3>4. call' = [call EXCEPT ![c] = n]
      BY <3>1, <3>2, <3>3, Zenon DEF Goes
    <3>5. n.pc = pc
      BY <1>2, <3>3 DEF IsCall
    <3> QED BY <3>2, <3>4, <3>5
  <2> QED BY <1>4, <2>1
<1>8. CASE ReadRehash(c)
  <2>1. call' = [call EXCEPT ![c] = [k EXCEPT !.pc = "governed"]]
    BY <1>1, <1>8 DEF ReadRehash, Goes
  <2>2. [k EXCEPT !.pc = "governed"].pc = "governed"
    BY <1>2 DEF IsCall
  <2> QED BY <1>4, <2>1, <2>2
<1>9. CASE ReadGoverned(c)
  <2>1. PICK left, found :
          call' = [call EXCEPT ![c] = [k EXCEPT !.pc = "file", !.left = left, !.found = found]]
    BY <1>1, <1>9 DEF ReadGoverned, Goes
  <2>2. [k EXCEPT !.pc = "file", !.left = left, !.found = found].pc = "file"
    BY <1>2 DEF IsCall
  <2> QED BY <1>4, <2>1, <2>2
<1> QED BY <1>5, <1>6, <1>7, <1>8, <1>9 DEF PlainStep

LEMMA AddCreateOnce ==
  ASSUME NEW c \in Clients, IsCall(call[c]), CallsOnce, PlansOnce, OutsideKept, AddCreate(c)
  PROVE  \E n : CallOnce(c, n, streams) /\ call' = [call EXCEPT ![c] = n]
<1>1. PICK k, text : k = call[c] /\ text = k.op.text
  OBVIOUS
<1>2. PICK n : n = [k EXCEPT !.pc = "add", !.text = text]
  OBVIOUS
<1>3. k.pc = "create" /\ CallOnce(c, k, streams)
  BY <1>1 DEF CallsOnce, AddCreate
<1>4. /\ k.op \in Calls[c] /\ k.op.op = "add" /\ c \in Adders
      /\ k.plan \in Plans /\ k.path = DefaultPath(k.plan)
  BY <1>3 DEF CallOnce, Looking
<1>5. n.pc = "add" /\ n.op = k.op /\ n.plan = k.plan /\ n.path = k.path /\ n.text = text
  BY <1>1, <1>2 DEF IsCall
<1>6. ~OutsideText(text)
  BY <1>1, <1>4 DEF OutsideKept
<1>7. \A q \in Plans : DefaultPath(k.plan) = DefaultPath(q) => q = k.plan
  BY <1>4, DefaultsApart
<1>8. \A q \in Plans : q # k.plan /\ streams[q] # <<>> => streams[q][1].path # k.path
  BY <1>4 DEF PlansOnce
<1>9. Fresh(n, streams)
  BY <1>4, <1>5, <1>6, <1>7, <1>8 DEF Fresh
<1>10. CallOnce(c, n, streams)
  BY <1>4, <1>5, <1>9 DEF CallOnce, Looking, Importing
<1>11. CASE call' = [call EXCEPT ![c] = Idle]
  BY <1>11, IdleOnce
<1>12. CASE call' = [call EXCEPT ![c] = n]
  BY <1>10, <1>12
<1> QED BY <1>1, <1>2, <1>11, <1>12 DEF AddCreate, Creates, Goes, Refuses, Ends

LEMMA AddLookOnce ==
  ASSUME NEW c \in Clients, IsCall(call[c]), CallsOnce, PlansOnce, FilesSound, StreamsSound,
         Assumed, AddLook(c)
  PROVE  \E n : CallOnce(c, n, streams) /\ call' = [call EXCEPT ![c] = n]
<1>1. PICK k, o : k = call[c] /\ o = k.op
  OBVIOUS
<1>2. k.pc = "look" /\ CallOnce(c, k, streams)
  BY <1>1 DEF CallsOnce, AddLook
<1>3. o \in Calls[c] /\ o.op = "add" /\ c \in Adders
  BY <1>1, <1>2 DEF CallOnce, Looking
<1>4. PICK p, path :
        /\ p \in Plans /\ path = IF o.given = NoPath THEN DefaultPath(p) ELSE Located(o.given)
        /\ \/ /\ o.given = NoPath
              /\ call' = [call EXCEPT ![c] = [k EXCEPT !.pc = "create", !.plan = p, !.path = path]]
           \/ call' = [call EXCEPT ![c] = Idle]
           \/ /\ o.given # NoPath /\ PathRefusal(o.given) = "sound"
              /\ TextAt(path) # NoFile /\ ByPath(List, path) = {}
              /\ call' = [call EXCEPT ![c] = [k EXCEPT !.pc = "add", !.plan = p, !.path = path,
                                                       !.text = TextAt(path)]]
  BY <1>1 DEF AddLook, Goes, Refuses, Ends
<1>5. CASE call' = [call EXCEPT ![c] = Idle]
  BY <1>5, IdleOnce
<1>6. ASSUME o.given = NoPath,
             call' = [call EXCEPT ![c] = [k EXCEPT !.pc = "create", !.plan = p, !.path = path]]
      PROVE  \E n : CallOnce(c, n, streams) /\ call' = [call EXCEPT ![c] = n]
  <2>1. PICK n : n = [k EXCEPT !.pc = "create", !.plan = p, !.path = path]
    OBVIOUS
  <2>2. n.pc = "create" /\ n.op = o /\ n.plan = p /\ n.path = path
    BY <1>1, <2>1 DEF IsCall
  <2>3. CallOnce(c, n, streams)
    BY <1>3, <1>4, <1>6, <2>2 DEF CallOnce, Looking, Importing
  <2> QED BY <1>6, <2>1, <2>3
<1>7. ASSUME o.given # NoPath, PathRefusal(o.given) = "sound",
             TextAt(path) # NoFile, ByPath(List, path) = {},
             call' = [call EXCEPT ![c] = [k EXCEPT !.pc = "add", !.plan = p, !.path = path,
                                                   !.text = TextAt(path)]]
      PROVE  \E n : CallOnce(c, n, streams) /\ call' = [call EXCEPT ![c] = n]
  <2>1. PICK text, n : text = TextAt(path) /\ n = [k EXCEPT !.pc = "add", !.plan = p,
                                                         !.path = path, !.text = text]
    OBVIOUS
  <2>2. n.pc = "add" /\ n.op = o /\ n.plan = p /\ n.path = path /\ n.text = text
    BY <1>1, <2>1 DEF IsCall
  <2>3. path = Located(o.given) /\ ~path.outside /\ \A q \in Plans : path # DefaultPath(q)
    <3>1. path = Located(o.given)
      BY <1>4, <1>7
    <3>2. ~Located(o.given).outside
      BY <1>7 DEF PathRefusal
    <3> QED BY <1>3, <1>7, <3>1, <3>2 DEF Assumed, NamesKept
  <2>4. ~OutsideText(text)
    BY <1>7, <2>1, <2>3 DEF TextAt, FilesSound
  <2>5. ASSUME NEW q \in Plans, streams[q] # <<>> PROVE streams[q][1].path # path
    BY <1>7, <2>5, RowOf DEF ByPath
  <2>6. Fresh(n, streams)
    BY <1>4, <2>2, <2>3, <2>4, <2>5 DEF Fresh
  <2>7. CallOnce(c, n, streams)
    BY <1>3, <2>2, <2>6 DEF CallOnce, Looking, Importing
  <2> QED BY <1>7, <2>1, <2>7
<1> QED BY <1>4, <1>5, <1>6, <1>7
\* The steps that stay in a call's adding or import, and leave its work.
LEMMA GovernOnce ==
  ASSUME NEW c \in Clients, IsCall(call[c]), CallsOnce, AddGovern(c), NEW ss
  PROVE  \E n : CallOnce(c, n, ss) /\ call' = [call EXCEPT ![c] = n]
<1>1. PICK k, t : k = call[c] /\ t = First(k.tasks)
  OBVIOUS
<1>2. PICK n : n = [k EXCEPT !.tasks = @ \ {t}]
  OBVIOUS
<1>3. k.pc = "govern" /\ CallOnce(c, k, streams)
  BY <1>1 DEF CallsOnce, AddGovern
<1>4. n.pc = "govern" /\ n.op = k.op
  BY <1>1, <1>2, <1>3 DEF IsCall
<1>5. CallOnce(c, n, ss)
  BY <1>3, <1>4 DEF CallOnce, Looking, Importing
<1>6. CASE call' = [call EXCEPT ![c] = Idle]
  BY <1>6, IdleOnce
<1>7. CASE call' = [call EXCEPT ![c] = n]
  BY <1>5, <1>7
<1> QED BY <1>1, <1>2, <1>6, <1>7 DEF AddGovern, Goes, Refuses, Ends

\* What of an import's call its place in the groups depends on.
LEMMA ImportKeeps ==
  ASSUME NEW c, NEW k, NEW n, NEW ss, CallOnce(c, k, ss), k.pc \in {"join", "untag", "group"},
         n.pc \in {"join", "untag", "group"}, n.left \subseteq k.left, n.rows = k.rows
  PROVE  CallOnce(c, n, ss)
<1>1. GroupsOnce(n.left)
  BY DEF CallOnce, GroupsOnce, Importing
<1>2. RowsTell(n, ss)
  BY DEF CallOnce, RowsTell, Importing
<1> QED BY <1>1, <1>2 DEF CallOnce, Looking, Importing

LEMMA JoinOnce ==
  ASSUME NEW c \in Clients, IsCall(call[c]), CallsOnce, ImportJoin(c),
         Settled(streams, streams')
  PROVE  \E n : CallOnce(c, n, streams') /\ call' = [call EXCEPT ![c] = n]
<1>1. PICK k, t, pc, n :
        /\ k = call[c] /\ t = First(k.tasks)
        /\ pc = IF k.tasks = {t} THEN "untag" ELSE "join"
        /\ n = [k EXCEPT !.pc = pc, !.tasks = @ \ {t}]
  OBVIOUS
<1>2. k.pc = "join" /\ CallOnce(c, k, streams) /\ call' = [call EXCEPT ![c] = n]
  BY <1>1 DEF CallsOnce, ImportJoin, Goes
<1>3. CallOnce(c, k, streams')
  BY <1>2, OnceStands
<1>4. n.pc = pc /\ n.left = k.left /\ n.rows = k.rows
  BY <1>1 DEF IsCall
<1>5. k.pc \in {"join", "untag", "group"} /\ n.pc \in {"join", "untag", "group"}
      /\ n.left \subseteq k.left /\ n.rows = k.rows
  BY <1>1, <1>2, <1>4
<1>6. CallOnce(c, n, streams')
  BY <1>3, <1>5, ImportKeeps
<1> QED BY <1>2, <1>6

LEMMA UntagOnce ==
  ASSUME NEW c \in Clients, IsCall(call[c]), CallsOnce, ImportUntag(c)
  PROVE  \E n : CallOnce(c, n, streams) /\ call' = [call EXCEPT ![c] = n]
<1>1. PICK k, tv, left, pc, n :
        /\ k = call[c] /\ tv = First(k.group.tags) /\ left = k.group.tags \ {tv}
        /\ pc = IF left = {} THEN "group" ELSE "untag"
        /\ n = [k EXCEPT !.pc = pc, !.group.tags = left]
  OBVIOUS
<1>2. k.pc = "untag" /\ CallOnce(c, k, streams)
  BY <1>1 DEF CallsOnce, ImportUntag
<1>3. n.pc = pc /\ n.left = k.left /\ n.rows = k.rows
  BY <1>1 DEF IsCall
<1>4. k.pc \in {"join", "untag", "group"} /\ n.pc \in {"join", "untag", "group"}
      /\ n.left \subseteq k.left /\ n.rows = k.rows
  BY <1>1, <1>2, <1>3
<1>5. CallOnce(c, n, streams)
  BY <1>2, <1>4, ImportKeeps
<1>6. CASE call' = [call EXCEPT ![c] = Idle]
  BY <1>6, IdleOnce
<1>7. CASE call' = [call EXCEPT ![c] = n]
  BY <1>5, <1>7
<1> QED BY <1>1, <1>6, <1>7 DEF ImportUntag, Goes, Refuses, Ends

\* The groups read are of files there, one each, and of none that is a plan's own.
LEMMA SortedOnce ==
  ASSUME TagsLeft, FilesSound, Assumed PROVE GroupsOnce(Sorted.groups)
<1> DEFINE named == {<<t, v>> : t \in DOMAIN tags, v \in UNION {tags[x] : x \in DOMAIN tags}}
           tagged == {tv \in named : tv[2] \in tags[tv[1]]}
           plans == {tv \in tagged : TextAt(Located(tv[2])) # NoFile /\ IsPlanFile(Located(tv[2]))}
           groups == {[path |-> path, text |-> TextAt(path),
                       tags |-> {tv \in plans : Located(tv[2]) = path}] :
                        path \in {Located(tv[2]) : tv \in plans}}
<1>1. Sorted.groups = groups
  BY DEF Sorted
<1>2. \A tv \in plans : /\ tv[1] \in DOMAIN TagsAtFirst /\ tv[2] \in TagsAtFirst[tv[1]]
                        /\ TextAt(Located(tv[2])) # NoFile
  <2> SUFFICES ASSUME NEW tv \in plans
               PROVE  /\ tv[1] \in DOMAIN TagsAtFirst /\ tv[2] \in TagsAtFirst[tv[1]]
                      /\ TextAt(Located(tv[2])) # NoFile
    OBVIOUS
  <2>1. tv \in named /\ tv[2] \in tags[tv[1]] /\ TextAt(Located(tv[2])) # NoFile
    OBVIOUS
  <2>2. tv[1] \in DOMAIN tags
    BY <2>1
  <2> QED BY <2>1, <2>2 DEF TagsLeft
<1> HIDE DEF plans
<1>3. ASSUME NEW g \in groups
      PROVE  /\ g.text = TextAt(g.path) /\ g.text # NoFile
             /\ \A p \in Plans : g.path # DefaultPath(p)
             /\ g = [path |-> g.path, text |-> TextAt(g.path),
                     tags |-> {tv \in plans : Located(tv[2]) = g.path}]
  <2>1. PICK tv \in plans :
          g = [path |-> Located(tv[2]), text |-> TextAt(Located(tv[2])),
               tags |-> {x \in plans : Located(x[2]) = Located(tv[2])}]
    OBVIOUS
  <2>2. g.path = Located(tv[2])
    BY <2>1
  <2>3. \A p \in Plans : g.path # DefaultPath(p)
    BY <1>2, <2>2 DEF Assumed, NamesKept
  <2> QED BY <1>2, <2>1, <2>2, <2>3
<1> HIDE DEF groups
<1>4. ASSUME NEW g \in groups PROVE GroupOnce(g)
  <2>1. g.path \in DOMAIN files /\ g.text = files[g.path]
    BY <1>3 DEF TextAt
  <2> QED BY <1>3, <2>1 DEF GroupOnce, FilesSound
<1>5. ASSUME NEW g \in groups, NEW h \in groups, g.path = h.path PROVE h = g
  <2>1. PICK path : path = g.path
    OBVIOUS
  <2>2. g = [path |-> path, text |-> TextAt(path), tags |-> {tv \in plans : Located(tv[2]) = path}]
    BY <1>3, <2>1
  <2>3. h = [path |-> path, text |-> TextAt(path), tags |-> {tv \in plans : Located(tv[2]) = path}]
    BY <1>3, <1>5, <2>1
  <2> QED BY <2>2, <2>3
<1> QED BY <1>1, <1>4, <1>5 DEF GroupsOnce

LEMMA TaggedOnce ==
  ASSUME NEW c \in Clients, IsCall(call[c]), CallsOnce, TagsLeft, FilesSound, Assumed,
         ImportTagged(c)
  PROVE  \E n : CallOnce(c, n, streams) /\ call' = [call EXCEPT ![c] = n]
<1>1. PICK k, groups, found : k = call[c] /\ groups = Sorted.groups /\ found = Sorted.left
  OBVIOUS
<1>2. PICK n : n = [k EXCEPT !.pc = "list", !.left = groups, !.found = found]
  OBVIOUS
<1>3. k.pc = "tagged" /\ CallOnce(c, k, streams) /\ call' = [call EXCEPT ![c] = n]
  BY <1>1, <1>2 DEF CallsOnce, ImportTagged, Goes
<1>4. n.pc = "list" /\ n.left = groups
  BY <1>1, <1>2 DEF IsCall
<1>5. CallOnce(c, n, streams)
  BY <1>1, <1>3, <1>4, SortedOnce DEF CallOnce, Looking, Importing
<1> QED BY <1>3, <1>5

LEMMA ListOnce ==
  ASSUME NEW c \in Clients, IsCall(call[c]), CallsOnce, StreamsSound, ImportList(c)
  PROVE  \E n : CallOnce(c, n, streams) /\ call' = [call EXCEPT ![c] = n]
<1>1. PICK k, rows : k = call[c] /\ rows = List.rows
  OBVIOUS
<1>2. PICK n : n = [k EXCEPT !.pc = "group", !.rows = rows]
  OBVIOUS
<1>3. k.pc = "list" /\ CallOnce(c, k, streams)
  BY <1>1 DEF CallsOnce, ImportList
<1>4. n.pc = "group" /\ n.left = k.left /\ n.rows = rows
  BY <1>1, <1>2 DEF IsCall
<1>5. RowsTell(n, streams)
  <2> SUFFICES ASSUME NEW g \in n.left, NEW q \in Plans
               PROVE  /\ ~g.path.outside /\ streams[q] # <<>> /\ streams[q][1].path = g.path
                           => q \in DOMAIN n.rows /\ n.rows[q].path = g.path
                      /\ g.path.outside /\ CopyOf(streams, q, g.text)
                           => /\ q \in DOMAIN n.rows /\ n.rows[q].hash = g.text
                              /\ UnderPlansDir(n.rows[q].path)
    BY DEF RowsTell
  <2> QED BY <1>1, <1>4, RowOf DEF CopyOf
<1>6. CallOnce(c, n, streams)
  BY <1>3, <1>4, <1>5 DEF CallOnce, Looking, Importing
<1>7. CASE call' = [call EXCEPT ![c] = Idle]
  BY <1>7, IdleOnce
<1>8. CASE call' = [call EXCEPT ![c] = n]
  BY <1>6, <1>8
<1> QED BY <1>1, <1>2, <1>7, <1>8 DEF ImportList, Goes, Ends

LEMMA CopyOnce ==
  ASSUME NEW c \in Clients, IsCall(call[c]), CallsOnce, ImportCopy(c)
  PROVE  \E n : CallOnce(c, n, streams) /\ call' = [call EXCEPT ![c] = n]
<1>1. PICK k, n : k = call[c] /\ n = [k EXCEPT !.pc = "register"]
  OBVIOUS
<1>2. k.pc = "copy" /\ CallOnce(c, k, streams)
  BY <1>1 DEF CallsOnce, ImportCopy
<1>3. /\ n.pc = "register" /\ n.left = k.left /\ n.rows = k.rows /\ n.plan = k.plan
      /\ n.path = k.path /\ n.text = k.text
  BY <1>1 DEF IsCall
<1>4. CallOnce(c, n, streams)
  BY <1>2, <1>3 DEF CallOnce, Looking, Importing, Fresh, RowsTell, Apart
<1>5. CASE call' = [call EXCEPT ![c] = Idle]
  BY <1>5, IdleOnce
<1>6. CASE call' = [call EXCEPT ![c] = n]
  BY <1>4, <1>6
<1> QED BY <1>1, <1>5, <1>6 DEF ImportCopy, Creates, Refuses, Ends, Goes
\* A group taken is joined to the plan recorded for it, or to a new one no
\* other is recorded for.
LEMMA GroupOnceStep ==
  ASSUME NEW c \in Clients, IsCall(call[c]), CallsOnce, PlansOnce, Assumed, ImportGroup(c)
  PROVE  \E n : CallOnce(c, n, streams) /\ call' = [call EXCEPT ![c] = n]
<1>1. CASE call' = [call EXCEPT ![c] = Idle]
  BY <1>1, IdleOnce
<1>2. PICK h, g, k : /\ h = call[c]
                     /\ g = First(IF {x \in h.left : ~x.path.outside} = {} THEN h.left
                                  ELSE {x \in h.left : ~x.path.outside})
                     /\ k = [h EXCEPT !.left = @ \ {g}, !.group = g, !.text = g.text]
  OBVIOUS
<1>3. IsCall(h) /\ h.pc = "group" /\ h.left # {} /\ CallOnce(c, h, streams)
  BY <1>2 DEF CallsOnce, ImportGroup
<1>4. g \in h.left
  BY <1>2, <1>3 DEF First
<1>5. /\ IsCall(k) /\ k.pc = "group" /\ k.group = g /\ k.rows = h.rows
      /\ k.left = h.left \ {g} /\ k.text = g.text
  BY <1>2, <1>3 DEF IsCall
<1>6. c \in Adders /\ GroupsOnce(h.left) /\ RowsTell(h, streams)
  BY <1>3 DEF CallOnce, Importing
<1>7. CallOnce(c, k, streams)
  BY <1>3, <1>5, ImportKeeps
<1>8. PICK list, recorded :
        /\ list = [EmptyList EXCEPT !.rows = h.rows]
        /\ recorded = IF g.path.outside THEN CopiesOf(list, g.text) ELSE ByPath(list, g.path)
  OBVIOUS
<1>9. list.rows = h.rows
  BY <1>8 DEF EmptyList
<1>10. ASSUME NEW p \in recorded, call' = [call EXCEPT ![c] = JoiningRecorded(k, p)]
       PROVE  \E n : CallOnce(c, n, streams) /\ call' = [call EXCEPT ![c] = n]
  <2>1. PICK path, tasks, pc, n :
          /\ path = k.rows[p].path /\ tasks = {tv[1] : tv \in k.group.tags} \ k.rows[p].governs
          /\ pc = IF tasks = {} THEN "untag" ELSE "join"
          /\ n = [k EXCEPT !.pc = pc, !.plan = p, !.path = path, !.tasks = tasks]
    OBVIOUS
  <2>2. JoiningRecorded(k, p) = n
    BY <2>1 DEF JoiningRecorded, Joining
  <2>3. n.pc = pc /\ n.left = k.left /\ n.rows = k.rows
    BY <1>5, <2>1 DEF IsCall
  <2>4. n.pc \in {"join", "untag", "group"} /\ n.left \subseteq k.left /\ n.rows = k.rows
    BY <2>1, <2>3
  <2>5. CallOnce(c, n, streams)
    BY <1>5, <1>7, <2>4, ImportKeeps
  <2> QED BY <1>10, <2>2, <2>5
<1>11. ASSUME recorded = {}, NEW p \in Plans,
              call' = [call EXCEPT ![c] =
                [k EXCEPT !.pc = IF g.path.outside THEN "copy" ELSE "register", !.plan = p,
                          !.path = IF g.path.outside THEN DefaultPath(p) ELSE g.path]]
       PROVE  \E n : CallOnce(c, n, streams) /\ call' = [call EXCEPT ![c] = n]
  <2>1. PICK path, pc, n :
          /\ path = IF g.path.outside THEN DefaultPath(p) ELSE g.path
          /\ pc = IF g.path.outside THEN "copy" ELSE "register"
          /\ n = [k EXCEPT !.pc = pc, !.plan = p, !.path = path]
    OBVIOUS
  <2>2. /\ n.pc = pc /\ n.plan = p /\ n.path = path /\ n.left = k.left
        /\ n.rows = k.rows /\ n.text = g.text
    BY <1>5, <2>1 DEF IsCall
  <2>3. GroupOnce(g) /\ \A x \in n.left : GroupOnce(x) /\ x.path # g.path
    BY <1>4, <1>5, <1>6, <2>2 DEF GroupsOnce
  <2>4. \A q \in Plans : path = DefaultPath(q) => q = p
    BY <2>1, <2>3, DefaultsApart DEF GroupOnce
  <2>5. ASSUME NEW q \in Plans, q # p, streams[q] # <<>> PROVE streams[q][1].path # path
    <3>1. CASE g.path.outside
      BY <2>1, <2>5, <3>1 DEF PlansOnce
    <3>2. CASE ~g.path.outside
      BY <1>4, <1>6, <1>8, <1>9, <1>11, <2>1, <2>5, <3>2 DEF RowsTell, ByPath
    <3> QED BY <3>1, <3>2
  <2>6. ASSUME OutsideText(g.text), NEW q \in Plans PROVE ~CopyOf(streams, q, g.text)
    <3>1. g.path.outside
      BY <2>3, <2>6 DEF GroupOnce
    <3> QED BY <1>4, <1>6, <1>8, <1>9, <1>11, <3>1 DEF RowsTell, CopiesOf
  <2>7. Fresh(n, streams)
    BY <2>2, <2>4, <2>5, <2>6 DEF Fresh
  <2>8. ASSUME NEW x \in n.left PROVE x.path # n.path /\ (x.path.outside => x.text # n.text)
    <3>1. x.path # n.path
      BY <2>1, <2>2, <2>3 DEF GroupOnce
    <3>2. ASSUME x.path.outside PROVE x.text # n.text
      <4>1. x.path \in DOMAIN FilesAtFirst /\ x.text = FilesAtFirst[x.path]
        BY <2>3, <3>2 DEF GroupOnce
      <4>2. OutsideText(x.text)
        BY <3>2, <4>1 DEF OutsideText
      <4>3. CASE ~g.path.outside
        BY <2>2, <2>3, <4>2, <4>3 DEF GroupOnce
      <4>4. CASE g.path.outside
        <5>1. g.path \in DOMAIN FilesAtFirst /\ g.text = FilesAtFirst[g.path]
          BY <2>3, <4>4 DEF GroupOnce
        <5> QED BY <2>2, <2>3, <3>2, <4>1, <5>1 DEF Assumed, OutsideKept
      <4> QED BY <4>3, <4>4
    <3> QED BY <3>1, <3>2
  <2>9. GroupsOnce(n.left) /\ RowsTell(n, streams)
    BY <1>7, <1>5, <2>2 DEF CallOnce, Importing, RowsTell
  <2>10. pc = "copy" => n.path = DefaultPath(n.plan)
    BY <2>1, <2>2
  <2>11. CallOnce(c, n, streams)
    BY <1>6, <2>1, <2>2, <2>7, <2>8, <2>9, <2>10 DEF CallOnce, Looking, Importing, Apart
  <2> QED BY <1>11, <2>1, <2>11
<1>12. \/ \E p \in recorded : Goes(c, JoiningRecorded(k, p))
       \/ /\ recorded = {}
          /\ \E p \in Plans :
               Goes(c, [k EXCEPT !.pc = IF g.path.outside THEN "copy" ELSE "register", !.plan = p,
                                 !.path = IF g.path.outside THEN DefaultPath(p) ELSE g.path])
       \/ Refuses(c, "HarpsExhausted")
  BY <1>2, <1>8 DEF ImportGroup
<1> QED BY <1>1, <1>10, <1>11, <1>12 DEF Goes, Refuses, Ends

\* What an import registers is none of what it has left.
LEMMA RegisterOnce ==
  ASSUME NEW c \in Clients, IsCall(call[c]), CallsOnce, PlansOnce, StreamsSound,
         AddCommit(c) \/ ImportRegister(c)
  PROVE  /\ PlansOnce'
         /\ \E n : CallOnce(c, n, streams') /\ call' = [call EXCEPT ![c] = n]
<1>1. PICK k, status, m :
        /\ k = call[c] /\ m = AddCommand(c, status)
        /\ status = IF k.pc = "add" THEN k.op.status ELSE "active"
  OBVIOUS
<1>2. /\ k.pc \in {"add", "register"} /\ Committed(k.plan, m)
      /\ k.pc = "add" => AddCommit(c)
      /\ k.pc = "register" => ImportRegister(c)
  BY <1>1 DEF AddCommit, ImportRegister
<1>3. m.type = "Add" /\ m.path = k.path /\ m.hash = k.text
  BY <1>1 DEF AddCommand
<1>4. CallOnce(c, k, streams) /\ Fresh(k, streams)
  BY <1>1, <1>2 DEF CallsOnce, CallOnce
<1>5. CASE ~Sound(k.plan, m)
  <2>1. streams' = streams
    BY <1>2, <1>5 DEF Committed
  <2>2. PlansOnce'
    BY <2>1 DEF PlansOnce, OutsideText, CopyOf
  <2>3. call' = [call EXCEPT ![c] = Idle]
    BY <1>1, <1>2, <1>5 DEF AddCommit, ImportRegister, Refuses, Ends
  <2> QED BY <2>2, <2>3, IdleOnce
<1>6. CASE Sound(k.plan, m)
  <2>1. /\ PlansOnce'
        /\ streams'[k.plan] # <<>> /\ streams'[k.plan][1] = m
        /\ \A q \in Plans : q # k.plan => streams'[q] = streams[q]
    BY <1>2, <1>3, <1>4, <1>6, AddedOnce
  <2>2. CASE k.pc = "add"
    <3>1. PICK n : n = [k EXCEPT !.pc = "govern"]
      OBVIOUS
    <3>2. n.pc = "govern" /\ n.op = k.op
      BY <1>1, <3>1 DEF IsCall
    <3>3. CallOnce(c, n, streams')
      BY <1>4, <2>2, <3>2 DEF CallOnce, Looking, Importing
    <3>4. call' = [call EXCEPT ![c] = Idle] \/ call' = [call EXCEPT ![c] = n]
      BY <1>1, <1>2, <1>6, <2>2, <3>1 DEF AddCommit, Ends, Goes
    <3> QED BY <2>1, <3>3, <3>4, IdleOnce
  <2>3. CASE k.pc = "register"
    <3>1. PICK tasks, pc, n :
            /\ tasks = {tv[1] : tv \in k.group.tags} \ {}
            /\ pc = IF tasks = {} THEN "untag" ELSE "join"
            /\ n = [k EXCEPT !.pc = pc, !.plan = k.plan, !.path = k.path, !.tasks = tasks]
      OBVIOUS
    <3>2. Joining(k, k.plan, k.path, {}) = n
      BY <3>1 DEF Joining
    <3>3. n.pc = pc /\ n.left = k.left /\ n.rows = k.rows
      BY <1>1, <3>1 DEF IsCall
    <3>4. call' = [call EXCEPT ![c] = n]
      BY <1>1, <1>2, <1>6, <2>3, <3>2 DEF ImportRegister, Goes
    <3>5. GroupsOnce(k.left) /\ RowsTell(k, streams) /\ Apart(k) /\ c \in Adders
      BY <1>4, <2>3 DEF CallOnce, Importing
    <3>6. ASSUME NEW g \in k.left, NEW q \in Plans
          PROVE  /\ ~g.path.outside /\ streams'[q] # <<>> /\ streams'[q][1].path = g.path
                      => q \in DOMAIN k.rows /\ k.rows[q].path = g.path
                 /\ g.path.outside /\ CopyOf(streams', q, g.text)
                      => /\ q \in DOMAIN k.rows /\ k.rows[q].hash = g.text
                         /\ UnderPlansDir(k.rows[q].path)
      <4>1. CASE q = k.plan
        BY <1>3, <2>1, <3>5, <4>1 DEF Apart, CopyOf
      <4>2. CASE q # k.plan
        BY <2>1, <3>5, <4>2 DEF RowsTell, CopyOf
      <4> QED BY <4>1, <4>2
    <3>7. RowsTell(n, streams')
      BY <3>3, <3>6 DEF RowsTell
    <3>8. pc \in {"untag", "join"}
      BY <3>1
    <3>9. CallOnce(c, n, streams')
      BY <3>3, <3>5, <3>7, <3>8 DEF CallOnce, Looking, Importing
    <3> QED BY <2>1, <3>4, <3>9
  <2> QED BY <1>2, <2>2, <2>3
<1> QED BY <1>5, <1>6

\* A step of one call, the plans settled or added to by it alone.
LEMMA CallsOnceFrom ==
  ASSUME CallsSound, NEW c \in Clients, NEW n, CallOnce(c, n, streams'),
         call' = [call EXCEPT ![c] = n],
         \A d \in Clients \ {c} : CallOnce(d, call[d], streams')
  PROVE  CallsOnce'
<1>1. call' = [d \in Clients |-> IF d = c THEN n ELSE call[d]]
  BY DEF CallsSound
<1>2. \A d \in Clients : CallOnce(d, call'[d], streams')
  BY <1>1
<1> QED BY <1>2 DEF CallsOnce, CallOnce, Adders, Fresh, OutsideText, GroupsOnce, GroupOnce,
       RowsTell, Apart, CopyOf

LEMMA CallsOnceSame ==
  ASSUME \A c \in Clients : CallOnce(c, call[c], streams'), call' = call PROVE CallsOnce'
<1>1. \A c \in Clients : CallOnce(c, call'[c], streams')
  OBVIOUS
<1> QED BY <1>1 DEF CallsOnce, CallOnce, Adders, Fresh, OutsideText, GroupsOnce, GroupOnce,
       RowsTell, Apart, CopyOf

LEMMA OnceInvStep ==
  ASSUME Assumed, ImportInv, OnceInv, [Next]_vars PROVE OnceInv'
<1>1. /\ TagsLeft /\ FilesSound /\ PlansOnce /\ CallsOnce
      /\ StreamsSound /\ CallsSound /\ \A c \in Clients : IsCall(call[c])
  BY DEF OnceInv, ImportInv, CallsSound, CallSound
<1>2. TagsLeft' /\ FilesSound'
  BY <1>1, TagsLeftStep, FilesStep DEF Assumed
<1>3. CASE \A c \in Clients : ~AddCommit(c) /\ ~ImportRegister(c)
  <2>1. Settled(streams, streams')
    BY <1>1, <1>3, StepSettles
  <2>2. PlansOnce'
    BY <1>1, <2>1, PlansOnceStands
  <2>3. \A c \in Clients : CallOnce(c, call[c], streams')
    BY <1>1, <2>1, OnceStands DEF CallsOnce
  <2>4. ASSUME NEW c \in Clients, NEW n, CallOnce(c, n, streams'), call' = [call EXCEPT ![c] = n]
        PROVE  CallsOnce'
    BY <1>1, <2>3, <2>4, CallsOnceFrom
  <2>5. ASSUME UNCHANGED vars \/ Edit \/ OtherCommand \/ \E t \in Tasks : PruneTask(t)
        PROVE  CallsOnce'
    <3>1. call' = call
      BY <2>5 DEF vars, Edit, OtherCommand, PruneTask
    <3> QED BY <2>3, <3>1, CallsOnceSame
  <2>6. ASSUME NEW c \in Clients, PlainStep(c) PROVE CallsOnce'
    BY <1>1, <2>4, <2>6, PlainSteps
  <2>7. ASSUME NEW c \in Clients, AddGovern(c) PROVE CallsOnce'
    BY <1>1, <2>4, <2>7, GovernOnce
  <2>8. ASSUME NEW c \in Clients, ImportJoin(c) PROVE CallsOnce'
    BY <1>1, <2>1, <2>4, <2>8, JoinOnce
  <2>9. ASSUME NEW c \in Clients,
                \/ Begin(c) \/ AddLook(c) \/ AddCreate(c) \/ ImportTagged(c) \/ ImportList(c)
                \/ ImportGroup(c) \/ ImportCopy(c) \/ ImportUntag(c)
         PROVE  CallsOnce'
    <3>1. streams' = streams
      BY <2>9 DEF Begin, AddLook, AddCreate, ImportTagged, ImportList, ImportGroup,
         ImportCopy, ImportUntag
    <3>2. \E n : CallOnce(c, n, streams) /\ call' = [call EXCEPT ![c] = n]
      <4>1. CASE Begin(c)
        BY <4>1, BeginOnce
      <4>2. CASE AddLook(c)
        BY <1>1, <4>2, AddLookOnce
      <4>3. CASE AddCreate(c)
        BY <1>1, <4>3, AddCreateOnce DEF Assumed
      <4>4. CASE ImportTagged(c)
        BY <1>1, <4>4, TaggedOnce
      <4>5. CASE ImportList(c)
        BY <1>1, <4>5, ListOnce
      <4>6. CASE ImportGroup(c)
        BY <1>1, <4>6, GroupOnceStep
      <4>7. CASE ImportCopy(c)
        BY <1>1, <4>7, CopyOnce
      <4>8. CASE ImportUntag(c)
        BY <1>1, <4>8, UntagOnce
      <4> QED BY <2>9, <4>1, <4>2, <4>3, <4>4, <4>5, <4>6, <4>7, <4>8
    <3> QED BY <2>4, <3>1, <3>2
  <2>10. ASSUME NEW c \in Clients,
                \/ Begin(c) \/ Dies(c)
                \/ AddLook(c) \/ AddExhausted(c) \/ AddCreate(c) \/ AddCommit(c) \/ AddGovern(c)
                \/ LinkCommit(c)
                \/ ReadRows(c) \/ ReadFile(c) \/ ReadRehash(c) \/ ReadGoverned(c) \/ ReadEnds(c)
                \/ Governing(c)
                \/ ImportTagged(c) \/ ImportList(c) \/ ImportGroup(c) \/ ImportCopy(c)
                \/ ImportRegister(c) \/ ImportJoin(c) \/ ImportUntag(c) \/ ImportEnds(c)
         PROVE  CallsOnce'
    <3>1. ~AddCommit(c) /\ ~ImportRegister(c)
      BY <1>3
    <3> QED BY <2>6, <2>7, <2>8, <2>9, <2>10, <3>1 DEF PlainStep
  <2>11. CallsOnce'
    BY <2>5, <2>10 DEF Next
  <2> QED BY <1>2, <2>2, <2>11 DEF OnceInv
<1>4. ASSUME NEW c \in Clients, AddCommit(c) \/ ImportRegister(c) PROVE OnceInv'
  <2>1. /\ PlansOnce'
        /\ \E n : CallOnce(c, n, streams') /\ call' = [call EXCEPT ![c] = n]
    BY <1>1, <1>4, RegisterOnce
  <2>2. c \in Adders
    <3>1. CallOnce(c, call[c], streams) /\ call[c].pc \in {"add", "register"}
      BY <1>1, <1>4 DEF CallsOnce, AddCommit, ImportRegister
    <3> QED BY <3>1 DEF CallOnce, Looking, Importing
  <2>3. ASSUME NEW d \in Clients \ {c} PROVE CallOnce(d, call[d], streams')
    <3>1. CallOnce(d, call[d], streams)
      BY <1>1 DEF CallsOnce
    <3>2. d \notin Adders
      BY <2>2 DEF Assumed, OneAdder
    <3>3. Plain(call[d])
      BY <3>1, <3>2 DEF CallOnce, Plain
    <3> QED BY <3>3, PlainOnce
  <2>4. CallsOnce'
    BY <1>1, <2>1, <2>3, CallsOnceFrom
  <2> QED BY <1>2, <2>1, <2>4 DEF OnceInv
<1> QED BY <1>3, <1>4

LEMMA OnceInvFirst == ASSUME Assumed, Init PROVE OnceInv
<1>1. TagsLeft
  BY DEF Init, TagsLeft
<1>2. FilesSound
  BY DEF Init, FilesSound, Assumed, OutsideKept
<1>3. PlansOnce
  BY DEF Init, PlansOnce
<1>4. CallsOnce
  BY IdleOnce DEF Init, CallsOnce
<1> QED BY <1>1, <1>2, <1>3, <1>4 DEF OnceInv

\* No two plans record one path, or are copies of one outside file, however
\* often imports die between copying, registering and joining and are run
\* again (import.rs:17), beside any other calls, edits and prunes: where one
\* process at a time adds or imports (two adds at once each look the path up
\* before either is recorded), no file is given the name of another plan's own,
\* and the outside files are left alone and hold texts of their own (a copy is
\* known by its text).
THEOREM FilesKeepOnePlan ==
  ASSUME OneAdder, NamesKept, OutsideKept PROVE Spec => []FileOnePlan
<1>1. Assumed
  BY DEF Assumed
<1>2. Init => ImportInv /\ OnceInv
  BY <1>1, ImportInvFirst, OnceInvFirst
<1>3. ImportInv /\ OnceInv /\ [Next]_vars => (ImportInv /\ OnceInv)'
  BY <1>1, ImportInvStep, OnceInvStep
<1>4. ImportInv /\ OnceInv => FileOnePlan
  BY OnceFileOnePlan DEF OnceInv
<1> QED BY <1>2, <1>3, <1>4, PTL DEF Spec

------------------------------------------------------------------------------
(* Where a path names a file.  What normalizing leaves names only names,    *)
(* and is left as it is when it is normalized again.                        *)

Clean(s) == IsStream(s) /\ \A i \in DOMAIN s : s[i] \notin Unnamed

\* What one more component makes of a path.
Joined(r, x) ==
  IF x \in {"", "."} THEN r
  ELSE IF x = ".." THEN IF r = <<>> THEN <<>> ELSE Front(r)
  ELSE Append(r, x)

\* f[n] is what the first n components make.
Normalizes(f, s, m) ==
  f = [n \in 0..m |-> IF n = 0 THEN <<>> ELSE Joined(f[n-1], s[n])]

LEMMA NormalizesExist == ASSUME NEW s PROVE \A m \in Nat : \E f : Normalizes(f, s, m)
<1> DEFINE T == {m \in Nat : \E f : Normalizes(f, s, m)}
<1>1. 0 \in T
  <2>1. Normalizes([n \in 0..0 |-> <<>>], s, 0)
    BY DEF Normalizes
  <2> QED BY <2>1
<1>2. ASSUME NEW m \in Nat, m \in T PROVE m + 1 \in T
  <2>1. PICK f : Normalizes(f, s, m)
    BY <1>2
  <2> DEFINE on == Joined(f[m], s[m + 1])
             g == [n \in 0..(m + 1) |-> IF n <= m THEN f[n] ELSE on]
  <2>2. (\A n \in 0..m : g[n] = f[n]) /\ g[m + 1] = on
    OBVIOUS
  <2>3. g = [n \in 0..(m + 1) |-> g[n]]
    OBVIOUS
  <2>4. \A n \in 0..m : f[n] = IF n = 0 THEN <<>> ELSE Joined(f[n-1], s[n])
    BY <2>1 DEF Normalizes
  <2> HIDE DEF g
  <2>5. ASSUME NEW n \in 0..(m + 1)
        PROVE  g[n] = IF n = 0 THEN <<>> ELSE Joined(g[n-1], s[n])
    <3>1. CASE n = m + 1
      <4>1. n # 0 /\ n - 1 = m /\ m \in 0..m
        BY <3>1
      <4> QED BY <2>2, <3>1, <4>1
    <3>2. CASE n \in 0..m
      <4>1. n # 0 => n - 1 \in 0..m
        BY <3>2
      <4> QED BY <2>2, <2>4, <3>2, <4>1
    <3> QED BY <3>1, <3>2
  <2>6. Normalizes(g, s, m + 1)
    BY <2>3, <2>5 DEF Normalizes
  <2> QED BY <2>6
<1>3. Nat \subseteq T
  <2> HIDE DEF T
  <2> QED BY <1>1, <1>2, Induction
<1> QED BY <1>3

LEMMA NormalizedIs ==
  ASSUME NEW s, Len(s) \in Nat
  PROVE  \E f : /\ Normalized(s) = f[Len(s)]
               /\ f[0] = <<>>
               /\ \A n \in Nat : n + 1 <= Len(s) => f[n + 1] = Joined(f[n], s[n + 1])
<1>1. \E f : Normalizes(f, s, Len(s))
  BY NormalizesExist
<1>2. PICK f : Normalizes(f, s, Len(s)) /\ Normalized(s) = f[Len(s)]
  BY <1>1 DEF Normalized, Normalizes, Joined
<1>3. PICK m \in Nat : m = Len(s)
  OBVIOUS
<1>4. \A n \in 0..m : f[n] = IF n = 0 THEN <<>> ELSE Joined(f[n-1], s[n])
  BY <1>2, <1>3 DEF Normalizes
<1>5. f[0] = <<>>
  <2>1. 0 \in 0..m
    OBVIOUS
  <2> QED BY <1>4, <2>1
<1>6. ASSUME NEW n \in Nat, n + 1 <= m PROVE f[n + 1] = Joined(f[n], s[n + 1])
  <2>1. n + 1 \in 0..m /\ n + 1 # 0 /\ (n + 1) - 1 = n
    BY <1>6
  <2> QED BY <1>4, <2>1
<1> QED BY <1>2, <1>3, <1>5, <1>6

LEMMA CleanFront ==
  ASSUME NEW s, Clean(s), s # <<>> PROVE Clean(Front(s))
<1> DEFINE S == {s[i] : i \in DOMAIN s}
<1>1. s \in Seq(S) /\ Len(s) \in Nat /\ DOMAIN s = 1..Len(s) /\ Len(s) # 0
  BY EmptySeq DEF Clean, IsStream
<1>2. PICK t : t = SubSeq(s, 1, Len(s) - 1)
  OBVIOUS
<1>3. /\ t \in Seq(S) /\ Len(t) = Len(s) - 1
      /\ \A i \in 1..(Len(s) - 1) : t[i] = s[i]
  <2> HIDE DEF S
  <2>1. \A i \in 1..(Len(s) - 1) : s[i] \in S
    BY <1>1
  <2>2. 1 \in Int /\ Len(s) - 1 \in Int
    BY <1>1
  <2> QED BY <1>1, <1>2, <2>1, <2>2, SubSeqProperties
<1>4. DOMAIN t = 1..(Len(s) - 1)
  BY <1>3
<1>5. IsStream(t)
  <2> DEFINE R == {t[j] : j \in DOMAIN t}
  <2>1. PICK n \in Nat : n = Len(t) /\ DOMAIN t = 1..n
    <3>1. Len(t) \in Nat /\ DOMAIN t = 1..Len(t)
      <4> HIDE DEF S
      <4> QED BY <1>3
    <3> QED BY <3>1
  <2>2. \A i \in 1..n : t[i] \in R
    BY <2>1
  <2> HIDE DEF R
  <2>3. [i \in 1..n |-> t[i]] \in Seq(R)
    BY <2>2, IsASeq
  <2>4. t = [i \in 1..n |-> t[i]]
    <3> HIDE DEF S
    <3> QED BY <1>3, <2>1
  <2> QED BY <2>3, <2>4 DEF IsStream, R
<1>6. \A i \in DOMAIN t : t[i] \notin Unnamed
  BY <1>1, <1>3, <1>4 DEF Clean
<1> QED BY <1>2, <1>5, <1>6 DEF Clean, Front

LEMMA CleanJoined ==
  ASSUME NEW r, Clean(r), NEW x PROVE Clean(Joined(r, x))
<1>1. CASE x \in {"", "."}
  BY <1>1 DEF Joined
<1>2. CASE x = ".."
  <2>1. Joined(r, x) = IF r = <<>> THEN <<>> ELSE Front(r)
    BY <1>2 DEF Joined
  <2> QED BY <2>1, CleanFront
<1>3. CASE x \notin Unnamed
  <2>1. Joined(r, x) = Append(r, x)
    BY <1>3 DEF Joined, Unnamed
  <2>2. /\ IsStream(Append(r, x)) /\ Len(r) \in Nat
        /\ DOMAIN r = 1..Len(r) /\ DOMAIN Append(r, x) = 1..(Len(r) + 1)
        /\ \A i \in 1..Len(r) : Append(r, x)[i] = r[i]
        /\ Append(r, x)[Len(r) + 1] = x
    BY AppendedEvent DEF Clean
  <2>3. \A i \in 1..(Len(r) + 1) : i \in 1..Len(r) \/ i = Len(r) + 1
    BY <2>2
  <2> QED BY <1>3, <2>1, <2>2, <2>3 DEF Clean
<1> QED BY <1>1, <1>2, <1>3 DEF Unnamed

LEMMA CleanEmpty == Clean(<<>>)
<1>1. <<>> \in Seq({<<>>[i] : i \in DOMAIN <<>>})
  OBVIOUS
<1> QED BY <1>1 DEF Clean, IsStream

LEMMA NormalizedClean ==
  ASSUME NEW s, Len(s) \in Nat PROVE Clean(Normalized(s))
<1>1. PICK f : /\ Normalized(s) = f[Len(s)]
               /\ f[0] = <<>>
               /\ \A n \in Nat : n + 1 <= Len(s) => f[n + 1] = Joined(f[n], s[n + 1])
  BY NormalizedIs
<1> DEFINE T == {n \in Nat : n <= Len(s) => Clean(f[n])}
<1>2. 0 \in T
  BY <1>1, CleanEmpty
<1>3. \A n \in Nat : n \in T => n + 1 \in T
  BY <1>1, CleanJoined
<1>4. Nat \subseteq T
  <2> HIDE DEF T
  <2> QED BY <1>2, <1>3, Induction
<1> QED BY <1>1, <1>4

LEMMA NormalizedAgain ==
  ASSUME NEW s, Clean(s) PROVE Normalized(s) = s
<1> DEFINE S == {s[i] : i \in DOMAIN s}
<1>1. s \in Seq(S) /\ Len(s) \in Nat /\ DOMAIN s = 1..Len(s)
  BY DEF Clean, IsStream
<1>2. PICK f : /\ Normalized(s) = f[Len(s)]
               /\ f[0] = <<>>
               /\ \A n \in Nat : n + 1 <= Len(s) => f[n + 1] = Joined(f[n], s[n + 1])
  BY <1>1, NormalizedIs
<1> DEFINE Upto(n) == f[n] \in Seq(S) /\ Len(f[n]) = n /\ \A i \in 1..n : f[n][i] = s[i]
           T == {n \in Nat : n <= Len(s) => Upto(n)}
<1>3. 0 \in T
  <2>1. <<>> \in Seq(S) /\ Len(<<>>) = 0 /\ (1..0) = {}
    OBVIOUS
  <2> HIDE DEF S
  <2> QED BY <1>2, <2>1
<1>4. ASSUME NEW n \in Nat, Upto(n), n + 1 <= Len(s) PROVE Upto(n + 1)
  <2>1. n + 1 \in 1..Len(s) /\ s[n + 1] \in S
    BY <1>1, <1>4
  <2>2. s[n + 1] \notin Unnamed
    BY <1>1, <2>1 DEF Clean
  <2>3. f[n + 1] = Append(f[n], s[n + 1])
    BY <1>2, <1>4, <2>2 DEF Joined, Unnamed
  <2> HIDE DEF S
  <2>4. PICK r, x : r = f[n] /\ x = s[n + 1]
    OBVIOUS
  <2>5. r \in Seq(S) /\ x \in S /\ Len(r) = n /\ \A i \in 1..n : r[i] = s[i]
    BY <1>4, <2>1, <2>4
  <2>6. /\ Append(r, x) \in Seq(S) /\ Len(Append(r, x)) = n + 1
        /\ \A i \in 1..n : Append(r, x)[i] = r[i]
        /\ Append(r, x)[n + 1] = x
    BY <2>5, AppendProperties
  <2>7. \A i \in 1..(n + 1) : i \in 1..n \/ i = n + 1
    OBVIOUS
  <2> QED BY <2>3, <2>4, <2>5, <2>6, <2>7
<1>5. Upto(Len(s))
  <2>1. \A n \in Nat : n \in T => n + 1 \in T
    <3> HIDE DEF Upto
    <3> QED BY <1>1, <1>4
  <2>2. Nat \subseteq T
    <3> HIDE DEF T
    <3> QED BY <1>3, <2>1, Induction
  <2> HIDE DEF Upto
  <2> QED BY <1>1, <2>2
<1> HIDE DEF S
<1> QED BY <1>1, <1>2, <1>5, SeqEqual

\* A path cut in two is the two of them joined.
LEMMA CutAndJoined ==
  ASSUME NEW a, IsStream(a), NEW n \in Nat, n < Len(a)
  PROVE  SubSeq(a, 1, n) \o SubSeq(a, n + 1, Len(a)) = a
<1> DEFINE S == {a[i] : i \in DOMAIN a}
<1>1. a \in Seq(S) /\ Len(a) \in Nat /\ DOMAIN a = 1..Len(a)
  BY DEF IsStream
<1>2. \A i \in 1..Len(a) : a[i] \in S
  BY <1>1
<1> HIDE DEF S
<1>3. PICK h, t : h = SubSeq(a, 1, n) /\ t = SubSeq(a, n + 1, Len(a))
  OBVIOUS
<1>4. h \in Seq(S) /\ Len(h) = n /\ \A i \in 1..n : h[i] = a[i]
  <2>1. 1 \in Int /\ n \in Int /\ \A i \in 1..n : a[i] \in S
    BY <1>1, <1>2
  <2> QED BY <1>1, <1>3, <2>1, SubSeqProperties
<1>5. /\ t \in Seq(S) /\ Len(t) = Len(a) - n
      /\ \A i \in 1..(Len(a) - n) : t[i] = a[n + i]
  <2>1. n + 1 \in Int /\ Len(a) \in Int /\ \A i \in (n + 1)..Len(a) : a[i] \in S
    BY <1>1, <1>2
  <2>2. PICK m, l : m = n + 1 /\ l = Len(a)
    OBVIOUS
  <2>3. m \in Int /\ l \in Int /\ \A i \in m..l : a[i] \in S
    BY <2>1, <2>2
  <2>4. /\ t \in Seq(S)
        /\ Len(t) = IF m <= l THEN l - m + 1 ELSE 0
        /\ \A i \in 1..(l - m + 1) : t[i] = a[m + i - 1]
    BY <1>3, <2>2, <2>3, SubSeqProperties
  <2>5. l - m + 1 = Len(a) - n /\ m <= l /\ \A i \in Int : m + i - 1 = n + i
    BY <1>1, <2>2
  <2>6. \A i \in 1..(Len(a) - n) : m + i - 1 = n + i
    BY <1>1, <2>5
  <2> QED BY <2>4, <2>5, <2>6
<1>6. PICK b : b = h \o t
  OBVIOUS
<1>7. /\ b \in Seq(S) /\ Len(b) = Len(a)
      /\ \A i \in 1..Len(a) : b[i] = IF i <= n THEN h[i] ELSE t[i - n]
  <2>1. /\ b \in Seq(S) /\ Len(b) = Len(h) + Len(t)
        /\ \A i \in 1..(Len(h) + Len(t)) : b[i] = IF i <= Len(h) THEN h[i] ELSE t[i - Len(h)]
    BY <1>4, <1>5, <1>6, ConcatProperties
  <2>2. Len(h) + Len(t) = Len(a)
    BY <1>1, <1>4, <1>5
  <2> QED BY <1>4, <2>1, <2>2
<1>8. ASSUME NEW i \in 1..Len(a) PROVE b[i] = a[i]
  <2>1. CASE i <= n
    BY <1>4, <1>7, <2>1
  <2>2. CASE i > n
    <3>1. i - n \in 1..(Len(a) - n) /\ n + (i - n) = i /\ ~(i <= n)
      BY <1>1, <2>2
    <3> QED BY <1>5, <1>7, <3>1
  <2> QED BY <1>1, <2>1, <2>2
<1> QED BY <1>1, <1>3, <1>6, <1>7, <1>8, SeqEqual

\* What is located is written as it is located: inside the work root, its
\* path joined to the work root's is what was given, normalized.
LEMMA LocatedCanonical ==
  ASSUME NEW given, IsPath(given.parts) PROVE Canonical(Located(given))
<1>1. PICK a : a = Normalized(IF given.absolute THEN given.parts ELSE WorkRoot \o given.parts)
  OBVIOUS
<1>2. Clean(a)
  <2>1. Len(given.parts) \in Nat
    BY DEF IsPath
  <2>2. Len(WorkRoot \o given.parts) \in Nat
    BY NamesAssumption, ConcatProperties DEF IsPath
  <2>3. Len(IF given.absolute THEN given.parts ELSE WorkRoot \o given.parts) \in Nat
    BY <2>1, <2>2
  <2> QED BY <1>1, <2>3, NormalizedClean
<1>3. Normalized(a) = a
  BY <1>2, NormalizedAgain
<1>4. Len(a) \in Nat /\ Len(WorkRoot) \in Nat
  BY <1>2, NamesAssumption DEF Clean, IsStream, IsPath
<1>5. PICK n \in Nat : n = Len(WorkRoot)
  BY <1>4
<1>6. CASE Len(a) > n /\ SubSeq(a, 1, n) = WorkRoot
  <2>1. PICK rest : rest = SubSeq(a, n + 1, Len(a))
    OBVIOUS
  <2>2. Located(given) = [outside |-> FALSE, parts |-> rest]
    BY <1>1, <1>5, <1>6, <2>1 DEF Located
  <2>3. WorkRoot \o rest = a
    BY <1>2, <1>4, <1>6, <2>1, CutAndJoined DEF Clean
  <2>4. Located([absolute |-> FALSE, parts |-> rest]) = [outside |-> FALSE, parts |-> rest]
    BY <1>3, <1>5, <1>6, <2>1, <2>3 DEF Located
  <2> QED BY <2>2, <2>4 DEF Canonical
<1>7. CASE ~(Len(a) > n /\ SubSeq(a, 1, n) = WorkRoot)
  <2>1. Located(given) = [outside |-> TRUE, parts |-> a]
    BY <1>1, <1>5, <1>7 DEF Located
  <2>2. Located([absolute |-> TRUE, parts |-> a]) = [outside |-> TRUE, parts |-> a]
    BY <1>3, <1>5, <1>7 DEF Located
  <2> QED BY <2>1, <2>2 DEF Canonical
<1> QED BY <1>6, <1>7

\* Two paths joined are cut where they were joined.
LEMMA JoinedAndCut ==
  ASSUME NEW w, Clean(w), NEW s, Clean(s), s # <<>>
  PROVE  \E b : /\ b = w \o s /\ Clean(b) /\ Len(b) > Len(w)
                /\ SubSeq(b, 1, Len(w)) = w /\ SubSeq(b, Len(w) + 1, Len(b)) = s
<1>0. PICK b : b = w \o s
  OBVIOUS
<1> DEFINE S == {w[i] : i \in DOMAIN w} \cup {s[i] : i \in DOMAIN s}
<1>1. w \in Seq(S) /\ s \in Seq(S)
  BY DEF Clean, IsStream
<1>2. /\ Len(w) \in Nat /\ DOMAIN w = 1..Len(w)
      /\ Len(s) \in Nat /\ DOMAIN s = 1..Len(s)
  BY <1>1
<1>3. (\A i \in 1..Len(w) : w[i] \notin Unnamed) /\ \A i \in 1..Len(s) : s[i] \notin Unnamed
  BY <1>2 DEF Clean
<1> HIDE DEF S
<1>4. Len(s) # 0
  BY <1>1, EmptySeq
<1>5. PICK m, l \in Nat : m = Len(w) /\ l = Len(s)
  BY <1>2
<1>6. /\ b \in Seq(S) /\ Len(b) = m + l
      /\ \A i \in 1..(m + l) : b[i] = IF i <= m THEN w[i] ELSE s[i - m]
  <2>1. /\ b \in Seq(S) /\ Len(b) = Len(w) + Len(s)
        /\ \A i \in 1..(Len(w) + Len(s)) : b[i] = IF i <= Len(w) THEN w[i] ELSE s[i - Len(w)]
    BY <1>0, <1>1, ConcatProperties
  <2> QED BY <1>5, <2>1
<1>7. DOMAIN b = 1..(m + l) /\ \A i \in 1..(m + l) : b[i] \in S
  BY <1>6
<1>8. Clean(b)
  <2>1. ASSUME NEW i \in 1..(m + l) PROVE b[i] \notin Unnamed
    <3>1. CASE i <= m
      BY <1>3, <1>5, <1>6, <3>1
    <3>2. CASE i > m
      <4>1. i - m \in 1..l /\ ~(i <= m)
        BY <1>5, <3>2
      <4> QED BY <1>3, <1>5, <1>6, <4>1
    <3> QED BY <1>5, <3>1, <3>2
  <2> DEFINE R == {b[j] : j \in DOMAIN b}
  <2>2. PICK k \in Nat : k = m + l
    BY <1>5
  <2>3. \A i \in 1..k : b[i] \in R
    BY <1>7, <2>2
  <2> HIDE DEF R
  <2>4. [i \in 1..k |-> b[i]] \in Seq(R)
    BY <2>2, <2>3, IsASeq
  <2>5. b = [i \in 1..k |-> b[i]]
    BY <1>6, <2>2
  <2> QED BY <1>7, <2>1, <2>4, <2>5 DEF Clean, IsStream, R
<1>9. SubSeq(b, 1, m) = w
  <2>1. PICK t : t = SubSeq(b, 1, m)
    OBVIOUS
  <2>2. 1 \in Int /\ m \in Int /\ \A i \in 1..m : b[i] \in S
    BY <1>5, <1>7
  <2>3. t \in Seq(S) /\ Len(t) = m /\ \A i \in 1..m : t[i] = b[i]
    BY <1>5, <2>1, <2>2, SubSeqProperties
  <2>4. \A i \in 1..m : t[i] = w[i]
    BY <1>5, <1>6, <2>3
  <2> QED BY <1>1, <1>5, <2>1, <2>3, <2>4, SeqEqual
<1>10. SubSeq(b, m + 1, m + l) = s
  <2>1. PICK u, v, t : u = m + 1 /\ v = m + l /\ t = SubSeq(b, u, v)
    OBVIOUS
  <2>2. u \in Int /\ v \in Int /\ \A i \in u..v : b[i] \in S
    BY <1>5, <1>7, <2>1
  <2>3. /\ t \in Seq(S) /\ Len(t) = IF u <= v THEN v - u + 1 ELSE 0
        /\ \A i \in 1..(v - u + 1) : t[i] = b[u + i - 1]
    BY <2>1, <2>2, SubSeqProperties
  <2>4. v - u + 1 = l /\ u <= v
    BY <1>4, <1>5, <2>1
  <2>5. ASSUME NEW i \in 1..l PROVE t[i] = s[i]
    <3>1. u + i - 1 = m + i /\ m + i \in 1..(m + l) /\ ~(m + i <= m) /\ (m + i) - m = i
      BY <1>5, <2>1
    <3>2. t[i] = b[u + i - 1]
      BY <2>3, <2>4
    <3>3. b[m + i] = s[(m + i) - m]
      BY <1>6, <3>1
    <3> QED BY <3>1, <3>2, <3>3
  <2> QED BY <1>1, <1>5, <2>1, <2>3, <2>4, <2>5, SeqEqual
<1>11. Len(b) > Len(w)
  <2>1. l # 0 /\ m + l > m
    BY <1>4, <1>5
  <2> QED BY <1>5, <1>6, <2>1
<1>12. SubSeq(b, Len(w) + 1, Len(b)) = s
  <2>1. Len(b) = m + l /\ Len(w) = m
    BY <1>5, <1>6
  <2> QED BY <1>10, <2>1
<1>13. SubSeq(b, 1, Len(w)) = w
  <2>1. Len(w) = m
    BY <1>5
  <2> QED BY <1>9, <2>1
<1> QED BY <1>0, <1>8, <1>11, <1>12, <1>13

\* The path a plan's file has by default.
LEMMA DefaultCanonical ==
  ASSUME NEW p \in Plans
  PROVE  /\ ~DefaultPath(p).outside /\ IsPlanFile(DefaultPath(p)) /\ Canonical(DefaultPath(p))
<1>1. PICK x : x = NameOf[p]
  OBVIOUS
<1>2. x \in PlanNames /\ x \notin Unnamed
  BY <1>1, NamesAssumption, PlanNamesAssumption
<1>3. PICK s : s = Append(PlansDir, x)
  OBVIOUS
<1>4. Clean(PlansDir)
  <2>1. PlansDir = <<".taskloom", "plans">> /\ DOMAIN PlansDir = 1..2
    BY DEF PlansDir
  <2>2. PlansDir[1] = ".taskloom" /\ PlansDir[2] = "plans"
    BY <2>1
  <2>3. IsStream(PlansDir)
    <3>1. \A i \in 1..2 : PlansDir[i] \in {PlansDir[j] : j \in DOMAIN PlansDir}
      BY <2>1
    <3> QED BY <2>1, <3>1 DEF IsStream
  <2>4. \A i \in 1..2 : i = 1 \/ i = 2
    OBVIOUS
  <2>5. PlansDir[1] \notin Unnamed /\ PlansDir[2] \notin Unnamed
    BY <2>2 DEF Unnamed
  <2> QED BY <2>1, <2>3, <2>4, <2>5 DEF Clean
<1>5. Joined(PlansDir, x) = s
  BY <1>2, <1>3 DEF Joined, Unnamed
<1>6. Clean(s)
  BY <1>4, <1>5, CleanJoined
<1>7. s # <<>> /\ Last(s) = x
  <2>1. /\ Len(PlansDir) \in Nat /\ Len(s) = Len(PlansDir) + 1 /\ DOMAIN s = 1..(Len(PlansDir) + 1)
        /\ s[Len(PlansDir) + 1] = x
    BY <1>3, <1>4, AppendedEvent DEF Clean
  <2>2. Len(PlansDir) + 1 \in DOMAIN s
    BY <2>1
  <2>3. s # <<>>
    BY <2>2
  <2> QED BY <2>1, <2>3 DEF Last
<1>8. DefaultPath(p) = [outside |-> FALSE, parts |-> s]
  BY <1>1, <1>3 DEF DefaultPath
<1>9. PICK n : n = Len(WorkRoot)
  OBVIOUS
<1>10. Clean(WorkRoot)
  BY NamesAssumption DEF Clean, IsStream, IsPath, ToSet
<1>11. PICK b : /\ b = WorkRoot \o s /\ Clean(b) /\ Len(b) > Len(WorkRoot)
                /\ SubSeq(b, 1, Len(WorkRoot)) = WorkRoot
                /\ SubSeq(b, Len(WorkRoot) + 1, Len(b)) = s
  BY <1>6, <1>7, <1>10, JoinedAndCut
<1>12. /\ Clean(b) /\ Len(b) > n
       /\ SubSeq(b, 1, n) = WorkRoot /\ SubSeq(b, n + 1, Len(b)) = s
  BY <1>9, <1>11
<1>13. Normalized(b) = b
  BY <1>12, NormalizedAgain
<1>14. Located([absolute |-> FALSE, parts |-> s]) = [outside |-> FALSE, parts |-> s]
  BY <1>9, <1>11, <1>12, <1>13 DEF Located
<1> QED BY <1>2, <1>7, <1>8, <1>14 DEF Canonical, IsPlanFile

------------------------------------------------------------------------------
(* The state's types: what calls hold, and what files and streams do.       *)

\* A path inside the work root, of a plan file.
Placed(path) == ~path.outside /\ IsPlanFile(path) /\ Canonical(path)

PCs ==
  {"idle", "look", "create", "add", "govern", "link", "unlink", "rows", "governing", "file",
   "rehash", "governed", "tagged", "list", "group", "copy", "register", "join", "untag"}

OfTasks(tvs) == \A tv \in tvs : tv[1] \in Tasks
GroupTyped(g) ==
  g.text \in Texts /\ IsPlanFile(g.path) /\ Canonical(g.path) /\ OfTasks(g.tags)

Input(o) ==
  /\ o.plan \in Plans \cup {NoPlan} /\ o.tasks \subseteq Tasks
  /\ o.text \in Texts /\ IsPath(o.given.parts)

CallTyped(k) ==
  /\ k.pc \in PCs /\ k.plan \in Plans \cup {NoPlan} /\ k.tasks \subseteq Tasks
  /\ k.pc \in {"look", "create", "rows"} => Input(k.op)
  /\ k.pc \in {"create", "add", "copy", "register"} => Placed(k.path)
  /\ k.pc = "copy" => k.text \in Texts
  /\ k.pc \in {"file", "rehash", "governed"} => k.left \subseteq Plans
  /\ k.pc \in Importing => \A g \in k.left : GroupTyped(g)
  /\ k.pc \in Importing \ {"list", "group"} => OfTasks(k.group.tags)

CallsTyped == \A c \in Clients : CallTyped(call[c])
GoesTyped(c) == \E n : CallTyped(n) /\ call' = [call EXCEPT ![c] = n]

FilesTyped == \A path \in DOMAIN files : files[path] \in Texts /\ Canonical(path)
PlansPlaced == \A p \in Plans : streams[p] # <<>> => Placed(streams[p][1].path)
UsedTyped ==
  /\ used \in [calls : [Clients -> Nat], beside : 0..MaxBeside, fails : 0..MaxFails]
  /\ \A c \in Clients : used.calls[c] <= MaxCalls[c]

TypeInv == ImportInv /\ TagsLeft /\ FilesTyped /\ PlansPlaced /\ CallsTyped /\ UsedTyped

LEMMA TypeInvTypeOK == TypeInv => TypeOK
<1> SUFFICES ASSUME TypeInv PROVE TypeOK
  OBVIOUS
<1>1. \A p \in Plans : \A i \in DOMAIN streams[p] : (streams[p][i].type = "Add") <=> (i = 1)
  BY DEF TypeInv, ImportInv, StreamsSound, StreamSound
<1>2. DOMAIN tags \subseteq Tasks
  BY PlanFilesAssumption DEF TypeInv, TagsLeft
<1>3. \A c \in Clients : /\ call[c].pc \in PCs /\ call[c].plan \in Plans \cup {NoPlan}
                         /\ call[c].tasks \subseteq Tasks
  BY DEF TypeInv, CallsTyped, CallTyped
<1>4. /\ used.beside \in 0..MaxBeside /\ used.fails \in 0..MaxFails
      /\ \A c \in Clients : used.calls[c] \in 0..MaxCalls[c]
  BY PlanFilesAssumption DEF TypeInv, UsedTyped
<1>5. \A p \in Plans : streams[p] # <<>> => Placed(streams[p][1].path)
  BY DEF TypeInv, PlansPlaced
<1>6. \A path \in DOMAIN files : files[path] \in Texts /\ Canonical(path)
  BY DEF TypeInv, FilesTyped
<1> QED BY <1>1, <1>2, <1>3, <1>4, <1>5, <1>6 DEF TypeOK, PCs, Placed

LEMMA TypedFrom ==
  ASSUME CallsSound, CallsTyped, NEW c \in Clients, GoesTyped(c) PROVE CallsTyped'
<1>1. PICK n : CallTyped(n) /\ call' = [call EXCEPT ![c] = n]
  BY DEF GoesTyped
<1>2. \A d \in Clients : call'[d] = IF d = c THEN n ELSE call[d]
  BY <1>1 DEF CallsSound
<1> QED BY <1>1, <1>2 DEF CallsTyped

LEMMA IdleTyped == CallTyped(Idle)
<1>1. Idle.pc = "idle" /\ Idle.plan = NoPlan /\ Idle.tasks = {}
  BY DEF Idle
<1> QED BY <1>1 DEF CallTyped, PCs, Importing

LEMMA EndsTyped == ASSUME NEW c, call' = [call EXCEPT ![c] = Idle] PROVE GoesTyped(c)
BY IdleTyped DEF GoesTyped

\* The steps that leave a call none of what a later step goes by but its plan
\* and its tasks.
LEMMA PlainTyped ==
  ASSUME NEW n, n.pc \in {"govern", "link", "unlink", "governing", "tagged"},
         n.plan \in Plans \cup {NoPlan}, n.tasks \subseteq Tasks
  PROVE  CallTyped(n)
BY DEF CallTyped, PCs, Importing

LEMMA BeginTyped == ASSUME NEW c \in Clients, Begin(c) PROVE GoesTyped(c)
<1>1. PICK o \in Calls[c] :
        LET missing == {t \in o.tasks : ~Exists(t)}
            begin(pc) == Goes(c, [Idle EXCEPT !.pc = pc, !.op = o, !.plan = o.plan,
                                              !.tasks = o.tasks]) IN
        CASE o.op = "add" ->
               IF AddRefusal([title |-> o.title, status |-> o.status, hash |-> NoFile])
                    # "sound"
                 THEN Refuses(c, AddRefusal([title |-> o.title, status |-> o.status,
                                             hash |-> NoFile]))
               ELSE IF missing # {} THEN Refuses(c, "NoSuchTask")
               ELSE begin("look")
          [] o.op = "link" ->
               IF ~Holds(o.plan) THEN Refuses(c, "NoSuchPlan")
               ELSE IF o.link /\ missing # {} THEN Refuses(c, "NoSuchTask")
               ELSE begin(IF o.link THEN "link" ELSE "unlink")
          [] o.op \in {"read", "check"} -> begin("rows")
          [] o.op = "governing" -> begin("governing")
          [] o.op = "import" -> begin("tagged")
  BY DEF Begin
<1>2. o.op \in {"add", "import", "link", "read", "check", "governing"}
  BY PlanFilesAssumption
<1>3. Input(o)
  BY InputsAssumption DEF Input
<1> DEFINE begun(pc) == [Idle EXCEPT !.pc = pc, !.op = o, !.plan = o.plan, !.tasks = o.tasks]
           begin(pc) == call' = [call EXCEPT ![c] = begun(pc)]
           End == call' = [call EXCEPT ![c] = Idle]
           Begun == {"look", "link", "unlink", "rows", "governing", "tagged"}
<1>4. \A pc : /\ begun(pc).pc = pc /\ begun(pc).op = o /\ begun(pc).plan = o.plan
              /\ begun(pc).tasks = o.tasks
  BY DEF Idle
<1>5. End \/ \E pc \in Begun : begin(pc)
  <2>1. CASE o.op = "add"
    <3>1. End \/ begin("look")
      BY <1>1, <2>1 DEF Goes, Ends, Refuses
    <3> QED BY <3>1
  <2>2. CASE o.op = "link"
    <3>1. End \/ begin("link") \/ begin("unlink")
      BY <1>1, <2>2 DEF Goes, Ends, Refuses
    <3> QED BY <3>1
  <2>3. CASE o.op \in {"read", "check"}
    <3>1. begin("rows")
      BY <1>1, <2>3 DEF Goes, Ends, Refuses
    <3> QED BY <3>1
  <2>4. CASE o.op = "governing"
    <3>1. begin("governing")
      BY <1>1, <2>4 DEF Goes, Ends, Refuses
    <3> QED BY <3>1
  <2>5. CASE o.op = "import"
    <3>1. begin("tagged")
      BY <1>1, <2>5 DEF Goes, Ends, Refuses
    <3> QED BY <3>1
  <2> QED BY <1>2, <2>1, <2>2, <2>3, <2>4, <2>5
<1>6. ASSUME NEW pc \in Begun PROVE CallTyped(begun(pc))
  <2> HIDE DEF begun
  <2> QED BY <1>3, <1>4 DEF CallTyped, PCs, Importing, Input
<1> HIDE DEF begun
<1> QED BY <1>5, <1>6, IdleTyped DEF GoesTyped

LEMMA AddLookTyped ==
  ASSUME NEW c \in Clients, IsCall(call[c]), CallsTyped, FilesTyped, AddLook(c)
  PROVE  GoesTyped(c)
<1>1. PICK k, o : k = call[c] /\ o = k.op
  OBVIOUS
<1>2. IsCall(k) /\ k.pc = "look" /\ Input(o) /\ k.tasks \subseteq Tasks
  BY <1>1 DEF CallsTyped, CallTyped, AddLook
<1>3. PICK p, path :
        /\ p \in Plans /\ path = IF o.given = NoPath THEN DefaultPath(p) ELSE Located(o.given)
        /\ \/ /\ o.given = NoPath
              /\ call' = [call EXCEPT ![c] = [k EXCEPT !.pc = "create", !.plan = p, !.path = path]]
           \/ call' = [call EXCEPT ![c] = Idle]
           \/ /\ o.given # NoPath /\ PathRefusal(o.given) = "sound"
              /\ TextAt(path) # NoFile
              /\ call' = [call EXCEPT ![c] = [k EXCEPT !.pc = "add", !.plan = p, !.path = path,
                                                       !.text = TextAt(path)]]
  BY <1>1 DEF AddLook, Goes, Refuses, Ends
<1>4. ASSUME o.given = NoPath,
             call' = [call EXCEPT ![c] = [k EXCEPT !.pc = "create", !.plan = p, !.path = path]]
      PROVE  GoesTyped(c)
  <2>1. PICK n : n = [k EXCEPT !.pc = "create", !.plan = p, !.path = path]
    OBVIOUS
  <2>2. n.pc = "create" /\ n.op = o /\ n.plan = p /\ n.path = path /\ n.tasks = k.tasks
    BY <1>1, <1>2, <2>1 DEF IsCall
  <2>3. Placed(path)
    BY <1>3, <1>4, DefaultCanonical DEF Placed
  <2>4. CallTyped(n)
    BY <1>2, <1>3, <2>2, <2>3 DEF CallTyped, PCs, Importing
  <2> QED BY <1>4, <2>1, <2>4 DEF GoesTyped
<1>5. ASSUME o.given # NoPath, PathRefusal(o.given) = "sound",
             call' = [call EXCEPT ![c] = [k EXCEPT !.pc = "add", !.plan = p, !.path = path,
                                                   !.text = TextAt(path)]]
      PROVE  GoesTyped(c)
  <2>1. PICK text, n : text = TextAt(path) /\ n = [k EXCEPT !.pc = "add", !.plan = p,
                                                         !.path = path, !.text = text]
    OBVIOUS
  <2>2. n.pc = "add" /\ n.plan = p /\ n.path = path /\ n.tasks = k.tasks
    BY <1>2, <2>1 DEF IsCall
  <2>3. ~Located(o.given).outside /\ IsPlanFile(Located(o.given))
    BY <1>5 DEF PathRefusal
  <2>4. Placed(path)
    BY <1>2, <1>3, <1>5, <2>3, LocatedCanonical DEF Placed, Input
  <2>5. CallTyped(n)
    BY <1>2, <1>3, <2>2, <2>4 DEF CallTyped, PCs, Importing
  <2> QED BY <1>5, <2>1, <2>5 DEF GoesTyped
<1> QED BY <1>3, <1>4, <1>5, EndsTyped

\* A new file: the call ends, or goes on with the file there.
LEMMA AddCreateTyped ==
  ASSUME NEW c \in Clients, IsCall(call[c]), CallsTyped, FilesTyped, AddCreate(c)
  PROVE  GoesTyped(c) /\ FilesTyped'
<1>1. PICK k, text, n : /\ k = call[c] /\ text = k.op.text
                        /\ n = [k EXCEPT !.pc = "add", !.text = text]
  OBVIOUS
<1>2. /\ IsCall(k) /\ k.pc = "create" /\ CallTyped(k)
      /\ text \in Texts /\ Placed(k.path)
  BY <1>1 DEF CallsTyped, CallTyped, AddCreate, Input
<1>3. n.pc = "add" /\ n.plan = k.plan /\ n.path = k.path /\ n.tasks = k.tasks
  BY <1>1, <1>2 DEF IsCall
<1>4. CallTyped(n)
  BY <1>2, <1>3 DEF CallTyped, PCs, Importing
<1>5. \/ call' = [call EXCEPT ![c] = Idle] /\ files' = files
      \/ call' = [call EXCEPT ![c] = n] /\ files' = With(files, k.path, text)
  BY <1>1 DEF AddCreate, Creates, Goes, Refuses, Ends
<1>6. FilesTyped'
  BY <1>2, <1>5 DEF FilesTyped, With, Placed
<1> QED BY <1>4, <1>5, <1>6, EndsTyped DEF GoesTyped

LEMMA ImportCopyTyped ==
  ASSUME NEW c \in Clients, IsCall(call[c]), CallsTyped, FilesTyped, ImportCopy(c)
  PROVE  GoesTyped(c) /\ FilesTyped'
<1>1. PICK k, n : k = call[c] /\ n = [k EXCEPT !.pc = "register"]
  OBVIOUS
<1>2. /\ IsCall(k) /\ k.pc = "copy" /\ CallTyped(k) /\ k.text \in Texts /\ Placed(k.path)
  BY <1>1 DEF CallsTyped, CallTyped, ImportCopy
<1>3. /\ n.pc = "register" /\ n.plan = k.plan /\ n.path = k.path /\ n.tasks = k.tasks
      /\ n.left = k.left /\ n.group = k.group
  BY <1>1, <1>2 DEF IsCall
<1>4. CallTyped(n)
  BY <1>2, <1>3 DEF CallTyped, PCs, Importing
<1>5. \/ call' = [call EXCEPT ![c] = Idle] /\ files' = files
      \/ call' = [call EXCEPT ![c] = n] /\ files' = With(files, k.path, k.text)
  BY <1>1 DEF ImportCopy, Creates, Goes, Refuses, Ends
<1>6. FilesTyped'
  BY <1>2, <1>5 DEF FilesTyped, With, Placed
<1> QED BY <1>4, <1>5, <1>6, EndsTyped DEF GoesTyped

\* An edit writes a text, at a path as it is located.
LEMMA EditTyped == ASSUME FilesTyped, Edit PROVE FilesTyped'
<1>1. PICK e \in Edits :
        files' = IF e.text = NoFile THEN Without(files, e.path) ELSE With(files, e.path, e.text)
  BY DEF Edit
<1>2. e.text \in Texts \cup {NoFile} /\ Canonical(e.path)
  BY InputsAssumption
<1>3. CASE e.text = NoFile
  BY <1>1, <1>3 DEF FilesTyped, Without
<1>4. CASE e.text # NoFile
  BY <1>1, <1>2, <1>4 DEF FilesTyped, With
<1> QED BY <1>3, <1>4

LEMMA FilesTypedStep ==
  ASSUME TypeInv, [Next]_vars PROVE FilesTyped'
<1>1. /\ FilesTyped /\ CallsTyped /\ \A c \in Clients : IsCall(call[c])
  BY DEF TypeInv, ImportInv, CallsSound, CallSound
<1>2. CASE files' = files
  BY <1>1, <1>2 DEF FilesTyped
<1>3. CASE \E c \in Clients : AddCreate(c) \/ ImportCopy(c)
  BY <1>1, <1>3, AddCreateTyped, ImportCopyTyped
<1>4. CASE UNCHANGED vars \/ OtherCommand \/ \E t \in Tasks : PruneTask(t)
  BY <1>2, <1>4 DEF vars, PruneTask, OtherCommand
<1>5. CASE \E c \in Clients :
             \/ Begin(c) \/ Dies(c) \/ AddLook(c) \/ AddExhausted(c)
             \/ AddCommit(c) \/ AddGovern(c) \/ LinkCommit(c) \/ ReadRows(c) \/ ReadFile(c)
             \/ ReadRehash(c) \/ ReadGoverned(c) \/ ReadEnds(c)
  BY <1>2, <1>5 DEF Begin, Dies, AddLook, AddExhausted, AddCommit, AddGovern,
     LinkCommit, ReadRows, ReadFile, ReadRehash, ReadGoverned, ReadEnds
<1>6. CASE \E c \in Clients :
             \/ Governing(c) \/ ImportTagged(c) \/ ImportList(c) \/ ImportGroup(c)
             \/ ImportUntag(c) \/ ImportRegister(c) \/ ImportJoin(c) \/ ImportEnds(c)
  BY <1>2, <1>6 DEF Governing, ImportTagged, ImportList, ImportGroup, ImportUntag,
     ImportRegister, ImportJoin, ImportEnds
<1> QED BY <1>1, <1>3, <1>4, <1>5, <1>6, EditTyped DEF Next

\* An add, and an import's: of the plan its call goes by, at its path.
LEMMA AddedPlaced ==
  ASSUME StreamsSound, PlansPlaced, NEW p, NEW m, m.type = "Add", Placed(m.path),
         Committed(p, m)
  PROVE  PlansPlaced'
<1>1. StreamsSound' /\ (\A q \in Plans : Grown(streams[q], streams'[q]))
      /\ (p \in Plans /\ Sound(p, m) => \E i \in DOMAIN streams'[p] : streams'[p][i] = m)
  BY Commits DEF EventTypes
<1>2. CASE ~Sound(p, m) \/ p \notin Plans
  <2>1. streams' = streams
    BY <1>2 DEF Committed, StreamsSound
  <2> QED BY <2>1 DEF PlansPlaced
<1>3. CASE Sound(p, m) /\ p \in Plans
  <2>1. PICK s : s = streams'[p]
    OBVIOUS
  <2>2. PICK i \in DOMAIN s : s[i] = m
    BY <1>1, <1>3, <2>1
  <2>3. s[1] = m
    <3>1. StreamSound(s)
      BY <1>1, <1>3, <2>1 DEF StreamsSound
    <3>2. i = 1
      BY <2>2, <3>1 DEF StreamSound
    <3> QED BY <2>2, <3>2
  <2>4. \A q \in Plans : q # p => streams'[q] = streams[q]
    BY <1>3 DEF Committed, StreamsSound
  <2> QED BY <2>1, <2>3, <2>4 DEF PlansPlaced
<1> QED BY <1>2, <1>3

LEMMA PlansPlacedStep ==
  ASSUME TypeInv, [Next]_vars PROVE PlansPlaced'
<1>1. StreamsSound /\ PlansPlaced /\ CallsTyped
  BY DEF TypeInv, ImportInv
<1>2. CASE \A c \in Clients : ~AddCommit(c) /\ ~ImportRegister(c)
  <2>1. Settled(streams, streams')
    BY <1>1, <1>2, StepSettles
  <2> QED BY <1>1, <2>1 DEF Settled, PlansPlaced
<1>3. CASE \E c \in Clients : AddCommit(c) \/ ImportRegister(c)
  <2>1. PICK c \in Clients : AddCommit(c) \/ ImportRegister(c)
    BY <1>3
  <2>2. PICK status : Committed(call[c].plan, AddCommand(c, status))
    BY <2>1 DEF AddCommit, ImportRegister
  <2>3. call[c].pc \in {"add", "register"}
    BY <2>1 DEF AddCommit, ImportRegister
  <2>4. Placed(call[c].path)
    BY <1>1, <2>3 DEF CallsTyped, CallTyped
  <2>5. PICK m : m = AddCommand(c, status)
    OBVIOUS
  <2>6. m.type = "Add" /\ m.path = call[c].path
    BY <2>5 DEF AddCommand
  <2> QED BY <1>1, <2>2, <2>4, <2>5, <2>6, AddedPlaced
<1> QED BY <1>2, <1>3

LEMMA AddsTyped ==
  ASSUME NEW c \in Clients, IsCall(call[c]), CallsTyped, AddCommit(c) \/ AddGovern(c)
  PROVE  GoesTyped(c)
<1>1. PICK k : k = call[c]
  OBVIOUS
<1>2. IsCall(k) /\ k.plan \in Plans \cup {NoPlan} /\ k.tasks \subseteq Tasks
  BY <1>1 DEF CallsTyped, CallTyped
<1>3. CASE AddCommit(c)
  <2>1. PICK n : n = [k EXCEPT !.pc = "govern"]
    OBVIOUS
  <2>2. n.pc = "govern" /\ n.plan = k.plan /\ n.tasks = k.tasks
    BY <1>2, <2>1 DEF IsCall
  <2>3. CallTyped(n)
    BY <1>2, <2>2, PlainTyped
  <2>4. call' = [call EXCEPT ![c] = Idle] \/ call' = [call EXCEPT ![c] = n]
    BY <1>1, <1>3, <2>1 DEF AddCommit, Goes, Ends, Refuses
  <2> QED BY <2>3, <2>4, EndsTyped DEF GoesTyped
<1>4. CASE AddGovern(c)
  <2>1. PICK t, n : t = First(k.tasks) /\ n = [k EXCEPT !.tasks = @ \ {t}]
    OBVIOUS
  <2>2. n.pc = k.pc /\ n.plan = k.plan /\ n.tasks = k.tasks \ {t}
    BY <1>2, <2>1 DEF IsCall
  <2>3. CallTyped(n)
    <3>1. k.pc = "govern"
      BY <1>1, <1>4 DEF AddGovern
    <3> QED BY <1>2, <2>2, <3>1, PlainTyped
  <2>4. call' = [call EXCEPT ![c] = Idle] \/ call' = [call EXCEPT ![c] = n]
    BY <1>1, <1>4, <2>1 DEF AddGovern, Goes, Ends, Refuses
  <2> QED BY <2>3, <2>4, EndsTyped DEF GoesTyped
<1> QED BY <1>3, <1>4

\* A read's rows are plans'.
LEMMA SelectedPlans ==
  ASSUME StreamsSound, NEW o, Input(o) PROVE Selected(o, List) \subseteq Plans
<1>1. ListAgrees
  BY ListAgreed
<1>2. DOMAIN List.rows \subseteq Plans
  BY <1>1 DEF ListAgrees
<1>3. \A t \in o.tasks : GoverningIn(List, t) \subseteq Plans
  BY <1>1 DEF ListAgrees, Input
<1> QED BY <1>2, <1>3 DEF Selected, ByPath

LEMMA ReadsTyped ==
  ASSUME NEW c \in Clients, IsCall(call[c]), CallsTyped, StreamsSound,
         ReadRows(c) \/ ReadFile(c) \/ ReadRehash(c) \/ ReadGoverned(c)
  PROVE  GoesTyped(c)
<1>1. PICK k : k = call[c]
  OBVIOUS
<1>2. IsCall(k) /\ CallTyped(k)
  BY <1>1 DEF CallsTyped
<1>3. ASSUME NEW n, call' = [call EXCEPT ![c] = n], n.pc \in {"file", "rehash", "governed"},
             n.plan \in Plans \cup {NoPlan}, n.tasks = k.tasks, n.left \subseteq Plans
      PROVE  GoesTyped(c)
  <2>1. CallTyped(n)
    BY <1>2, <1>3 DEF CallTyped, PCs, Importing
  <2> QED BY <1>3, <2>1 DEF GoesTyped
<1>4. CASE ReadRows(c)
  <2>1. PICK left, rows, n :
          /\ left = Selected(k.op, List) /\ rows = List.rows
          /\ n = [k EXCEPT !.pc = "file", !.left = left, !.rows = rows]
    OBVIOUS
  <2>2. call' = [call EXCEPT ![c] = Idle] \/ call' = [call EXCEPT ![c] = n]
    BY <1>1, <1>4, <2>1 DEF ReadRows, Goes, Ends, Refuses
  <2>3. n.pc = "file" /\ n.left = left /\ n.plan = k.plan /\ n.tasks = k.tasks
    BY <1>2, <2>1 DEF IsCall
  <2>4. Input(k.op) /\ k.plan \in Plans \cup {NoPlan}
    BY <1>1, <1>2, <1>4 DEF ReadRows, CallTyped
  <2>5. left \subseteq Plans
    BY <2>1, <2>4, SelectedPlans
  <2> QED BY <1>3, <2>2, <2>3, <2>4, <2>5, EndsTyped
<1>5. CASE ReadFile(c)
  <2>1. k.pc = "file" /\ k.left \subseteq Plans
    BY <1>1, <1>2, <1>5 DEF ReadFile, CallTyped
  <2>2. PICK p \in k.left :
          LET row == k.rows[p]
              text == TextAt(row.path)
              missing == IF text = NoFile THEN {[why |-> "Missing", plan |-> p, on |-> row.path]}
                         ELSE {} IN
          Goes(c, [k EXCEPT
            !.pc = IF text \in {NoFile, row.hash} THEN "governed" ELSE "rehash",
            !.plan = p, !.text = text, !.found = @ \cup missing])
    BY <1>1, <1>5 DEF ReadFile
  <2>3. PICK text, missing, pc, n :
          /\ text = TextAt(k.rows[p].path)
          /\ missing = IF text = NoFile
                         THEN {[why |-> "Missing", plan |-> p, on |-> k.rows[p].path]} ELSE {}
          /\ pc = IF text \in {NoFile, k.rows[p].hash} THEN "governed" ELSE "rehash"
          /\ n = [k EXCEPT !.pc = pc, !.plan = p, !.text = text, !.found = @ \cup missing]
    OBVIOUS
  <2>4. call' = [call EXCEPT ![c] = n]
    BY <2>2, <2>3, Zenon DEF Goes
  <2>5. n.pc = pc /\ n.plan = p /\ n.tasks = k.tasks /\ n.left = k.left
    BY <1>2, <2>3 DEF IsCall
  <2>6. pc \in {"governed", "rehash"} /\ p \in Plans
    BY <2>1, <2>3
  <2> QED BY <1>3, <2>1, <2>4, <2>5, <2>6
<1>6. CASE ReadRehash(c)
  <2>1. PICK n : n = [k EXCEPT !.pc = "governed"]
    OBVIOUS
  <2>2. call' = [call EXCEPT ![c] = n]
    BY <1>1, <1>6, <2>1 DEF ReadRehash, Goes
  <2>3. n.pc = "governed" /\ n.plan = k.plan /\ n.tasks = k.tasks /\ n.left = k.left
    BY <1>2, <2>1 DEF IsCall
  <2>4. k.left \subseteq Plans /\ k.plan \in Plans \cup {NoPlan}
    BY <1>1, <1>2, <1>6 DEF ReadRehash, CallTyped
  <2> QED BY <1>3, <2>2, <2>3, <2>4
<1>7. CASE ReadGoverned(c)
  <2>1. PICK more, n : /\ n = [k EXCEPT !.pc = "file", !.left = @ \ {k.plan}, !.found = @ \cup more]
                       /\ call' = [call EXCEPT ![c] = n]
    BY <1>1, <1>7 DEF ReadGoverned, Goes
  <2>2. /\ n.pc = "file" /\ n.plan = k.plan /\ n.tasks = k.tasks /\ n.left = k.left \ {k.plan}
    BY <1>2, <2>1 DEF IsCall
  <2>3. k.left \subseteq Plans /\ k.plan \in Plans \cup {NoPlan}
    BY <1>1, <1>2, <1>7 DEF ReadGoverned, CallTyped
  <2> QED BY <1>3, <2>1, <2>2, <2>3
<1> QED BY <1>4, <1>5, <1>6, <1>7

\* What tags name: plan files, by their located paths, with the texts there.
LEMMA SortedTyped ==
  ASSUME TagsLeft, FilesTyped PROVE \A g \in Sorted.groups : GroupTyped(g)
<1> DEFINE named == {<<t, v>> : t \in DOMAIN tags, v \in UNION {tags[x] : x \in DOMAIN tags}}
           tagged == {tv \in named : tv[2] \in tags[tv[1]]}
           plans == {tv \in tagged : TextAt(Located(tv[2])) # NoFile /\ IsPlanFile(Located(tv[2]))}
           groups == {[path |-> path, text |-> TextAt(path),
                       tags |-> {tv \in plans : Located(tv[2]) = path}] :
                        path \in {Located(tv[2]) : tv \in plans}}
<1>1. Sorted.groups = groups
  BY DEF Sorted
<1>2. \A tv \in plans :
        /\ tv[1] \in DOMAIN TagsAtFirst /\ tv[2] \in TagsAtFirst[tv[1]]
        /\ TextAt(Located(tv[2])) # NoFile /\ IsPlanFile(Located(tv[2]))
  <2> SUFFICES ASSUME NEW tv \in plans
               PROVE  /\ tv[1] \in DOMAIN TagsAtFirst /\ tv[2] \in TagsAtFirst[tv[1]]
                      /\ TextAt(Located(tv[2])) # NoFile /\ IsPlanFile(Located(tv[2]))
    OBVIOUS
  <2>1. /\ tv \in named /\ tv[2] \in tags[tv[1]]
        /\ TextAt(Located(tv[2])) # NoFile /\ IsPlanFile(Located(tv[2]))
    OBVIOUS
  <2>2. tv[1] \in DOMAIN tags
    BY <2>1
  <2> QED BY <2>1, <2>2 DEF TagsLeft
<1> HIDE DEF plans
<1>3. ASSUME NEW g \in groups PROVE GroupTyped(g)
  <2>1. PICK tv \in plans :
          g = [path |-> Located(tv[2]), text |-> TextAt(Located(tv[2])),
               tags |-> {x \in plans : Located(x[2]) = Located(tv[2])}]
    OBVIOUS
  <2>2. Canonical(Located(tv[2]))
    BY <1>2, InputsAssumption, LocatedCanonical
  <2>3. TextAt(Located(tv[2])) \in Texts
    BY <1>2 DEF TextAt, FilesTyped
  <2>4. \A x \in g.tags : x[1] \in Tasks
    BY <1>2, <2>1, PlanFilesAssumption
  <2> QED BY <1>2, <2>1, <2>2, <2>3, <2>4 DEF GroupTyped, OfTasks
<1> QED BY <1>1, <1>3

LEMMA ImportBeginsTyped ==
  ASSUME NEW c \in Clients, IsCall(call[c]), CallsTyped, TagsLeft, FilesTyped,
         ImportTagged(c) \/ ImportList(c)
  PROVE  GoesTyped(c)
<1>1. PICK k : k = call[c]
  OBVIOUS
<1>2. IsCall(k) /\ CallTyped(k)
  BY <1>1 DEF CallsTyped
<1>3. CASE ImportTagged(c)
  <2>1. PICK left, found, n :
          /\ left = Sorted.groups /\ found = Sorted.left
          /\ n = [k EXCEPT !.pc = "list", !.left = left, !.found = found]
    OBVIOUS
  <2>2. call' = [call EXCEPT ![c] = n]
    BY <1>1, <1>3, <2>1 DEF ImportTagged, Goes
  <2>3. n.pc = "list" /\ n.left = left /\ n.plan = k.plan /\ n.tasks = k.tasks
    BY <1>2, <2>1 DEF IsCall
  <2>4. \A g \in left : GroupTyped(g)
    BY <2>1, SortedTyped
  <2>5. CallTyped(n)
    BY <1>2, <2>3, <2>4 DEF CallTyped, PCs, Importing
  <2> QED BY <2>2, <2>5 DEF GoesTyped
<1>4. CASE ImportList(c)
  <2>1. PICK rows, n : rows = List.rows /\ n = [k EXCEPT !.pc = "group", !.rows = rows]
    OBVIOUS
  <2>2. call' = [call EXCEPT ![c] = Idle] \/ call' = [call EXCEPT ![c] = n]
    BY <1>1, <1>4, <2>1 DEF ImportList, Goes, Ends
  <2>3. n.pc = "group" /\ n.left = k.left /\ n.plan = k.plan /\ n.tasks = k.tasks
    BY <1>2, <2>1 DEF IsCall
  <2>4. k.pc = "list"
    BY <1>1, <1>4 DEF ImportList
  <2>5. CallTyped(n)
    BY <1>2, <2>3, <2>4 DEF CallTyped, PCs, Importing
  <2> QED BY <2>2, <2>5, EndsTyped DEF GoesTyped
<1> QED BY <1>3, <1>4

LEMMA ImportGroupTyped ==
  ASSUME NEW c \in Clients, CallSound(call[c], streams), CallsTyped, ImportGroup(c)
  PROVE  GoesTyped(c)
<1>1. CASE call' = [call EXCEPT ![c] = Idle]
  BY <1>1, EndsTyped
<1>2. PICK h, g, k : /\ h = call[c]
                     /\ g = First(IF {x \in h.left : ~x.path.outside} = {} THEN h.left
                                  ELSE {x \in h.left : ~x.path.outside})
                     /\ k = [h EXCEPT !.left = @ \ {g}, !.group = g, !.text = g.text]
  OBVIOUS
<1>3. /\ IsCall(h) /\ h.pc = "group" /\ h.left # {} /\ \A x \in h.left : GroupTyped(x)
      /\ RowsSound(h.rows, streams) /\ h.tasks \subseteq Tasks
  BY <1>2 DEF CallSound, CallsTyped, CallTyped, ImportGroup, Importing
<1>4. g \in h.left
  BY <1>2, <1>3 DEF First
<1>5. /\ IsCall(k) /\ k.group = g /\ k.rows = h.rows /\ k.left \subseteq h.left /\ GroupTyped(g)
      /\ k.text = g.text /\ k.tasks = h.tasks
  BY <1>2, <1>3, <1>4 DEF IsCall
<1>6. PICK list, recorded :
        /\ list = [EmptyList EXCEPT !.rows = h.rows]
        /\ recorded = IF g.path.outside THEN CopiesOf(list, g.text) ELSE ByPath(list, g.path)
  OBVIOUS
<1>7. list.rows = h.rows
  BY <1>6 DEF EmptyList
<1>8. ASSUME NEW p \in recorded, call' = [call EXCEPT ![c] = JoiningRecorded(k, p)]
      PROVE  GoesTyped(c)
  <2>1. PICK path, tasks, pc, n :
          /\ path = k.rows[p].path /\ tasks = {tv[1] : tv \in k.group.tags} \ k.rows[p].governs
          /\ pc = IF tasks = {} THEN "untag" ELSE "join"
          /\ n = [k EXCEPT !.pc = pc, !.plan = p, !.path = path, !.tasks = tasks]
    OBVIOUS
  <2>2. JoiningRecorded(k, p) = n
    BY <2>1 DEF JoiningRecorded, Joining
  <2>3. n.pc = pc /\ n.plan = p /\ n.tasks = tasks /\ n.left = k.left /\ n.group = g
    BY <1>5, <2>1 DEF IsCall
  <2>4. p \in Plans
    <3>1. p \in DOMAIN k.rows
      BY <1>5, <1>6, <1>7 DEF CopiesOf, ByPath
    <3> QED BY <1>3, <1>5, <3>1 DEF RowsSound, RowSound
  <2>5. tasks \subseteq Tasks
    BY <1>5, <2>1 DEF GroupTyped, OfTasks
  <2>6. pc \in {"untag", "join"}
    BY <2>1
  <2>7. CallTyped(n)
    BY <1>3, <1>5, <2>3, <2>4, <2>5, <2>6 DEF CallTyped, PCs, Importing, GroupTyped
  <2> QED BY <1>8, <2>2, <2>7 DEF GoesTyped
<1>9. ASSUME NEW p \in Plans,
             call' = [call EXCEPT ![c] =
               [k EXCEPT !.pc = IF g.path.outside THEN "copy" ELSE "register", !.plan = p,
                         !.path = IF g.path.outside THEN DefaultPath(p) ELSE g.path]]
      PROVE  GoesTyped(c)
  <2>1. PICK path, pc, n :
          /\ path = IF g.path.outside THEN DefaultPath(p) ELSE g.path
          /\ pc = IF g.path.outside THEN "copy" ELSE "register"
          /\ n = [k EXCEPT !.pc = pc, !.plan = p, !.path = path]
    OBVIOUS
  <2>2. /\ n.pc = pc /\ n.plan = p /\ n.path = path /\ n.left = k.left
        /\ n.group = g /\ n.text = g.text /\ n.tasks = k.tasks
    BY <1>5, <2>1 DEF IsCall
  <2>3. Placed(path)
    BY <1>5, <2>1, DefaultCanonical DEF Placed, GroupTyped
  <2>4. pc \in {"copy", "register"}
    BY <2>1
  <2>5. CallTyped(n)
    BY <1>3, <1>5, <2>2, <2>3, <2>4 DEF CallTyped, PCs, Importing, GroupTyped
  <2> QED BY <1>9, <2>1, <2>5 DEF GoesTyped
<1>10. \/ \E p \in recorded : Goes(c, JoiningRecorded(k, p))
       \/ \E p \in Plans :
            Goes(c, [k EXCEPT !.pc = IF g.path.outside THEN "copy" ELSE "register", !.plan = p,
                              !.path = IF g.path.outside THEN DefaultPath(p) ELSE g.path])
       \/ Refuses(c, "HarpsExhausted")
  BY <1>2, <1>6 DEF ImportGroup
<1> QED BY <1>1, <1>8, <1>9, <1>10 DEF Goes, Refuses, Ends

LEMMA ImportJoinsTyped ==
  ASSUME NEW c \in Clients, IsCall(call[c]), CallsTyped, ImportRegister(c) \/ ImportJoin(c)
  PROVE  GoesTyped(c)
<1>1. PICK k : k = call[c]
  OBVIOUS
<1>2. IsCall(k) /\ CallTyped(k)
  BY <1>1 DEF CallsTyped
<1>3. ASSUME NEW n, n.pc \in {"untag", "join"}, n.plan = k.plan, n.tasks \subseteq Tasks,
             n.left = k.left, n.group = k.group, k.pc \in {"register", "join"}
      PROVE  CallTyped(n)
  BY <1>2, <1>3 DEF CallTyped, PCs, Importing
<1>4. CASE ImportRegister(c)
  <2>1. PICK tasks, pc, n :
          /\ tasks = {tv[1] : tv \in k.group.tags} \ {}
          /\ pc = IF tasks = {} THEN "untag" ELSE "join"
          /\ n = [k EXCEPT !.pc = pc, !.plan = k.plan, !.path = k.path, !.tasks = tasks]
    OBVIOUS
  <2>2. Joining(k, k.plan, k.path, {}) = n
    BY <2>1 DEF Joining
  <2>3. n.pc = pc /\ n.plan = k.plan /\ n.tasks = tasks /\ n.left = k.left /\ n.group = k.group
    BY <1>2, <2>1 DEF IsCall
  <2>4. k.pc = "register"
    BY <1>1, <1>4 DEF ImportRegister
  <2>5. pc \in {"untag", "join"} /\ tasks \subseteq Tasks
    <3>1. OfTasks(k.group.tags)
      BY <1>2, <2>4 DEF CallTyped, Importing
    <3> QED BY <2>1, <3>1 DEF OfTasks
  <2>6. CallTyped(n)
    BY <1>3, <2>3, <2>4, <2>5
  <2>7. call' = [call EXCEPT ![c] = Idle] \/ call' = [call EXCEPT ![c] = n]
    BY <1>1, <1>4, <2>2 DEF ImportRegister, Goes, Ends, Refuses
  <2> QED BY <2>6, <2>7, EndsTyped DEF GoesTyped
<1>5. CASE ImportJoin(c)
  <2>1. PICK t, pc, n :
          /\ t = First(k.tasks) /\ pc = IF k.tasks = {t} THEN "untag" ELSE "join"
          /\ n = [k EXCEPT !.pc = pc, !.tasks = @ \ {t}]
    OBVIOUS
  <2>2. call' = [call EXCEPT ![c] = n]
    BY <1>1, <1>5, <2>1 DEF ImportJoin, Goes
  <2>3. /\ n.pc = pc /\ n.plan = k.plan /\ n.tasks = k.tasks \ {t} /\ n.left = k.left
        /\ n.group = k.group
    BY <1>2, <2>1 DEF IsCall
  <2>4. k.pc = "join" /\ k.tasks \subseteq Tasks
    BY <1>1, <1>2, <1>5 DEF ImportJoin, CallTyped
  <2>5. pc \in {"untag", "join"} /\ k.tasks \ {t} \subseteq Tasks
    BY <2>1, <2>4
  <2>6. CallTyped(n)
    BY <1>3, <2>3, <2>4, <2>5
  <2> QED BY <2>2, <2>6 DEF GoesTyped
<1> QED BY <1>4, <1>5

LEMMA ImportUntagTyped ==
  ASSUME NEW c \in Clients, CallSound(call[c], streams), CallsTyped, ImportUntag(c)
  PROVE  GoesTyped(c)
<1>1. PICK k, g, tv, left, h, pc, n :
        /\ k = call[c] /\ g = k.group /\ tv = First(g.tags) /\ left = g.tags \ {tv}
        /\ h = [g EXCEPT !.tags = left]
        /\ pc = IF left = {} THEN "group" ELSE "untag"
        /\ n = [k EXCEPT !.pc = pc, !.group = h]
  OBVIOUS
<1>2. call' = [call EXCEPT ![c] = Idle] \/ call' = [call EXCEPT ![c] = n]
  <2>1. n = [k EXCEPT !.pc = pc, !.group.tags = left]
    BY <1>1
  <2> QED BY <1>1, <2>1 DEF ImportUntag, Goes, Ends, Refuses
<1>3. /\ IsCall(k) /\ CallTyped(k) /\ k.pc = "untag" /\ GroupSound(g)
  BY <1>1 DEF CallSound, CallsTyped, ImportUntag, Importing
<1>4. h.tags = left
  BY <1>1, <1>3 DEF GroupSound
<1>5. n.pc = pc /\ n.plan = k.plan /\ n.tasks = k.tasks /\ n.left = k.left /\ n.group = h
  BY <1>1, <1>3 DEF IsCall
<1>6. OfTasks(left) /\ pc \in {"group", "untag"}
  BY <1>1, <1>3 DEF CallTyped, OfTasks, Importing
<1>7. CallTyped(n)
  BY <1>3, <1>4, <1>5, <1>6 DEF CallTyped, PCs, Importing
<1> QED BY <1>2, <1>7, EndsTyped DEF GoesTyped

LEMMA CallsTypedStep == ASSUME TypeInv, [Next]_vars PROVE CallsTyped'
<1>1. /\ StreamsSound /\ CallsSound /\ CallsTyped /\ FilesTyped /\ TagsLeft
      /\ \A c \in Clients : CallSound(call[c], streams) /\ IsCall(call[c])
  BY DEF TypeInv, ImportInv, CallsSound, CallSound
<1>2. CASE UNCHANGED vars \/ Edit \/ OtherCommand \/ \E t \in Tasks : PruneTask(t)
  <2>1. call' = call
    BY <1>2 DEF vars, Edit, OtherCommand, PruneTask
  <2> QED BY <1>1, <2>1 DEF CallsTyped
<1>3. ASSUME NEW c \in Clients,
             \/ Dies(c) \/ AddExhausted(c) \/ LinkCommit(c) \/ ReadEnds(c)
             \/ Governing(c) \/ ImportEnds(c)
      PROVE  GoesTyped(c)
  <2>1. call' = [call EXCEPT ![c] = Idle]
    BY <1>3 DEF Dies, AddExhausted, LinkCommit, ReadEnds, Governing, ImportEnds, Ends, Refuses
  <2> QED BY <2>1, EndsTyped
<1>4. ASSUME NEW c \in Clients,
             \/ Begin(c) \/ AddLook(c) \/ AddCreate(c) \/ AddCommit(c) \/ AddGovern(c)
             \/ ReadRows(c) \/ ReadFile(c) \/ ReadRehash(c) \/ ReadGoverned(c)
      PROVE  GoesTyped(c)
  BY <1>1, <1>4, BeginTyped, AddLookTyped, AddCreateTyped, AddsTyped, ReadsTyped
<1>5. ASSUME NEW c \in Clients,
             \/ ImportTagged(c) \/ ImportList(c) \/ ImportGroup(c) \/ ImportCopy(c)
             \/ ImportRegister(c) \/ ImportJoin(c) \/ ImportUntag(c)
      PROVE  GoesTyped(c)
  BY <1>1, <1>5, ImportBeginsTyped, ImportGroupTyped, ImportCopyTyped, ImportJoinsTyped,
     ImportUntagTyped
<1>6. CASE \E c \in Clients : GoesTyped(c)
  BY <1>1, <1>6, TypedFrom
<1> QED BY <1>2, <1>3, <1>4, <1>5, <1>6 DEF Next

\* The bounds.
LEMMA UsedStep == ASSUME UsedTyped, [Next]_vars PROVE UsedTyped'
<1> USE PlanFilesAssumption DEF UsedTyped
<1>1. CASE used' = used
  BY <1>1
<1>2. CASE used.beside < MaxBeside /\ used' = [used EXCEPT !.beside = @ + 1]
  BY <1>2
<1>3. CASE used.fails < MaxFails /\ used' = [used EXCEPT !.fails = @ + 1]
  BY <1>3
<1>4. ASSUME NEW c \in Clients, used.calls[c] < MaxCalls[c],
             used' = [used EXCEPT !.calls[c] = @ + 1]
      PROVE  UsedTyped'
  <2>1. PICK f : f = [used.calls EXCEPT ![c] = @ + 1]
    OBVIOUS
  <2>2. used' = [used EXCEPT !.calls = f]
    BY <1>4, <2>1
  <2>3. f \in [Clients -> Nat] /\ \A d \in Clients : f[d] <= MaxCalls[d]
    BY <1>4, <2>1
  <2> QED BY <2>2, <2>3
<1>5. CASE Edit \/ OtherCommand \/ \E t \in Tasks : PruneTask(t)
  BY <1>2, <1>5 DEF Edit, OtherCommand, PruneTask
<1>6. CASE \E c \in Clients : Begin(c) \/ Dies(c)
  BY <1>3, <1>4, <1>6 DEF Begin, Dies
<1>7. CASE UNCHANGED vars
  BY <1>1, <1>7 DEF vars
<1>8. CASE \E c \in Clients :
             \/ AddLook(c) \/ AddExhausted(c) \/ AddCreate(c) \/ AddCommit(c) \/ AddGovern(c)
             \/ LinkCommit(c) \/ ReadRows(c) \/ ReadFile(c) \/ ReadRehash(c)
             \/ ReadGoverned(c) \/ ReadEnds(c)
  BY <1>1, <1>8 DEF AddLook, AddExhausted, AddCreate, AddCommit, AddGovern, LinkCommit,
     ReadRows, ReadFile, ReadRehash, ReadGoverned, ReadEnds
<1>9. CASE \E c \in Clients :
             \/ Governing(c) \/ ImportTagged(c) \/ ImportList(c) \/ ImportGroup(c)
             \/ ImportCopy(c) \/ ImportRegister(c) \/ ImportJoin(c) \/ ImportUntag(c)
             \/ ImportEnds(c)
  BY <1>1, <1>9 DEF Governing, ImportTagged, ImportList, ImportGroup, ImportCopy,
     ImportRegister, ImportJoin, ImportUntag, ImportEnds
<1> QED BY <1>5, <1>6, <1>7, <1>8, <1>9 DEF Next

LEMMA TypeInvStep == ASSUME TypeInv, [Next]_vars PROVE TypeInv'
BY ImportInvStep, TagsLeftStep, FilesTypedStep, PlansPlacedStep, CallsTypedStep, UsedStep
   DEF TypeInv

LEMMA TypeInvFirst == Init => TypeInv
<1> SUFFICES ASSUME Init PROVE TypeInv
  OBVIOUS
<1>1. ImportInv
  BY ImportInvFirst
<1>2. TagsLeft /\ PlansPlaced
  BY DEF Init, TagsLeft, PlansPlaced
<1>3. FilesTyped
  BY InputsAssumption DEF Init, FilesTyped
<1>4. CallsTyped
  BY IdleTyped DEF Init, CallsTyped
<1>5. UsedTyped
  BY PlanFilesAssumption DEF Init, UsedTyped
<1> QED BY <1>1, <1>2, <1>3, <1>4, <1>5 DEF TypeInv

\* A plan's stream begins with its adding and adds it once, its path is a
\* plan file's inside the work root, written as every path that names it is
\* located, and so is every file's (rules.rs:38).
THEOREM PlansStayTyped == Spec => []TypeOK
<1>1. Init => TypeInv
  BY TypeInvFirst
<1>2. TypeInv /\ [Next]_vars => TypeInv'
  BY TypeInvStep
<1>3. TypeInv => TypeOK
  BY TypeInvTypeOK
<1> QED BY <1>1, <1>2, <1>3, PTL DEF Spec
=============================================================================
