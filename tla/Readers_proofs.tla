--------------------------- MODULE Readers_proofs ---------------------------
(***************************************************************************)
(* For any projects, streams, commands and queries, calls failing and      *)
(* streams purged and begun again at any step:                             *)
(*                                                                         *)
(*   - what a service reads of a project is its store's live tasks at one  *)
(*     moment (LiveTasks), as long as no newer version purges a stream     *)
(*     this one could not read.  A list goes on from where it was on each  *)
(*     stream; that what it kept and what it is handed then fold to the    *)
(*     whole stream's task is FoldedOn, and that what it kept is never of  *)
(*     a stream purged since, or else is known to be, is ListInv;          *)
(*   - a subscriber with no line owed it shows what the watched store      *)
(*     holds.  What is owed, by a store's token, a burst or a line not     *)
(*     acted on, is ViewInv; that a list asked for whole is shown whole,   *)
(*     however it is ordered, is ListedWhole;                              *)
(*   - a listing accounts for every task it matched.  That what a call     *)
(*     gathered is what it read of each project is ReadInv; that a listing *)
(*     of any rows accounts for them is ListingAccounts;                   *)
(*   - streams, lists, calls and the watch keep their types.  That a task  *)
(*     folded from whole pages is whole is FoldKept; TypeInv is the types, *)
(*     with what a call has gathered at each of its steps.                 *)
(***************************************************************************)
EXTENDS Readers, SequenceTheorems, FiniteSetTheorems, WellFoundedInduction, TLAPS

IsStream(s) == s \in Seq({s[i] : i \in DOMAIN s})

IsTask(t) ==
  t \in [harp_id: {t.harp_id}, text: {t.text}, status: {t.status}, trigger: {t.trigger},
         tags: {t.tags}, created_at: {t.created_at}, status_set_at: {t.status_set_at},
         deferred_since: {t.deferred_since}, removed: {t.removed},
         prior_status: {t.prior_status}]

\* An event a task's stream holds; one page's, unread or not.
IsEvent(e) ==
  /\ e.type \in {"TaskAdded", "StatusChanged", "TextEdited", "Retagged", "TaskRemoved"}
  /\ e.type = "TaskAdded" => e.harp_id \in Harps

IsUnread(page) == page.event = Unreadable

\* A stream begins with the adding of its task.
StreamSound(s) ==
  /\ IsStream(s)
  /\ \A i \in DOMAIN s : IsUnread(s[i]) \/ IsEvent(s[i].event)
  /\ s # <<>> => s[1].event.type = "TaskAdded"

------------------------------------------------------------------------------
(* What pages fold to.                                                      *)

LEMMA Induction ==
  ASSUME NEW T, 0 \in T, \A n \in Nat : n \in T => n + 1 \in T
  PROVE  Nat \subseteq T
<1> DEFINE R == {ss \in Nat \X Nat : ss[1] < ss[2]}
           Rest == Nat \ T
<1> SUFFICES ASSUME Rest # {} PROVE FALSE
  OBVIOUS
<1>1. IsWellFoundedOn(R, Nat)
  BY NatLessThanWellFounded DEF OpToRel
<1>2. PICK n \in Rest : \A m \in Rest : <<m, n>> \notin R
  <2> Rest \subseteq Nat
    OBVIOUS
  <2> HIDE DEF R, Rest
  <2> QED BY <1>1, WFMin
<1>3. n \in Nat /\ n # 0 /\ n - 1 \in Nat /\ (n - 1) + 1 = n
  BY <1>2
<1>4. n - 1 \in Rest
  BY <1>2, <1>3
<1>5. <<n - 1, n>> \in R
  BY <1>3
<1> QED BY <1>2, <1>4, <1>5

Applied(t, page) ==
  IF page.event = Unreadable \/ t = Unread THEN Unread
  ELSE Apply(t, page.event, page.recorded_at)

\* f[n] is what the first n of the pages leave of a task.
Folds(f, from, pages, m) ==
  f = [n \in 0..m |-> IF n = 0 THEN from ELSE Applied(f[n-1], pages[n])]

LEMMA FoldsExist ==
  ASSUME NEW from, NEW pages PROVE \A m \in Nat : \E f : Folds(f, from, pages, m)
<1> DEFINE T == {m \in Nat : \E f : Folds(f, from, pages, m)}
<1>1. 0 \in T
  <2>1. Folds([n \in 0..0 |-> from], from, pages, 0)
    BY DEF Folds
  <2> QED BY <2>1
<1>2. ASSUME NEW m \in Nat, m \in T PROVE m + 1 \in T
  <2>1. PICK f : Folds(f, from, pages, m)
    BY <1>2
  <2> DEFINE on == Applied(f[m], pages[m + 1])
             g == [n \in 0..(m + 1) |-> IF n <= m THEN f[n] ELSE on]
  <2>2. (\A n \in 0..m : g[n] = f[n]) /\ g[m + 1] = on
    OBVIOUS
  <2>3. g = [n \in 0..(m + 1) |-> g[n]]
    OBVIOUS
  <2>4. \A n \in 0..m : f[n] = IF n = 0 THEN from ELSE Applied(f[n-1], pages[n])
    BY <2>1 DEF Folds
  <2> HIDE DEF g
  <2>5. ASSUME NEW n \in 0..(m + 1)
        PROVE  g[n] = IF n = 0 THEN from ELSE Applied(g[n-1], pages[n])
    <3>1. CASE n = m + 1
      <4>1. n # 0 /\ n - 1 = m /\ m \in 0..m
        BY <3>1
      <4> QED BY <2>2, <3>1, <4>1
    <3>2. CASE n \in 0..m
      <4>1. n # 0 => n - 1 \in 0..m
        BY <3>2
      <4> QED BY <2>2, <2>4, <3>2, <4>1
    <3> QED BY <3>1, <3>2
  <2>6. Folds(g, from, pages, m + 1)
    BY <2>3, <2>5 DEF Folds
  <2> QED BY <2>6
<1>3. Nat \subseteq T
  <2> HIDE DEF T
  <2> QED BY <1>1, <1>2, Induction
<1> QED BY <1>3

LEMMA FoldedIs ==
  ASSUME NEW from, NEW pages, Len(pages) \in Nat
  PROVE  \E f : Folds(f, from, pages, Len(pages)) /\ Folded(from, pages) = f[Len(pages)]
<1>1. \E f : Folds(f, from, pages, Len(pages))
  BY FoldsExist
<1> QED BY <1>1 DEF Folded, Folds, Applied

\* What a fold is at each page.
LEMMA FoldsAt ==
  ASSUME NEW f, NEW from, NEW pages, NEW m \in Nat, Folds(f, from, pages, m)
  PROVE  /\ f[0] = from
         /\ \A n \in Nat : n + 1 <= m => f[n + 1] = Applied(f[n], pages[n + 1])
<1>1. \A n \in 0..m : f[n] = IF n = 0 THEN from ELSE Applied(f[n-1], pages[n])
  BY DEF Folds
<1>2. 0 \in 0..m
  OBVIOUS
<1>3. ASSUME NEW n \in Nat, n + 1 <= m PROVE f[n + 1] = Applied(f[n], pages[n + 1])
  <2>1. n + 1 \in 0..m /\ n + 1 # 0 /\ (n + 1) - 1 = n
    BY <1>3
  <2> QED BY <1>1, <2>1
<1> QED BY <1>1, <1>2, <1>3

\* Part of a stream.
RestIs(S, s, n, r) ==
  /\ r \in Seq(S) /\ Len(r) = Len(s) - n
  /\ \A i \in 1..(Len(s) - n) : r[i] = s[n + i]
  /\ (r = <<>>) <=> (n = Len(s))

LEMMA RestOf ==
  ASSUME NEW S, NEW s \in Seq(S), NEW n \in Nat, n <= Len(s), NEW r, r = SubSeq(s, n + 1, Len(s))
  PROVE  RestIs(S, s, n, r)
<1>0. PICK L \in Nat : L = Len(s)
  OBVIOUS
<1>1. /\ r \in Seq(S)
      /\ Len(r) = IF n + 1 <= L THEN L - (n + 1) + 1 ELSE 0
      /\ \A i \in 1..(L - (n + 1) + 1) : r[i] = s[(n + 1) + i - 1]
  <2>1. \A i \in (n + 1)..L : s[i] \in S
    BY <1>0
  <2> QED BY <1>0, <2>1, SubSeqProperties
<1>2. Len(r) = L - n
  BY <1>0, <1>1
<1>3. ASSUME NEW i \in 1..(L - n) PROVE r[i] = s[n + i]
  <2>1. (n + 1) + i - 1 = n + i /\ i \in 1..(L - (n + 1) + 1)
    OBVIOUS
  <2> QED BY <1>1, <2>1
<1>4. (r = <<>>) <=> (Len(r) = 0)
  <2>1. Len(<<>>) = 0 /\ (r # <<>> => Len(r) \in Nat \ {0})
    BY <1>1, EmptySeq
  <2> QED BY <2>1
<1> QED BY <1>0, <1>1, <1>2, <1>3, <1>4 DEF RestIs

LEMMA PartOf ==
  ASSUME NEW s, IsStream(s), NEW n \in 0..Len(s)
  PROVE  /\ Len(s) \in Nat /\ DOMAIN s = 1..Len(s)
         /\ Len(SubSeq(s, 1, n)) = n
         /\ \A i \in 1..n : SubSeq(s, 1, n)[i] = s[i]
         /\ Len(SubSeq(s, n + 1, Len(s))) = Len(s) - n
         /\ \A i \in 1..(Len(s) - n) : SubSeq(s, n + 1, Len(s))[i] = s[n + i]
         /\ (SubSeq(s, n + 1, Len(s)) = <<>>) <=> (n = Len(s))
         /\ IsStream(SubSeq(s, n + 1, Len(s)))
<1> DEFINE S == {s[i] : i \in DOMAIN s}
<1>1. s \in Seq(S)
  BY DEF IsStream
<1> HIDE DEF S
<1>2. PICK L \in Nat : L = Len(s)
  BY <1>1
<1>3. DOMAIN s = 1..L /\ n \in Nat /\ n <= L
  BY <1>1, <1>2
<1>4. /\ Len(SubSeq(s, 1, n)) = n
      /\ \A i \in 1..n : SubSeq(s, 1, n)[i] = s[i]
  BY <1>1, <1>2, <1>3
<1>7. PICK r : r = SubSeq(s, n + 1, Len(s))
  OBVIOUS
<1>8. n <= Len(s)
  BY <1>2, <1>3
<1>5. /\ r \in Seq(S) /\ Len(r) = Len(s) - n
      /\ \A i \in 1..(Len(s) - n) : r[i] = s[n + i]
      /\ (r = <<>>) <=> (n = Len(s))
  <2>1. RestIs(S, s, n, r)
    BY <1>1, <1>3, <1>7, <1>8, RestOf
  <2> QED BY <2>1 DEF RestIs
<1>6. IsStream(r)
  <2>2. Len(r) \in Nat /\ r = [i \in 1..Len(r) |-> r[i]]
    BY <1>5
  <2>1. \A i \in 1..Len(r) : r[i] \in {r[j] : j \in DOMAIN r}
    BY <2>2
  <2>3. [i \in 1..Len(r) |-> r[i]] \in Seq({r[j] : j \in DOMAIN r})
    BY <2>1, <2>2, IsASeq
  <2> QED BY <2>2, <2>3 DEF IsStream
<1> QED BY <1>2, <1>3, <1>4, <1>5, <1>6, <1>7

\* The whole of a stream is its first part and the rest.
LEMMA FoldedOn ==
  ASSUME NEW from, NEW s, IsStream(s), NEW n \in 0..Len(s)
  PROVE  Folded(from, s) = Folded(Folded(from, SubSeq(s, 1, n)), SubSeq(s, n + 1, Len(s)))
<1>1. PICK L \in Nat : L = Len(s)
  BY PartOf
<1>2. PICK a, r : a = SubSeq(s, 1, n) /\ r = SubSeq(s, n + 1, Len(s))
  OBVIOUS
<1>3. /\ n \in Nat /\ n <= L
      /\ Len(a) = n /\ \A i \in 1..n : a[i] = s[i]
      /\ Len(r) = L - n /\ L - n \in Nat /\ \A i \in 1..(L - n) : r[i] = s[n + i]
  <2>1. n \in Nat /\ n <= L /\ L - n \in Nat
    BY <1>1
  <2>2. /\ Len(SubSeq(s, 1, n)) = n
        /\ \A i \in 1..n : SubSeq(s, 1, n)[i] = s[i]
    BY PartOf
  <2>3. /\ Len(SubSeq(s, n + 1, Len(s))) = Len(s) - n
        /\ \A i \in 1..(Len(s) - n) : SubSeq(s, n + 1, Len(s))[i] = s[n + i]
    BY PartOf
  <2> QED BY <1>1, <1>2, <2>1, <2>2, <2>3
<1>4. PICK f : Folds(f, from, s, L) /\ Folded(from, s) = f[L]
  <2>1. \E g : Folds(g, from, s, Len(s)) /\ Folded(from, s) = g[Len(s)]
    BY <1>1, FoldedIs
  <2> QED BY <1>1, <2>1
<1>5. PICK g : Folds(g, from, a, n) /\ Folded(from, a) = g[n]
  <2>1. \E g : Folds(g, from, a, Len(a)) /\ Folded(from, a) = g[Len(a)]
    BY <1>3, FoldedIs
  <2> QED BY <1>3, <2>1
<1>6. PICK h : Folds(h, g[n], r, L - n) /\ Folded(g[n], r) = h[L - n]
  <2>1. \E k : Folds(k, g[n], r, Len(r)) /\ Folded(g[n], r) = k[Len(r)]
    BY <1>3, FoldedIs
  <2> QED BY <1>3, <2>1
<1>7. /\ f[0] = from /\ \A i \in Nat : i + 1 <= L => f[i + 1] = Applied(f[i], s[i + 1])
      /\ g[0] = from /\ \A i \in Nat : i + 1 <= n => g[i + 1] = Applied(g[i], a[i + 1])
      /\ h[0] = g[n] /\ \A i \in Nat : i + 1 <= L - n => h[i + 1] = Applied(h[i], r[i + 1])
  <2>1. /\ f[0] = from /\ \A i \in Nat : i + 1 <= L => f[i + 1] = Applied(f[i], s[i + 1])
    BY <1>4, FoldsAt
  <2>2. /\ g[0] = from /\ \A i \in Nat : i + 1 <= n => g[i + 1] = Applied(g[i], a[i + 1])
    BY <1>3, <1>5, FoldsAt
  <2>3. /\ h[0] = g[n] /\ \A i \in Nat : i + 1 <= L - n => h[i + 1] = Applied(h[i], r[i + 1])
    BY <1>3, <1>6, FoldsAt
  <2> QED BY <2>1, <2>2, <2>3
<1>8. g[n] = f[n]
  <2> DEFINE T == {i \in Nat : i <= n => g[i] = f[i]}
  <2>1. 0 \in T
    BY <1>7
  <2>2. ASSUME NEW i \in Nat, i \in T, i + 1 <= n PROVE g[i + 1] = f[i + 1]
    <3>1. i <= n /\ i + 1 <= L /\ i + 1 \in 1..n
      BY <1>3, <2>2
    <3>2. g[i] = f[i] /\ a[i + 1] = s[i + 1]
      BY <1>3, <2>2, <3>1
    <3>3. g[i + 1] = Applied(g[i], a[i + 1]) /\ f[i + 1] = Applied(f[i], s[i + 1])
      BY <1>7, <2>2, <3>1
    <3> QED BY <3>2, <3>3
  <2>3. \A i \in Nat : i \in T => i + 1 \in T
    BY <2>2
  <2>4. Nat \subseteq T
    <3> HIDE DEF T
    <3> QED BY <2>1, <2>3, Induction
  <2> QED BY <1>3, <2>4
<1>9. h[L - n] = f[L]
  <2> DEFINE T == {i \in Nat : i <= L - n => h[i] = f[n + i]}
  <2>1. 0 \in T
    BY <1>3, <1>7, <1>8
  <2>2. ASSUME NEW i \in Nat, i \in T, i + 1 <= L - n PROVE h[i + 1] = f[n + (i + 1)]
    <3>1. /\ i <= L - n /\ n + i \in Nat /\ (n + i) + 1 <= L /\ i + 1 \in 1..(L - n)
          /\ n + (i + 1) = (n + i) + 1
      BY <1>3, <2>2
    <3>2. h[i] = f[n + i] /\ r[i + 1] = s[n + (i + 1)]
      BY <1>3, <2>2, <3>1
    <3>3. h[i + 1] = Applied(h[i], r[i + 1]) /\ f[(n + i) + 1] = Applied(f[n + i], s[(n + i) + 1])
      BY <1>7, <2>2, <3>1
    <3> QED BY <3>1, <3>2, <3>3
  <2>3. \A i \in Nat : i \in T => i + 1 \in T
    BY <2>2
  <2>4. Nat \subseteq T
    <3> HIDE DEF T
    <3> QED BY <2>1, <2>3, Induction
  <2>5. h[L - n] = f[n + (L - n)] /\ n + (L - n) = L
    <3>1. L - n \in T /\ L - n <= L - n
      BY <1>3, <2>4
    <3> QED BY <1>3, <3>1
  <2> QED BY <2>5
<1> QED BY <1>2, <1>4, <1>5, <1>6, <1>9

\* Applied to a task, an event leaves one, on its own harp or one it adds.
LEMMA AppliedTask ==
  ASSUME NEW t, IsTask(t), NEW e, IsEvent(e), NEW at
  PROVE  /\ IsTask(Apply(t, e, at))
         /\ Apply(t, e, at).harp_id \in Harps \cup {t.harp_id}
         /\ e.type = "TaskAdded" => Apply(t, e, at).harp_id \in Harps
<1>1. CASE e.type = "TaskAdded"
  BY <1>1 DEF Apply, ApplyAdded, IsTask, IsEvent
<1>2. CASE e.type = "StatusChanged"
  BY <1>2 DEF Apply, ApplyStatusChanged, IsTask
<1>3. CASE e.type = "TextEdited"
  BY <1>3 DEF Apply, IsTask
<1>4. CASE e.type = "Retagged"
  BY <1>4 DEF Apply, IsTask
<1>5. CASE e.type = "TaskRemoved"
  BY <1>5 DEF Apply, IsTask
<1> QED BY <1>1, <1>2, <1>3, <1>4, <1>5 DEF IsEvent

LEMMA NoTaskIs ==
  /\ IsTask(NoTask) /\ NoTask.harp_id = Empty /\ ~NoTask.removed
  /\ Unread.harp_id = Absent /\ ~Unread.removed /\ Unread # NoTask
  /\ Empty \notin Harps /\ Absent \notin Harps /\ Absent # Empty
BY NamesAssumption DEF NoTask, IsTask, Unread, Absent, Empty

\* Pages leave a task, unless one is unread: then none, whatever follows.
LEMMA FoldsReads ==
  ASSUME NEW from, IsTask(from), from.harp_id # Absent, NEW s, IsStream(s),
         \A i \in DOMAIN s : IsUnread(s[i]) \/ IsEvent(s[i].event)
  PROVE  /\ (Folded(from, s) = Unread) <=> \E i \in DOMAIN s : IsUnread(s[i])
         /\ Folded(from, s) # Unread =>
              /\ IsTask(Folded(from, s))
              /\ Folded(from, s).harp_id \in Harps \cup {from.harp_id}
              /\ s # <<>> /\ s[1].event.type = "TaskAdded" => Folded(from, s).harp_id \in Harps
<1>1. PICK L \in Nat : L = Len(s) /\ DOMAIN s = 1..L /\ ((s = <<>>) <=> L = 0)
  <2>1. Len(s) \in Nat /\ DOMAIN s = 1..Len(s)
    BY DEF IsStream
  <2>2. (s = <<>>) <=> Len(s) = 0
    BY EmptySeq DEF IsStream
  <2> QED BY <2>1, <2>2
<1>2. PICK f : Folds(f, from, s, L) /\ Folded(from, s) = f[L]
  <2>1. \E g : Folds(g, from, s, Len(s)) /\ Folded(from, s) = g[Len(s)]
    BY <1>1, FoldedIs
  <2> QED BY <1>1, <2>1
<1>3. f[0] = from /\ \A i \in Nat : i + 1 <= L => f[i + 1] = Applied(f[i], s[i + 1])
  BY <1>2, FoldsAt
<1> DEFINE Left(n) == \/ (\E i \in 1..n : IsUnread(s[i])) /\ f[n] = Unread
                      \/ /\ \A i \in 1..n : ~IsUnread(s[i])
                         /\ IsTask(f[n]) /\ f[n].harp_id \in Harps \cup {from.harp_id}
                         /\ n # 0 /\ s[1].event.type = "TaskAdded" => f[n].harp_id \in Harps
           T == {n \in Nat : n <= L => Left(n)}
<1>4. 0 \in T
  BY <1>3
<1>5. ASSUME NEW n \in Nat, n \in T, n + 1 <= L PROVE Left(n + 1)
  <2>1. Left(n) /\ n + 1 \in DOMAIN s /\ f[n + 1] = Applied(f[n], s[n + 1])
    BY <1>1, <1>3, <1>5
  <2>2. (1..(n + 1)) = (1..n) \cup {n + 1}
    OBVIOUS
  <2>3. CASE IsUnread(s[n + 1])
    BY <2>1, <2>2, <2>3 DEF Applied, IsUnread
  <2>4. CASE ~IsUnread(s[n + 1]) /\ f[n] = Unread
    <3>1. \E i \in 1..n : IsUnread(s[i])
      BY <2>1, <2>4, NoTaskIs
    <3> QED BY <2>1, <2>2, <2>4, <3>1 DEF Applied
  <2>5. CASE ~IsUnread(s[n + 1]) /\ f[n] # Unread
    <3>1. /\ \A i \in 1..n : ~IsUnread(s[i])
          /\ IsTask(f[n]) /\ f[n].harp_id \in Harps \cup {from.harp_id}
          /\ n # 0 /\ s[1].event.type = "TaskAdded" => f[n].harp_id \in Harps
      BY <2>1, <2>5
    <3>2. IsEvent(s[n + 1].event)
      BY <2>1, <2>5
    <3>3. f[n + 1] = Apply(f[n], s[n + 1].event, s[n + 1].recorded_at)
      BY <2>1, <2>5 DEF Applied, IsUnread
    <3>4. /\ IsTask(f[n + 1]) /\ f[n + 1].harp_id \in Harps \cup {f[n].harp_id}
          /\ s[n + 1].event.type = "TaskAdded" => f[n + 1].harp_id \in Harps
      BY <3>1, <3>2, <3>3, AppliedTask
    <3>5. s[1].event.type = "TaskAdded" => f[n + 1].harp_id \in Harps
      <4>1. CASE n = 0
        BY <3>4, <4>1
      <4>2. CASE n # 0
        BY <3>1, <3>4, <4>2
      <4> QED BY <4>1, <4>2
    <3>6. \A i \in 1..(n + 1) : ~IsUnread(s[i])
      BY <2>2, <2>5, <3>1
    <3> QED BY <3>1, <3>4, <3>5, <3>6
  <2> QED BY <2>3, <2>4, <2>5
<1>6. Left(L)
  <2>1. \A n \in Nat : n \in T => n + 1 \in T
    <3> HIDE DEF Left
    <3> QED BY <1>5
  <2>2. Nat \subseteq T
    <3> HIDE DEF T
    <3> QED BY <1>4, <2>1, Induction
  <2> HIDE DEF Left
  <2> QED BY <2>2
<1>7. \A t : IsTask(t) /\ t.harp_id \in Harps \cup {from.harp_id} => t # Unread
  BY NoTaskIs
<1> QED BY <1>1, <1>2, <1>6, <1>7

------------------------------------------------------------------------------
(* Lists: what one keeps of a stream, by the stream as it is.               *)

EntryOf(t) == IF t.removed THEN NoEntry ELSE t

\* Of a stream s after b others on its harp, a list that is at `at` keeps the
\* task `stream` and lists `entry`: those of the part of s it has read, a task
\* taken out once the rest could not be; a task of a stream before, which it
\* knows; or nothing, of one it has not read.
KnownSound(stream, entry, at, s, b) ==
  /\ at.birth \in Nat /\ at.birth <= b
  /\ at.pages \in Nat
  /\ at.pages = 0 => stream = NoEntry /\ entry = NoEntry
  /\ at.pages > 0 /\ at.birth # b => stream # NoEntry
  /\ at.pages > 0 /\ at.birth = b =>
       /\ at.pages <= Len(s)
       /\ \A i \in 1..at.pages : ~IsUnread(s[i])
       /\ \/ stream = Folded(NoTask, SubSeq(s, 1, at.pages))
          \/ stream = NoEntry /\ \E i \in DOMAIN s : IsUnread(s[i])
       /\ entry = EntryOf(Folded(NoTask, SubSeq(s, 1, at.pages)))

ListSound(p, h) ==
  /\ StreamSound(streams[p][h])
  /\ births[p][h] \in Nat
  /\ KnownSound(lists[p].streams[h], lists[p].entries[h], lists[p].at[h],
                streams[p][h], births[p][h])

\* A function of projects and harps.
IsTable(f) == f = [q \in Projects |-> [g \in Harps |-> f[q][g]]]

ListInv ==
  /\ IsTable(streams) /\ IsTable(births)
  /\ lists = [p \in Projects |-> lists[p]]
  /\ seen = [p \in Projects |-> seen[p]]
  /\ there = [p \in Projects |-> there[p]]
  /\ \A p \in Projects : ~there[p] => \A h \in Harps : streams[p][h] = <<>>
  /\ \A p \in Projects : \A h \in Harps : ListSound(p, h)

\* The first part of a stream, itself one where it is not empty.
LEMMA PrefixSound ==
  ASSUME NEW s, StreamSound(s), NEW n \in 1..Len(s), \A i \in 1..n : ~IsUnread(s[i])
  PROVE  LET t == Folded(NoTask, SubSeq(s, 1, n)) IN
         t # Unread /\ IsTask(t) /\ t.harp_id \in Harps /\ t # NoTask
<1>1. PICK a : a = SubSeq(s, 1, n)
  OBVIOUS
<1>2. /\ Len(s) \in Nat /\ DOMAIN s = 1..Len(s) /\ Len(a) = n
      /\ \A i \in 1..n : a[i] = s[i]
  BY <1>1, PartOf DEF StreamSound
<1>3. n \in Nat /\ n >= 1 /\ n <= Len(s)
  BY <1>2
<1>4. IsStream(a) /\ a # <<>>
  <2>1. \A i \in 1..n : s[i] \in {s[j] : j \in DOMAIN s}
    BY <1>2, <1>3
  <2>2. a \in Seq({s[j] : j \in DOMAIN s})
    BY <1>1, <1>3, <2>1, SubSeqProperties
  <2>3. DOMAIN a = 1..n /\ a = [i \in 1..n |-> a[i]]
    BY <1>2, <2>2
  <2>4. \A i \in 1..n : a[i] \in {a[j] : j \in DOMAIN a}
    BY <2>3
  <2>5. [i \in 1..n |-> a[i]] \in Seq({a[j] : j \in DOMAIN a})
    BY <1>3, <2>4, IsASeq
  <2>6. Len(<<>>) = 0
    BY EmptySeq
  <2> QED BY <1>2, <1>3, <2>3, <2>5, <2>6 DEF IsStream
<1>5. DOMAIN a = 1..n
  BY <1>2, <1>4 DEF IsStream
<1>6. \A i \in DOMAIN a : ~IsUnread(a[i]) /\ (IsUnread(a[i]) \/ IsEvent(a[i].event))
  BY <1>2, <1>3, <1>5 DEF StreamSound
<1>7. a[1].event.type = "TaskAdded"
  <2>1. s # <<>>
    BY <1>3, EmptySeq
  <2> QED BY <1>2, <1>3, <2>1 DEF StreamSound
<1>8. IsTask(NoTask) /\ NoTask.harp_id # Absent
  BY NoTaskIs
<1>9. Folded(NoTask, a) # Unread
  BY <1>4, <1>6, <1>8, FoldsReads
<1>10. IsTask(Folded(NoTask, a)) /\ Folded(NoTask, a).harp_id \in Harps
  BY <1>4, <1>6, <1>7, <1>8, <1>9, FoldsReads
<1> QED BY <1>1, <1>9, <1>10, NoTaskIs

\* The whole of a stream, as what a store holds of it.
LEMMA WholeTask ==
  ASSUME NEW s, StreamSound(s)
  PROVE  /\ s = <<>> => Folded(NoTask, s) = NoTask
         /\ s # <<>> => Folded(NoTask, s) # NoTask
         /\ (Folded(NoTask, s) = Unread) <=> \E i \in DOMAIN s : IsUnread(s[i])
         /\ SubSeq(s, 1, Len(s)) = s
<1>1. IsStream(s) /\ Len(s) \in Nat /\ DOMAIN s = 1..Len(s)
  BY DEF StreamSound, IsStream
<1>2. SubSeq(s, 1, Len(s)) = s
  BY <1>1, SubSeqFull DEF IsStream
<1>3. IsTask(NoTask) /\ NoTask.harp_id # Absent
  BY NoTaskIs
<1>4. (Folded(NoTask, s) = Unread) <=> \E i \in DOMAIN s : IsUnread(s[i])
  BY <1>1, <1>3, FoldsReads DEF StreamSound
<1>5. CASE s = <<>>
  <2>1. Len(s) = 0
    BY <1>5, EmptySeq
  <2>2. PICK f : Folds(f, NoTask, s, Len(s)) /\ Folded(NoTask, s) = f[Len(s)]
    BY <1>1, FoldedIs
  <2>3. f[0] = NoTask
    BY <2>1, <2>2, FoldsAt
  <2> QED BY <1>2, <1>4, <1>5, <2>1, <2>2, <2>3
<1>6. CASE s # <<>>
  <2>1. Len(s) \in 1..Len(s)
    BY <1>1, <1>6, EmptySeq DEF IsStream
  <2>2. CASE \E i \in DOMAIN s : IsUnread(s[i])
    BY <1>2, <1>4, <1>6, <2>2, NoTaskIs
  <2>3. CASE \A i \in DOMAIN s : ~IsUnread(s[i])
    <3>1. Folded(NoTask, SubSeq(s, 1, Len(s))) # NoTask
      BY <1>1, <2>1, <2>3, PrefixSound
    <3> QED BY <1>2, <1>4, <1>6, <3>1
  <2> QED BY <2>2, <2>3
<1> QED BY <1>5, <1>6

\* What a list makes of a stream it is behind on, read from where it was.
LEMMA FoldIs ==
  ASSUME NEW p, NEW h, ListSound(p, h), HandedPages(p, h) # <<>>
  PROVE  LET s == streams[p][h]
             unreadable == \E i \in DOMAIN s : IsUnread(s[i]) IN
         /\ s # <<>>
         /\ (Fold(p, h) = Unread) <=> unreadable
         /\ ~unreadable => Fold(p, h) = Folded(NoTask, s)
<1>1. PICK s : s = streams[p][h]
  OBVIOUS
<1>2. PICK at : at = lists[p].at[h]
  OBVIOUS
<1>3. PICK held_ : held_ = lists[p].streams[h]
  OBVIOUS
<1>4. /\ StreamSound(s) /\ IsStream(s) /\ Len(s) \in Nat /\ DOMAIN s = 1..Len(s)
      /\ KnownSound(held_, lists[p].entries[h], at, s, births[p][h])
  BY <1>1, <1>2, <1>3 DEF ListSound, StreamSound, IsStream
<1>5. CASE IsNew(p, h)
  <2>1. HandedPages(p, h) = s /\ Fold(p, h) = Folded(NoTask, s)
    BY <1>1, <1>5 DEF HandedPages, Fold
  <2> QED BY <1>1, <1>4, <2>1, WholeTask
<1>6. CASE ~IsNew(p, h)
  <2>1. /\ at.birth = births[p][h] /\ at.pages # 0
        /\ HandedPages(p, h) = SubSeq(s, at.pages + 1, Len(s))
        /\ Fold(p, h) = Folded(held_, SubSeq(s, at.pages + 1, Len(s)))
    BY <1>1, <1>2, <1>3, <1>6 DEF IsNew, HandedPages, Fold
  <2>2. PICK n \in 1..Len(s) : n = at.pages
    BY <1>4, <2>1 DEF KnownSound
  <2>3. PICK r : r = SubSeq(s, n + 1, Len(s))
    OBVIOUS
  <2>4. /\ IsStream(r) /\ Len(r) = Len(s) - n /\ \A i \in 1..(Len(s) - n) : r[i] = s[n + i]
    BY <1>4, <2>2, <2>3, PartOf
  <2>5. DOMAIN r = 1..(Len(s) - n) /\ n \in Nat /\ n >= 1 /\ n <= Len(s)
    BY <1>4, <2>2, <2>4 DEF IsStream
  <2>6. \A i \in 1..n : ~IsUnread(s[i])
    BY <1>4, <2>1, <2>2 DEF KnownSound
  <2>7. PICK t : t = Folded(NoTask, SubSeq(s, 1, n))
    OBVIOUS
  <2>8. IsTask(t) /\ t.harp_id # Absent
    BY <1>4, <2>6, <2>7, PrefixSound, NoTaskIs
  <2>9. \A i \in DOMAIN r : IsUnread(r[i]) \/ IsEvent(r[i].event)
    <3> SUFFICES ASSUME NEW i \in 1..(Len(s) - n) PROVE IsUnread(r[i]) \/ IsEvent(r[i].event)
      BY <2>5
    <3>1. n + i \in DOMAIN s /\ r[i] = s[n + i]
      BY <1>4, <2>4, <2>5
    <3> QED BY <1>4, <3>1 DEF StreamSound
  <2>10. (\E i \in DOMAIN r : IsUnread(r[i])) <=> \E i \in DOMAIN s : IsUnread(s[i])
    <3>1. ASSUME NEW i \in DOMAIN s, IsUnread(s[i]) PROVE \E j \in DOMAIN r : IsUnread(r[j])
      <4>1. i > n /\ i \in Nat /\ i <= Len(s)
        BY <1>4, <2>5, <2>6, <3>1
      <4>2. i - n \in DOMAIN r /\ n + (i - n) = i
        BY <1>4, <2>5, <4>1
      <4> QED BY <2>4, <2>5, <3>1, <4>2
    <3>2. ASSUME NEW j \in DOMAIN r, IsUnread(r[j]) PROVE \E i \in DOMAIN s : IsUnread(s[i])
      <4>1. n + j \in DOMAIN s /\ r[j] = s[n + j]
        BY <1>4, <2>4, <2>5
      <4> QED BY <3>2, <4>1
    <3> QED BY <3>1, <3>2
  <2>11. s # <<>>
    BY <2>5, EmptySeq
  <2>12. CASE held_ = t
    <3>1. (Folded(t, r) = Unread) <=> \E i \in DOMAIN r : IsUnread(r[i])
      BY <2>4, <2>8, <2>9, FoldsReads
    <3>2. Folded(NoTask, s) = Folded(t, r)
      BY <1>4, <2>3, <2>5, <2>7, FoldedOn
    <3> QED BY <1>1, <2>1, <2>2, <2>3, <2>10, <2>11, <2>12, <3>1, <3>2
  <2>13. CASE held_ = NoEntry /\ \E i \in DOMAIN s : IsUnread(s[i])
    <3>1. IsTask(NoTask) /\ NoTask.harp_id # Absent
      BY NoTaskIs
    <3>2. (Folded(NoTask, r) = Unread) <=> \E i \in DOMAIN r : IsUnread(r[i])
      BY <2>4, <2>9, <3>1, FoldsReads
    <3> QED BY <1>1, <2>1, <2>2, <2>3, <2>10, <2>11, <2>13, <3>2 DEF NoEntry
  <2> QED BY <1>4, <2>1, <2>2, <2>5, <2>7, <2>12, <2>13 DEF KnownSound
<1> QED BY <1>5, <1>6

\* Caught up, a list keeps as much of each stream, and lists the task of one
\* it did not fail on.
LEMMA CaughtSound ==
  ASSUME NEW p, NEW h, ListSound(p, h)
  PROVE  /\ KnownSound(Projected(p, h).streams, Projected(p, h).entries, Projected(p, h).at,
                       streams[p][h], births[p][h])
         /\ ~Fails(p, h) => Projected(p, h).entries = EntryOf(Task(p, h))
<1>1. PICK s : s = streams[p][h]
  OBVIOUS
<1>2. PICK at : at = lists[p].at[h]
  OBVIOUS
<1>3. PICK kept : kept = lists[p].streams[h]
  OBVIOUS
<1>4. PICK entry : entry = lists[p].entries[h]
  OBVIOUS
<1>5. PICK b : b = births[p][h]
  OBVIOUS
<1>6. /\ StreamSound(s) /\ IsStream(s) /\ Len(s) \in Nat /\ DOMAIN s = 1..Len(s) /\ b \in Nat
      /\ KnownSound(kept, entry, at, s, b)
  BY <1>1, <1>2, <1>3, <1>4, <1>5 DEF ListSound, StreamSound, IsStream
<1>7. Task(p, h) = Folded(NoTask, s)
  BY <1>1 DEF Task
<1>8. (s = <<>>) <=> Len(s) = 0
  BY <1>6, EmptySeq DEF IsStream
<1>9. PICK next : next = Projected(p, h)
  OBVIOUS
<1>10. CASE Gone(p, h)
  <2>1. s = <<>> /\ at.pages > 0 /\ at.pages \in Nat
    BY <1>1, <1>2, <1>6, <1>10 DEF Gone, KnownSound
  <2>2. kept # NoEntry
    BY <1>6, <1>8, <2>1 DEF KnownSound
  <2>3. /\ next.streams = NoEntry /\ next.entries = NoEntry
        /\ next.at = [birth |-> b, pages |-> 0]
    <3>1. ~Fails(p, h)
      <4>1. HandedPages(p, h) = <<>>
        <5>1. CASE IsNew(p, h)
          BY <1>1, <2>1, <5>1 DEF HandedPages
        <5>2. CASE ~IsNew(p, h)
          BY <1>1, <1>2, <2>1, <5>2, EmptySeq DEF HandedPages
        <5> QED BY <5>1, <5>2
      <4> QED BY <4>1 DEF Fails
    <3>2. next = Forgotten(p, h)
      BY <1>9, <1>10, <3>1 DEF Projected
    <3> QED BY <1>3, <1>5, <2>2, <3>2 DEF Forgotten
  <2>4. Task(p, h) = NoTask /\ EntryOf(NoTask) = NoEntry
    BY <1>6, <1>7, <2>1, WholeTask, NoTaskIs DEF EntryOf, NoEntry
  <2>5. KnownSound(next.streams, next.entries, next.at, s, b)
    BY <1>6, <2>3 DEF KnownSound
  <2> QED BY <1>1, <1>5, <1>9, <2>3, <2>4, <2>5
<1>11. CASE ~Gone(p, h) /\ HandedPages(p, h) = <<>>
  <2>1. next.streams = kept /\ next.entries = entry /\ next.at = at
    BY <1>2, <1>3, <1>4, <1>9, <1>11 DEF Projected, Fails
  <2>2. entry = EntryOf(Task(p, h))
    <3>1. CASE IsNew(p, h)
      <4>1. s = <<>>
        BY <1>1, <1>11, <3>1 DEF HandedPages
      <4>2. at.pages = 0
        BY <1>1, <1>2, <1>6, <1>11, <4>1 DEF Gone, KnownSound
      <4> QED BY <1>6, <1>7, <4>1, <4>2, WholeTask, NoTaskIs DEF KnownSound, EntryOf, NoEntry
    <3>2. CASE ~IsNew(p, h)
      <4>1. at.birth = b /\ at.pages # 0 /\ SubSeq(s, at.pages + 1, Len(s)) = <<>>
        BY <1>1, <1>2, <1>5, <1>11, <3>2 DEF IsNew, HandedPages
      <4>2. at.pages \in 0..Len(s) /\ at.pages > 0
        BY <1>6, <4>1 DEF KnownSound
      <4>3. at.pages = Len(s)
        BY <1>6, <4>1, <4>2, PartOf
      <4>4. entry = EntryOf(Folded(NoTask, SubSeq(s, 1, at.pages)))
        BY <1>6, <4>1, <4>2 DEF KnownSound
      <4> QED BY <1>6, <1>7, <4>3, <4>4, WholeTask
    <3> QED BY <3>1, <3>2
  <2> QED BY <1>1, <1>5, <1>6, <1>9, <2>1, <2>2
<1>12. ASSUME HandedPages(p, h) # <<>>
       PROVE  /\ s # <<>> /\ Len(s) > 0 /\ ~Gone(p, h)
              /\ (Fold(p, h) = Unread) <=> \E i \in DOMAIN s : IsUnread(s[i])
              /\ Fold(p, h) # Unread => Fold(p, h) = Folded(NoTask, s)
  BY <1>1, <1>6, <1>8, <1>12, FoldIs DEF Gone
<1>13. CASE HandedPages(p, h) # <<>> /\ Fails(p, h)
  <2>1. /\ next.streams = IF IsNew(p, h) THEN kept ELSE NoEntry
        /\ next.entries = entry /\ next.at = at
    BY <1>2, <1>3, <1>4, <1>9, <1>12, <1>13 DEF Projected
  <2>2. \E i \in DOMAIN s : IsUnread(s[i])
    BY <1>12, <1>13 DEF Fails
  <2>3. IsNew(p, h) <=> at.birth # b \/ at.pages = 0
    BY <1>2, <1>5 DEF IsNew
  <2>4. KnownSound(next.streams, next.entries, next.at, s, b)
    BY <1>6, <2>1, <2>2, <2>3 DEF KnownSound
  <2> QED BY <1>1, <1>5, <1>9, <1>13, <2>4
<1>14. CASE HandedPages(p, h) # <<>> /\ ~Fails(p, h)
  <2>1. /\ next.streams = Fold(p, h) /\ next.entries = EntryOf(Fold(p, h))
        /\ next.at = [birth |-> b, pages |-> Len(s)]
    BY <1>1, <1>5, <1>9, <1>12, <1>14 DEF Projected, EntryOf
  <2>2. Fold(p, h) # Unread
    BY <1>14 DEF Fails
  <2>3. Fold(p, h) = Folded(NoTask, SubSeq(s, 1, Len(s))) /\ \A i \in DOMAIN s : ~IsUnread(s[i])
    BY <1>6, <1>12, <1>14, <2>2, WholeTask
  <2>4. KnownSound(next.streams, next.entries, next.at, s, b)
    BY <1>6, <1>12, <1>14, <2>1, <2>3 DEF KnownSound
  <2> QED BY <1>1, <1>5, <1>7, <1>9, <1>12, <1>14, <2>1, <2>2, <2>4
<1> QED BY <1>10, <1>11, <1>13, <1>14

------------------------------------------------------------------------------
(* What writers make of a stream.                                           *)

\* What a command records is an event; of a harp with no stream, its task's
\* adding.
LEMMA DecidedSound ==
  ASSUME NEW c \in Commands, NEW p, StreamSound(streams[p][c.harp]),
         Records(Decision(p, c.harp, c.command))
  PROVE  LET e == Decision(p, c.harp, c.command).event IN
         /\ IsEvent(e)
         /\ streams[p][c.harp] = <<>> => e.type = "TaskAdded"
<1> DEFINE command == IF c.command.type = "AddTask" THEN [c.command EXCEPT !.harp_id = c.harp]
                      ELSE c.command
           taken == streams[p][c.harp] # <<>>
           task == Task(p, c.harp)
<1>1. /\ c.harp \in Harps
      /\ c.command \in AddTaskCommands \cup SetStatusCommands \cup EditTextCommands
                          \cup RetagCommands \cup RemoveTaskCommands
  BY ReadersAssumption
<1>2. Decision(p, c.harp, c.command) = Decide(task, taken, command)
  BY DEF Decision
<1>3. ~taken => LiveRefusal(task) = "NoTask"
  BY WholeTask, NoTaskIs DEF LiveRefusal, Task
<1> HIDE DEF taken, task
<1>4. CASE c.command \in AddTaskCommands
  <2>1. c.command.type = "AddTask" /\ command.type = "AddTask" /\ command.harp_id = c.harp
    BY <1>4 DEF AddTaskCommands
  <2> HIDE DEF command
  <2>2. Decide(task, taken, command) = DecideAdd(taken, command)
    BY <2>1 DEF Decide
  <2> QED BY <1>1, <1>2, <2>1, <2>2
          DEF DecideAdd, Records, Refused, Recorded, NoEvent, TaskAddedOf, IsEvent
<1>5. CASE c.command \in SetStatusCommands
  <2>1. command.type = "SetStatus"
    BY <1>5 DEF SetStatusCommands
  <2> HIDE DEF command
  <2>2. Decide(task, taken, command) = DecideSetStatus(task, command)
    BY <2>1 DEF Decide
  <2>3. LiveRefusal(task) = Sound /\ Decide(task, taken, command) = Moved(task, command)
    BY <1>2, <2>2 DEF DecideSetStatus, Records, Refused, NoEvent
  <2>4. taken
    BY <1>3, <2>3 DEF Sound
  <2> QED BY <1>2, <2>3, <2>4
          DEF Moved, Recorded, Refused, Unchanged, NoEvent, Deferring, Resting, Records, IsEvent, taken
<1>6. CASE c.command \in EditTextCommands
  <2>1. command.type = "EditText"
    BY <1>6 DEF EditTextCommands
  <2> HIDE DEF command
  <2>2. Decide(task, taken, command) = DecideEdit(task, command)
    BY <2>1 DEF Decide
  <2>3. LiveRefusal(task) = Sound /\ Decide(task, taken, command).event.type = "TextEdited"
    BY <1>2, <2>2 DEF DecideEdit, Records, Refused, Recorded, NoEvent
  <2> QED BY <1>2, <1>3, <2>3 DEF IsEvent, Sound, taken
<1>7. CASE c.command \in RetagCommands
  <2>1. command.type = "Retag"
    BY <1>7 DEF RetagCommands
  <2> HIDE DEF command
  <2>2. Decide(task, taken, command) = DecideRetag(task, command)
    BY <2>1 DEF Decide
  <2>3. LiveRefusal(task) = Sound /\ Decide(task, taken, command).event.type = "Retagged"
    BY <1>2, <2>2 DEF DecideRetag, Records, Refused, Recorded, Unchanged, NoEvent
  <2> QED BY <1>2, <1>3, <2>3 DEF IsEvent, Sound, taken
<1>8. CASE c.command \in RemoveTaskCommands
  <2>1. command.type = "RemoveTask"
    BY <1>8 DEF RemoveTaskCommands
  <2> HIDE DEF command
  <2>2. Decide(task, taken, command) = DecideRemove(task, command)
    BY <2>1 DEF Decide
  <2>3. LiveRefusal(task) = Sound /\ Decide(task, taken, command).event.type = "TaskRemoved"
    BY <1>2, <2>2 DEF DecideRemove, Records, Refused, Recorded, NoEvent
  <2> QED BY <1>2, <1>3, <2>3 DEF IsEvent, Sound, taken
<1> QED BY <1>1, <1>4, <1>5, <1>6, <1>7, <1>8

LEMMA AppendedPage ==
  ASSUME NEW s, IsStream(s), NEW page
  PROVE  /\ IsStream(Append(s, page))
         /\ Len(s) \in Nat /\ Len(Append(s, page)) = Len(s) + 1
         /\ DOMAIN s = 1..Len(s) /\ DOMAIN Append(s, page) = 1..(Len(s) + 1)
         /\ \A i \in 1..Len(s) : Append(s, page)[i] = s[i]
         /\ Append(s, page)[Len(s) + 1] = page
         /\ (s = <<>>) <=> (Len(s) = 0)
<1> DEFINE S == {s[i] : i \in DOMAIN s} \cup {page}
           t == Append(s, page)
<1>1. s \in Seq(S)
  BY DEF IsStream
<1>2. /\ t \in Seq(S) /\ Len(t) = Len(s) + 1
      /\ \A i \in 1..Len(s) : t[i] = s[i]
      /\ t[Len(s) + 1] = page
  BY <1>1, AppendProperties
<1>3. DOMAIN s = 1..Len(s) /\ DOMAIN t = 1..(Len(s) + 1) /\ Len(s) \in Nat
  BY <1>1, <1>2
<1>4. IsStream(t)
  <2>1. \A i \in 1..Len(t) : t[i] \in {t[j] : j \in DOMAIN t}
    BY <1>2, <1>3
  <2> QED BY <1>2, <1>3, <2>1, IsASeq DEF IsStream
<1>5. (s = <<>>) <=> (Len(s) = 0)
  BY <1>1, EmptySeq
<1> QED BY <1>2, <1>3, <1>4, <1>5

\* A list is as sound on a stream a page was appended to.
LEMMA AppendSound ==
  ASSUME NEW s, StreamSound(s), NEW page, IsUnread(page) \/ IsEvent(page.event),
         s = <<>> => page.event.type = "TaskAdded"
  PROVE  /\ StreamSound(Append(s, page))
         /\ \A stream, entry, at, b : KnownSound(stream, entry, at, s, b)
              => KnownSound(stream, entry, at, Append(s, page), b)
<1>1. PICK t : t = Append(s, page)
  OBVIOUS
<1>2. /\ IsStream(s) /\ IsStream(t) /\ Len(s) \in Nat /\ Len(t) = Len(s) + 1
      /\ DOMAIN s = 1..Len(s) /\ DOMAIN t = 1..(Len(s) + 1)
      /\ \A i \in 1..Len(s) : t[i] = s[i]
      /\ t[Len(s) + 1] = page
      /\ (s = <<>>) <=> (Len(s) = 0)
  BY <1>1, AppendedPage DEF StreamSound
<1>3. StreamSound(t)
  <2>1. \A i \in DOMAIN t : IsUnread(t[i]) \/ IsEvent(t[i].event)
    <3> SUFFICES ASSUME NEW i \in 1..(Len(s) + 1) PROVE IsUnread(t[i]) \/ IsEvent(t[i].event)
      BY <1>2
    <3>1. i \in 1..Len(s) \/ i = Len(s) + 1
      BY <1>2
    <3> QED BY <1>2, <3>1 DEF StreamSound
  <2>2. t[1].event.type = "TaskAdded"
    <3>1. CASE s = <<>>
      BY <1>2, <3>1
    <3>2. CASE s # <<>>
      <4>1. 1 \in 1..Len(s)
        BY <1>2, <3>2
      <4> QED BY <1>2, <3>2, <4>1 DEF StreamSound
    <3> QED BY <3>1, <3>2
  <2> QED BY <1>2, <2>1, <2>2 DEF StreamSound
<1>4. ASSUME NEW n \in Nat, n <= Len(s), n > 0
      PROVE  SubSeq(t, 1, n) = SubSeq(s, 1, n)
  <2>1. SubSeq(t, 1, n) = [i \in 1..n |-> t[i]] /\ SubSeq(s, 1, n) = [i \in 1..n |-> s[i]]
    BY <1>2, <1>4
  <2>2. \A i \in 1..n : t[i] = s[i]
    BY <1>2, <1>4
  <2> QED BY <2>1, <2>2
<1>5. ASSUME NEW stream, NEW entry, NEW at, NEW b, KnownSound(stream, entry, at, s, b)
      PROVE  KnownSound(stream, entry, at, t, b)
  <2>1. CASE at.pages > 0 /\ at.birth = b
    <3>1. PICK n \in Nat : n = at.pages
      BY <1>5 DEF KnownSound
    <3>2. n <= Len(s) /\ n > 0
      BY <1>5, <2>1, <3>1 DEF KnownSound
    <3>3. /\ n <= Len(t)
          /\ \A i \in 1..n : i \in 1..Len(s)
          /\ SubSeq(t, 1, n) = SubSeq(s, 1, n)
      BY <1>2, <1>4, <3>2
    <3>4. \A i \in 1..n : ~IsUnread(t[i])
      BY <1>2, <1>5, <2>1, <3>1, <3>3 DEF KnownSound
    <3>5. (\E i \in DOMAIN s : IsUnread(s[i])) => \E i \in DOMAIN t : IsUnread(t[i])
      <4> SUFFICES ASSUME NEW i \in DOMAIN s, IsUnread(s[i]) PROVE \E j \in DOMAIN t : IsUnread(t[j])
        OBVIOUS
      <4>1. i \in 1..Len(s) /\ i \in DOMAIN t
        BY <1>2
      <4> QED BY <1>2, <4>1
    <3> QED BY <1>5, <2>1, <3>1, <3>3, <3>4, <3>5 DEF KnownSound
  <2>2. CASE ~(at.pages > 0 /\ at.birth = b)
    BY <1>5, <2>2 DEF KnownSound
  <2> QED BY <2>1, <2>2
<1> QED BY <1>1, <1>3, <1>5

\* A stream purged is known to be another, if a list had any of it.
LEMMA PurgeSound ==
  ASSUME NEW stream, NEW entry, NEW at, NEW s, StreamSound(s), NEW b \in Nat,
         KnownSound(stream, entry, at, s, b), Folded(NoTask, s).removed
  PROVE  StreamSound(<<>>) /\ KnownSound(stream, entry, at, <<>>, b + 1)
<1>1. StreamSound(<<>>)
  BY DEF StreamSound, IsStream
<1>2. \A i \in DOMAIN s : ~IsUnread(s[i])
  BY WholeTask, NoTaskIs
<1>3. at.pages > 0 => stream # NoEntry
  <2>1. CASE at.pages > 0 /\ at.birth = b
    <3>1. at.pages \in 1..Len(s) /\ \A i \in 1..at.pages : ~IsUnread(s[i])
      BY <2>1 DEF KnownSound, StreamSound, IsStream
    <3>2. stream = Folded(NoTask, SubSeq(s, 1, at.pages))
      BY <1>2, <2>1 DEF KnownSound
    <3>3. stream # NoTask
      BY <3>1, <3>2, PrefixSound
    <3> QED BY <3>3 DEF NoEntry
  <2>2. CASE at.birth # b
    BY <2>2 DEF KnownSound
  <2> QED BY <2>1, <2>2
<1>4. at.birth # b + 1 /\ at.birth <= b + 1
  BY DEF KnownSound
<1> QED BY <1>1, <1>3, <1>4 DEF KnownSound

------------------------------------------------------------------------------
(* The list of each project, at every step.                                 *)

\* n is f, but for v at p and h.
Changed(n, f, p, h, v) ==
  /\ IsTable(n)
  /\ \A q \in Projects : \A g \in Harps : n[q][g] = IF q = p /\ g = h THEN v ELSE f[q][g]

LEMMA TableExcept ==
  ASSUME NEW f, IsTable(f), NEW p \in Projects, NEW h \in Harps, NEW v,
         NEW n, n = [f EXCEPT ![p][h] = v]
  PROVE  Changed(n, f, p, h, v)
<1>1. PICK row : row = [f[p] EXCEPT ![h] = v]
  OBVIOUS
<1>2. f = [q \in Projects |-> f[q]] /\ \A q \in Projects : f[q] = [g \in Harps |-> f[q][g]]
  BY DEF IsTable
<1>3. /\ row = [g \in Harps |-> row[g]]
      /\ \A g \in Harps : row[g] = IF g = h THEN v ELSE f[p][g]
  BY <1>1, <1>2
<1>4. n = [f EXCEPT ![p] = row]
  BY <1>1
<1>5. /\ n = [q \in Projects |-> n[q]]
      /\ \A q \in Projects : n[q] = IF q = p THEN row ELSE f[q]
  BY <1>2, <1>4
<1>6. ASSUME NEW q \in Projects PROVE n[q] = [g \in Harps |-> n[q][g]]
  <2>1. CASE q = p
    BY <1>3, <1>5, <2>1
  <2>2. CASE q # p
    BY <1>2, <1>5, <2>2
  <2> QED BY <2>1, <2>2
<1>7. IsTable(n)
  <2>1. [q \in Projects |-> n[q]] = [q \in Projects |-> [g \in Harps |-> n[q][g]]]
    BY <1>6, Zenon
  <2> QED BY <1>5, <2>1 DEF IsTable
<1>8. ASSUME NEW q \in Projects, NEW g \in Harps
      PROVE  n[q][g] = IF q = p /\ g = h THEN v ELSE f[q][g]
  BY <1>3, <1>5
<1> QED BY <1>7, <1>8 DEF Changed

\* One stream of one project's store changes; the lists stay as they are.
LEMMA CommitKeeps ==
  ASSUME ListInv, NEW p \in Projects, NEW h \in Harps, NEW pages, NEW b \in Nat,
         streams' = [streams EXCEPT ![p][h] = pages],
         IsTable(births'),
         \A q \in Projects : \A g \in Harps :
           births'[q][g] = IF q = p /\ g = h THEN b ELSE births[q][g],
         lists' = lists, seen' = seen,
         there' = [q \in Projects |-> there'[q]],
         \A q \in Projects : ~there'[q] => ~there[q] /\ (q = p => pages = <<>>),
         StreamSound(pages),
         KnownSound(lists[p].streams[h], lists[p].entries[h], lists[p].at[h], pages, b)
  PROVE  ListInv'
<1>1. /\ \A q \in Projects : \A g \in Harps :
           streams'[q][g] = IF q = p /\ g = h THEN pages ELSE streams[q][g]
      /\ IsTable(streams')
  <2>1. PICK f : f = streams
    OBVIOUS
  <2>2. PICK n : n = streams'
    OBVIOUS
  <2>3. IsTable(f) /\ n = [f EXCEPT ![p][h] = pages]
    BY <2>1, <2>2 DEF ListInv
  <2>4. Changed(n, f, p, h, pages)
    BY <2>3, TableExcept
  <2> QED BY <2>1, <2>2, <2>4 DEF Changed
<1>3. ASSUME NEW q \in Projects, NEW g \in Harps PROVE ListSound(q, g)'
  <2>1. CASE q = p /\ g = h
    BY <1>1, <2>1 DEF ListSound
  <2>2. CASE ~(q = p /\ g = h)
    <3>1. streams'[q][g] = streams[q][g] /\ births'[q][g] = births[q][g] /\ lists' = lists
      BY <1>1, <2>2
    <3>2. ListSound(q, g)
      BY DEF ListInv
    <3> QED BY <3>1, <3>2 DEF ListSound
  <2> QED BY <2>1, <2>2
<1>4. \A q \in Projects : ~there'[q] => \A g \in Harps : streams'[q][g] = <<>>
  BY <1>1 DEF ListInv
<1>5. lists' = [q \in Projects |-> lists'[q]] /\ seen' = [q \in Projects |-> seen'[q]]
  BY DEF ListInv
<1> QED BY <1>1, <1>3, <1>4, <1>5 DEF ListInv

\* A page is appended to a stream.
LEMMA AppendKeeps ==
  ASSUME ListInv, NEW p \in Projects, NEW h \in Harps, NEW page,
         Commits(p, h, Append(streams[p][h], page)), births' = births,
         there' = [there EXCEPT ![p] = TRUE] \/ (there' = there /\ streams[p][h] # <<>>),
         IsUnread(page) \/ IsEvent(page.event),
         streams[p][h] = <<>> => page.event.type = "TaskAdded"
  PROVE  ListInv'
<1>1. PICK pages : pages = Append(streams[p][h], page)
  OBVIOUS
<1>2. ListSound(p, h) /\ births[p][h] \in Nat
  BY DEF ListInv, ListSound
<1>3. /\ StreamSound(pages)
      /\ KnownSound(lists[p].streams[h], lists[p].entries[h], lists[p].at[h], pages,
                    births[p][h])
  BY <1>1, <1>2, AppendSound DEF ListSound
<1>4. streams' = [streams EXCEPT ![p][h] = pages] /\ lists' = lists /\ seen' = seen
  BY <1>1 DEF Commits
<1>5. there[p] \/ there' = [there EXCEPT ![p] = TRUE]
  BY DEF ListInv
<1>6. /\ there' = [q \in Projects |-> there'[q]]
      /\ \A q \in Projects : ~there'[q] => ~there[q] /\ q # p
  BY <1>5 DEF ListInv
<1>7. IsTable(births')
  BY DEF ListInv
<1> QED BY <1>2, <1>3, <1>4, <1>6, <1>7, CommitKeeps

LEMMA WriteKeeps ==
  ASSUME ListInv, NEW p \in Projects, NEW here, Recording(p, here),
         there' = [there EXCEPT ![p] = TRUE], births' = births
  PROVE  ListInv'
<1>1. PICK c \in Commands :
        LET decision == Decision(p, c.harp, c.command)
            page == [event |-> decision.event, recorded_at |-> c.at] IN
        /\ Records(decision)
        /\ Commits(p, c.harp, Append(streams[p][c.harp], page))
  BY DEF Recording
<1>2. PICK page : page = [event |-> Decision(p, c.harp, c.command).event, recorded_at |-> c.at]
  OBVIOUS
<1>3. c.harp \in Harps
  BY ReadersAssumption
<1>4. StreamSound(streams[p][c.harp])
  BY <1>3 DEF ListInv, ListSound
<1>5. /\ IsEvent(page.event)
      /\ streams[p][c.harp] = <<>> => page.event.type = "TaskAdded"
  BY <1>1, <1>2, <1>4, DecidedSound
<1> QED BY <1>1, <1>2, <1>3, <1>5, AppendKeeps

LEMMA WriteNewerKeeps ==
  ASSUME ListInv, NEW p \in Projects, WriteNewer(p)
  PROVE  ListInv'
<1>1. PICK h \in NewerAt :
        /\ streams[p][h] # <<>>
        /\ Commits(p, h, Append(streams[p][h], [event |-> Unreadable, recorded_at |-> Now]))
        /\ there' = there /\ births' = births
  BY DEF WriteNewer
<1>2. h \in Harps
  BY ReadersAssumption
<1>3. IsUnread([event |-> Unreadable, recorded_at |-> Now])
  BY DEF IsUnread
<1> QED BY <1>1, <1>2, <1>3, AppendKeeps

LEMMA PurgeKeeps ==
  ASSUME ListInv, ~NewerPurges, NEW p \in Projects, Purge(p)
  PROVE  ListInv'
<1>1. PICK h \in Harps :
        /\ Task(p, h).removed
        /\ Commits(p, h, <<>>)
        /\ births' = [births EXCEPT ![p][h] = @ + 1]
        /\ there' = there
  BY DEF Purge
<1>2. ListSound(p, h) /\ births[p][h] \in Nat
  BY DEF ListInv, ListSound
<1>3. PICK b \in Nat : b = births[p][h] + 1
  BY <1>2
<1>4. /\ StreamSound(<<>>)
      /\ KnownSound(lists[p].streams[h], lists[p].entries[h], lists[p].at[h], <<>>, b)
  BY <1>1, <1>2, <1>3, PurgeSound DEF ListSound, Task
<1>5. streams' = [streams EXCEPT ![p][h] = <<>>] /\ lists' = lists /\ seen' = seen
  BY <1>1 DEF Commits
<1>6. /\ IsTable(births')
      /\ \A q \in Projects : \A g \in Harps :
           births'[q][g] = IF q = p /\ g = h THEN b ELSE births[q][g]
  <2>1. PICK f : f = births
    OBVIOUS
  <2>2. PICK n : n = births'
    OBVIOUS
  <2>3. IsTable(f) /\ n = [f EXCEPT ![p][h] = b]
    BY <1>1, <1>3, <2>1, <2>2 DEF ListInv
  <2>4. Changed(n, f, p, h, b)
    BY <2>3, TableExcept
  <2> QED BY <1>3, <2>1, <2>2, <2>4 DEF Changed
<1>7. /\ there' = [q \in Projects |-> there'[q]]
      /\ \A q \in Projects : ~there'[q] => ~there[q]
  BY <1>1 DEF ListInv
<1> QED BY <1>2, <1>3, <1>4, <1>5, <1>6, <1>7, CommitKeeps

\* Caught up and none failed, a list holds what is live.
LEMMA CaughtIsLive ==
  ASSUME ListInv, NEW p \in Projects, FailedIn(p) = {}
  PROVE  Entries(CaughtUp(p)) = Live(p)
<1>1. \A h \in Harps : Projected(p, h).entries = EntryOf(Task(p, h))
  BY CaughtSound DEF ListInv, FailedIn
<1>2. \A h \in Harps : CaughtUp(p).entries[h] = EntryOf(Task(p, h))
  BY <1>1 DEF CaughtUp
<1>3. Entries(CaughtUp(p)) = {EntryOf(Task(p, h)) : h \in Harps} \ {NoEntry}
  BY <1>2 DEF Entries
<1>4. {EntryOf(Task(p, h)) : h \in Harps} \ {NoTask} = Live(p)
  BY DEF EntryOf, Live, NoEntry
<1> QED BY <1>3, <1>4 DEF NoEntry

\* Of a project with no store nothing is live.
LEMMA NoneIsLive ==
  ASSUME ListInv, NEW p \in Projects, ~there[p]
  PROVE  Live(p) = {}
<1>1. \A h \in Harps : StreamSound(streams[p][h]) /\ streams[p][h] = <<>>
  BY DEF ListInv, ListSound
<1>2. ASSUME NEW h \in Harps PROVE Task(p, h) = NoTask
  <2>1. PICK s : s = streams[p][h]
    OBVIOUS
  <2> QED BY <1>1, <2>1, WholeTask DEF Task
<1>3. {Task(p, h) : h \in {g \in Harps : ~Task(p, g).removed}} \subseteq {NoTask}
  BY <1>2
<1> QED BY <1>3 DEF Live

LEMMA GatherKeeps ==
  ASSUME ListInv, Gather
  PROVE  /\ ListInv'
         /\ UNCHANGED storeVars
         /\ \/ seen' = seen
            \/ \E p \in Projects : seen' = [seen EXCEPT ![p] = Live(p)]
<1> DEFINE p == Head(call.left)
<1>1. /\ lists' = [lists EXCEPT ![p] = IF there[p] THEN CaughtUp(p) ELSE @]
      /\ UNCHANGED storeVars
      /\ \/ seen' = seen
         \/ /\ FailedIn(p) = {}
            /\ seen' = [seen EXCEPT ![p] = IF there[p] THEN Entries(CaughtUp(p)) ELSE {}]
  BY DEF Gather
<1> HIDE DEF p
<1>2. UNCHANGED <<there, streams, births>>
  BY <1>1 DEF storeVars
<1>3. CASE p \notin Projects
  <2>1. lists' = lists /\ seen' = seen
    BY <1>1, <1>3 DEF ListInv
  <2>2. ListInv'
    BY <1>2, <2>1 DEF ListInv, ListSound
  <2> QED BY <1>1, <2>1, <2>2
<1>4. CASE p \in Projects
  <2>1. \/ seen' = seen
        \/ seen' = [seen EXCEPT ![p] = Live(p)]
    BY <1>1, <1>4, CaughtIsLive, NoneIsLive
  <2>2. ASSUME NEW q \in Projects, NEW h \in Harps PROVE ListSound(q, h)'
    <3>1. ListSound(q, h)
      BY DEF ListInv
    <3>2. CASE q = p /\ there[p]
      <4>1. lists'[q] = CaughtUp(q)
        BY <1>1, <1>4, <3>2 DEF ListInv
      <4>2. /\ lists'[q].streams[h] = Projected(q, h).streams
            /\ lists'[q].entries[h] = Projected(q, h).entries
            /\ lists'[q].at[h] = Projected(q, h).at
        BY <4>1 DEF CaughtUp
      <4>3. KnownSound(lists'[q].streams[h], lists'[q].entries[h], lists'[q].at[h],
                       streams[q][h], births[q][h])
        BY <3>1, <4>2, CaughtSound
      <4> QED BY <1>2, <3>1, <4>3 DEF ListSound
    <3>3. CASE ~(q = p /\ there[p])
      <4>1. lists'[q] = lists[q]
        BY <1>1, <1>4, <3>3 DEF ListInv
      <4> QED BY <1>2, <3>1, <4>1 DEF ListSound
    <3> QED BY <3>2, <3>3
  <2>3. lists' = [q \in Projects |-> lists'[q]]
    BY <1>1 DEF ListInv
  <2>4. seen' = [q \in Projects |-> seen'[q]]
    BY <2>1 DEF ListInv
  <2>5. ListInv'
    BY <1>2, <2>2, <2>3, <2>4 DEF ListInv
  <2> QED BY <1>1, <1>4, <2>1, <2>5
<1> QED BY <1>3, <1>4

LEMMA InitLists == Init => ListInv /\ Snapshot!Init
<1> SUFFICES ASSUME Init PROVE ListInv /\ Snapshot!Init
  OBVIOUS
<1>1. /\ streams = HeldAtFirst
      /\ there = [p \in Projects |-> \E h \in Harps : streams[p][h] # <<>>]
      /\ births = [p \in Projects |-> [h \in Harps |-> 0]]
      /\ lists = [p \in Projects |-> EmptyList]
      /\ seen = [p \in Projects |-> {}]
  BY DEF Init
<1>2. IsTable(births)
  BY <1>1 DEF IsTable
<1>3. ASSUME NEW p \in Projects, NEW h \in Harps PROVE StreamSound(streams[p][h])
  <2> DEFINE E == TaskEvents \cup {Unreadable}
             P == [event: E, recorded_at: Int]
  <2>1. PICK s : s = streams[p][h]
    OBVIOUS
  <2>2. s \in Seq(P)
    <3>1. HeldAtFirst \in [Projects -> [Harps -> Seq(P)]]
      BY StreamsAssumption
    <3> HIDE DEF P
    <3> QED BY <1>1, <2>1, <3>1
  <2>3. s # <<>> => s[1].event.type = "TaskAdded"
    BY <1>1, <2>1, StreamsAssumption
  <2>4. \A page \in P : page.event \in E
    OBVIOUS
  <2>5. \A e \in E : e = Unreadable \/ IsEvent(e)
    BY DEF TaskEvents, TaskAddedEvents, StatusChangedEvents, TextEditedEvents, RetaggedEvents,
           TaskRemovedEvents, IsEvent
  <2> HIDE DEF P, E
  <2>6. \A i \in DOMAIN s : s[i] \in P
    BY <2>2
  <2>7. \A i \in DOMAIN s : IsUnread(s[i]) \/ IsEvent(s[i].event)
    BY <2>4, <2>5, <2>6 DEF IsUnread
  <2>8. IsStream(s)
    <3>1. Len(s) \in Nat /\ DOMAIN s = 1..Len(s) /\ s = [i \in 1..Len(s) |-> s[i]]
      BY <2>2
    <3>2. \A i \in 1..Len(s) : s[i] \in {s[j] : j \in DOMAIN s}
      BY <3>1
    <3>3. [i \in 1..Len(s) |-> s[i]] \in Seq({s[j] : j \in DOMAIN s})
      BY <3>1, <3>2, IsASeq
    <3> QED BY <3>1, <3>3 DEF IsStream
  <2> QED BY <2>1, <2>3, <2>7, <2>8 DEF StreamSound
<1>4. IsTable(streams)
  <2> DEFINE P == [event: TaskEvents \cup {Unreadable}, recorded_at: Int]
  <2>1. streams \in [Projects -> [Harps -> Seq(P)]]
    BY <1>1, StreamsAssumption
  <2> HIDE DEF P
  <2>2. streams = [q \in Projects |-> streams[q]]
    BY <2>1
  <2>3. \A q \in Projects : streams[q] = [g \in Harps |-> streams[q][g]]
    BY <2>1
  <2>4. [q \in Projects |-> streams[q]] = [q \in Projects |-> [g \in Harps |-> streams[q][g]]]
    BY <2>3, Zenon
  <2> QED BY <2>2, <2>4 DEF IsTable
<1>5. \A p \in Projects : ~there[p] => \A h \in Harps : streams[p][h] = <<>>
  BY <1>1
<1>6. ASSUME NEW p \in Projects, NEW h \in Harps PROVE ListSound(p, h)
  <2>1. /\ births[p][h] = 0 /\ lists[p].streams[h] = NoEntry /\ lists[p].entries[h] = NoEntry
        /\ lists[p].at[h] = [birth |-> 0, pages |-> 0]
    BY <1>1 DEF EmptyList
  <2>2. KnownSound(lists[p].streams[h], lists[p].entries[h], lists[p].at[h],
                   streams[p][h], births[p][h])
    BY <2>1 DEF KnownSound
  <2> QED BY <1>3, <2>1, <2>2 DEF ListSound
<1>7. /\ lists = [p \in Projects |-> lists[p]]
      /\ seen = [p \in Projects |-> seen[p]]
      /\ there = [p \in Projects |-> there[p]]
  BY <1>1
<1> QED BY <1>1, <1>2, <1>4, <1>5, <1>6, <1>7 DEF ListInv, Snapshot!Init

LEMMA NextLists ==
  ASSUME ListInv, ~NewerPurges, [Next]_vars
  PROVE  ListInv' /\ [Snapshot!Next]_(Snapshot!vars)
<1>1. ASSUME NEW p \in Projects, Write(p) \/ WriteHere(p)
      PROVE  ListInv' /\ seen' = seen
  <2>1. PICK here : Recording(p, here) /\ there' = [there EXCEPT ![p] = TRUE] /\ births' = births
    BY <1>1 DEF Write, WriteHere
  <2>2. seen' = seen
    BY <2>1 DEF Recording, Commits
  <2> QED BY <2>1, <2>2, WriteKeeps
<1>2. ASSUME NEW p \in Projects, Purge(p) PROVE ListInv' /\ seen' = seen
  BY <1>2, PurgeKeeps DEF Purge, Commits
<1>3. ASSUME NEW p \in Projects, WriteNewer(p) PROVE ListInv' /\ seen' = seen
  BY <1>3, WriteNewerKeeps DEF WriteNewer, Commits
<1>4. ASSUME UNCHANGED <<storeVars, lists, seen>> PROVE ListInv' /\ seen' = seen
  BY <1>4 DEF ListInv, ListSound, storeVars
<1>5. CASE Gather
  <2>1. /\ ListInv'
        /\ UNCHANGED storeVars
        /\ \/ seen' = seen
           \/ \E p \in Projects : seen' = [seen EXCEPT ![p] = Live(p)]
    BY <1>5, GatherKeeps
  <2>2. ASSUME NEW p \in Projects, seen' = [seen EXCEPT ![p] = Live(p)]
        PROVE  Snapshot!Next
    <3>1. streams' = streams
      BY <2>1 DEF storeVars
    <3>2. [q \in Projects |-> Live(q)]' = [q \in Projects |-> Live(q)]
      BY <3>1 DEF Live, Task
    <3>3. [q \in Projects |-> Live(q)][p] = Live(p)
      OBVIOUS
    <3>4. Snapshot!Read(p)
      BY <2>2, <3>2, <3>3 DEF Snapshot!Read
    <3> QED BY <3>4 DEF Snapshot!Next
  <2> QED BY <2>1, <2>2 DEF Snapshot!Next, Snapshot!Write
<1>6. ASSUME ListInv' /\ seen' = seen PROVE ListInv' /\ [Snapshot!Next]_(Snapshot!vars)
  BY <1>6 DEF Snapshot!Next, Snapshot!Write
<1>7. CASE Touch
  BY <1>4, <1>6, <1>7 DEF Touch
<1>8. ASSUME NEW q \in Asked, Ask(q) PROVE ListInv' /\ seen' = seen
  BY <1>4, <1>8 DEF Ask
<1>9. CASE Requery
  BY <1>4, <1>6, <1>9 DEF Requery
<1>10. CASE Respond
  BY <1>4, <1>6, <1>10 DEF Respond
<1>11. CASE Fail
  BY <1>4, <1>6, <1>11 DEF Fail
<1>12. CASE StartWatch
  BY <1>4, <1>6, <1>12 DEF StartWatch
<1>13. CASE Tick
  BY <1>4, <1>6, <1>13 DEF Tick
<1>14. CASE StopWatch
  BY <1>4, <1>6, <1>14 DEF StopWatch
<1>15. CASE UNCHANGED vars
  BY <1>4, <1>6, <1>15 DEF vars, storeVars
<1> QED BY <1>1, <1>2, <1>3, <1>5, <1>6, <1>7, <1>8, <1>9, <1>10, <1>11, <1>12, <1>13, <1>14,
           <1>15 DEF Next

\* What the service reads of a project is its store's live tasks at one moment
\* (task-lists lib.rs:11), whatever was added, changed, removed, purged and
\* begun again between two reads, and whatever read failed: as long as no
\* newer version purges a stream this one cannot read, which task-lists
\* lib.rs:94 would then keep listed.
THEOREM ReadsOneMoment ==
  ASSUME ~NewerPurges PROVE Spec => ImplementsLiveTasks
<1>1. ListInv /\ [Next]_vars => ListInv' /\ [Snapshot!Next]_(Snapshot!vars)
  BY NextLists
<1> QED BY <1>1, InitLists, PTL DEF Spec, ImplementsLiveTasks, Snapshot!Spec
------------------------------------------------------------------------------
(* A listing's order.                                                       *)

\* A strict order of S, as a set of pairs.
StrictOrder(S, R) ==
  /\ \A r \in S : <<r, r>> \notin R
  /\ \A r, s \in S : r # s => <<r, s>> \in R \/ <<s, r>> \in R
  /\ \A r, s, t \in S : <<r, s>> \in R /\ <<s, t>> \in R => <<r, t>> \in R

\* A finite set's members can be put in a strict order: each at the place that
\* counts those before it.
LEMMA OrderExists ==
  ASSUME NEW S, IsFiniteSet(S), NEW R, StrictOrder(S, R)
  PROVE  \E order \in SetToSeqs(S) :
           \A i, j \in DOMAIN order : i < j => <<order[i], order[j]>> \in R
<1> DEFINE Before(r) == {s \in S : <<s, r>> \in R}
           place == [r \in S |-> Cardinality(Before(r)) + 1]
<1>1. PICK n \in Nat : n = Cardinality(S)
  BY FS_CardinalityType
<1>2. ASSUME NEW r \in S
      PROVE  /\ IsFiniteSet(Before(r)) /\ Cardinality(Before(r)) \in Nat
             /\ Cardinality(Before(r)) + 1 \in 1..n
  <2>1. PICK B \in SUBSET S : B = Before(r)
    OBVIOUS
  <2>2. IsFiniteSet(B) /\ Cardinality(B) <= n /\ (n = Cardinality(B) => S = B)
    BY <1>1, FS_Subset
  <2>3. Cardinality(B) \in Nat
    BY <2>2, FS_CardinalityType
  <2>4. r \notin B
    BY <2>1 DEF StrictOrder
  <2> QED BY <1>1, <2>1, <2>2, <2>3, <2>4
<1>3. ASSUME NEW r \in S, NEW s \in S, <<r, s>> \in R
      PROVE  Cardinality(Before(r)) < Cardinality(Before(s))
  <2>1. PICK B, C : B = Before(r) /\ C = Before(s)
    OBVIOUS
  <2>2. r \notin B /\ B \cup {r} \in SUBSET C
    BY <1>3, <2>1 DEF StrictOrder
  <2>3. IsFiniteSet(B) /\ IsFiniteSet(C) /\ Cardinality(B) \in Nat /\ Cardinality(C) \in Nat
    BY <1>2, <2>1
  <2>4. Cardinality(B \cup {r}) = Cardinality(B) + 1
    BY <2>2, <2>3, FS_AddElement
  <2>5. Cardinality(B \cup {r}) <= Cardinality(C)
    BY <2>2, <2>3, FS_Subset
  <2> QED BY <2>1, <2>3, <2>4, <2>5
<1>4. /\ place \in [S -> 1..n]
      /\ \A r, s \in S : <<r, s>> \in R => place[r] < place[s]
  <2> HIDE DEF Before
  <2>1. \A r \in S : place[r] = Cardinality(Before(r)) + 1
    OBVIOUS
  <2>2. place \in [S -> 1..n]
    BY <1>2
  <2> HIDE DEF place
  <2>3. ASSUME NEW r \in S, NEW s \in S, <<r, s>> \in R PROVE place[r] < place[s]
    <3>1. /\ Cardinality(Before(r)) \in Nat /\ Cardinality(Before(s)) \in Nat
          /\ Cardinality(Before(r)) < Cardinality(Before(s))
      BY <1>2, <1>3, <2>3
    <3> QED BY <2>1, <3>1
  <2> QED BY <2>2, <2>3
<1> HIDE DEF Before, place
<1>5. place \in Injection(S, 1..n)
  <2>1. ASSUME NEW r \in S, NEW s \in S, place[r] = place[s], r # s PROVE FALSE
    <3>1. place[r] < place[s] \/ place[s] < place[r]
      BY <1>4, <2>1 DEF StrictOrder
    <3>2. place[r] \in Nat
      BY <1>4
    <3> QED BY <2>1, <3>1, <3>2
  <2> QED BY <1>4, <2>1 DEF Injection, IsInjective
<1>6. place \in Surjection(S, 1..n)
  <2>1. IsFiniteSet(1..n) /\ Cardinality(1..n) = n
    BY FS_Interval
  <2> QED BY <1>1, <1>5, <2>1, FS_Injection
<1> DEFINE order == [i \in 1..n |-> CHOOSE r \in S : place[r] = i]
<1>7. \A i \in 1..n : order[i] \in S /\ place[order[i]] = i
  BY <1>6 DEF Surjection
<1>8. order \in [1..n -> S]
  BY <1>7
<1> HIDE DEF order
<1>9. \A i, j \in 1..n : i # j => order[i] # order[j]
  BY <1>7
<1>10. ASSUME NEW i \in 1..n, NEW j \in 1..n, i < j PROVE <<order[i], order[j]>> \in R
  <2>1. order[i] # order[j] /\ order[i] \in S /\ order[j] \in S
    BY <1>7, <1>9, <1>10
  <2>2. <<order[j], order[i]>> \notin R
    <3> SUFFICES ASSUME <<order[j], order[i]>> \in R PROVE FALSE
      OBVIOUS
    <3>1. place[order[j]] < place[order[i]]
      BY <1>4, <2>1
    <3> QED BY <1>7, <1>10, <3>1
  <2> QED BY <2>1, <2>2 DEF StrictOrder
<1> QED BY <1>1, <1>8, <1>9, <1>10 DEF SetToSeqs

\* A sequence of a finite set's members is of all of them.
LEMMA OrderIsWhole ==
  ASSUME NEW S, IsFiniteSet(S), NEW order \in SetToSeqs(S)
  PROVE  Range(order) = S
<1>1. PICK n \in Nat : n = Cardinality(S)
  BY FS_CardinalityType
<1>2. order \in [1..n -> S] /\ \A i, j \in 1..n : i # j => order[i] # order[j]
  BY <1>1 DEF SetToSeqs
<1>3. IsFiniteSet(1..n) /\ Cardinality(1..n) = n
  BY FS_Interval
<1>4. order \in Injection(1..n, S)
  BY <1>2 DEF Injection, IsInjective
<1>5. order \in Surjection(1..n, S)
  BY <1>1, <1>3, <1>4, FS_Injection
<1> QED BY <1>1, <1>2, <1>5 DEF Surjection, Range

\* Tasks a listing can put in order: each on a harp of its own.
Sortable(T) ==
  /\ IsFiniteSet(T)
  /\ \A t \in T : t.created_at \in Int /\ t.harp_id \in Harps
  /\ \A t, u \in T : t.harp_id = u.harp_id => t = u

RowsOf(p, T) == [project: {p}, task: T]

\* A query for every task of a project, as it is.
Whole(q, p) ==
  /\ q.kind = "list" /\ q.project = p /\ ~q.global
  /\ q.statuses = {} /\ q.all = TRUE
  /\ q.tag_query = <<Absent>> /\ q.term = Absent
  /\ q.limit = Unlimited /\ q.sort = Absent

LEMMA RowsOrdered ==
  ASSUME NEW T, Sortable(T), NEW p
  PROVE  LET rows == RowsOf(p, T) IN
         /\ IsFiniteSet(rows)
         /\ StrictOrder(rows, {pair \in rows \X rows : RowBefore(FALSE, pair[1], pair[2])})
<1> DEFINE rows == RowsOf(p, T)
           R == {pair \in rows \X rows : RowBefore(FALSE, pair[1], pair[2])}
<1>1. \A r \in rows : r.project = p /\ r.task \in T /\ r = [project |-> p, task |-> r.task]
  BY DEF RowsOf
<1>2. \A r, s \in rows : r.task = s.task => r = s
  BY <1>1
<1>3. IsFiniteSet(rows)
  <2> DEFINE f == [t \in T |-> [project |-> p, task |-> t]]
  <2>1. f \in [T -> rows]
    BY DEF RowsOf
  <2>2. \A r \in rows : r.task \in T /\ f[r.task] = r
    BY <1>1
  <2> HIDE DEF f, rows
  <2>3. f \in Surjection(T, rows)
    BY <2>1, <2>2 DEF Surjection
  <2> QED BY <2>3, FS_Surjection DEF Sortable
<1>4. \A r, s \in rows : <<r, s>> \in R <=> RowBefore(FALSE, r, s)
  OBVIOUS
<1>5. ASSUME NEW r \in rows, NEW s \in rows
      PROVE  RowBefore(FALSE, r, s) <=>
               IF r.task.created_at = s.task.created_at
                 THEN HarpRank[r.task.harp_id] < HarpRank[s.task.harp_id]
                 ELSE r.task.created_at < s.task.created_at
  BY <1>1 DEF RowBefore
<1>6. \A r \in rows : /\ r.task.created_at \in Int /\ r.task.harp_id \in Harps
                      /\ HarpRank[r.task.harp_id] \in Int
  BY <1>1, HarpRankAssumption DEF Sortable
<1>7. \A r, s \in rows : HarpRank[r.task.harp_id] = HarpRank[s.task.harp_id] => r = s
  BY <1>1, <1>2, HarpRankAssumption DEF Sortable
<1> HIDE DEF rows, R
<1> DEFINE added(r) == r.task.created_at
           rank(r) == HarpRank[r.task.harp_id]
<1>0. \A r \in rows : added(r) \in Int /\ rank(r) \in Int
  BY <1>6
<1>12. \A r, s \in rows :
         <<r, s>> \in R <=> IF added(r) = added(s) THEN rank(r) < rank(s) ELSE added(r) < added(s)
  BY <1>4, <1>5
<1>13. \A r, s \in rows : rank(r) = rank(s) => r = s
  BY <1>7
<1> HIDE DEF added, rank
<1>8. \A r \in rows : <<r, r>> \notin R
  BY <1>0, <1>12
<1>9. ASSUME NEW r \in rows, NEW s \in rows, r # s PROVE <<r, s>> \in R \/ <<s, r>> \in R
  BY <1>0, <1>9, <1>12, <1>13
<1>10. ASSUME NEW r \in rows, NEW s \in rows, NEW t \in rows, <<r, s>> \in R, <<s, t>> \in R
       PROVE  <<r, t>> \in R
  BY <1>0, <1>10, <1>12
<1>11. StrictOrder(rows, R)
  BY <1>8, <1>9, <1>10 DEF StrictOrder
<1> QED BY <1>3, <1>11 DEF rows, R

\* Asked for the whole of a project, a listing shows the whole of it.
LEMMA ListedWhole ==
  ASSUME NEW T, Sortable(T), NEW p, NEW q, Whole(q, p)
  PROVE  Range(Listed(RowsOf(p, T), q, FALSE, Now).rows) = RowsOf(p, T)
<1>1. PICK rows : rows = RowsOf(p, T)
  OBVIOUS
<1> DEFINE R == {pair \in rows \X rows : RowBefore(FALSE, pair[1], pair[2])}
<1>2. IsFiniteSet(rows) /\ StrictOrder(rows, R)
  BY <1>1, RowsOrdered
<1>3. Matching(rows, q) = rows
  BY DEF Matching, Selected, Holds, Mentions, Whole
<1>4. Kept(rows, q) = rows
  BY DEF Kept, Whole
<1>5. PICK ranked : ranked = Ranked(RankPopulation(rows, q), Now)
  OBVIOUS
<1>6. Sorted(rows, ranked, q, FALSE) \in SetToSeqs(rows)
  <2>1. \A r, s \in rows : <<r, s>> \in R <=> RowBefore(FALSE, r, s)
    OBVIOUS
  <2>2. PICK o \in SetToSeqs(rows) : \A i, j \in DOMAIN o : i < j => <<o[i], o[j]>> \in R
    <3> HIDE DEF R
    <3> QED BY <1>2, OrderExists
  <2>3. \A i \in DOMAIN o : o[i] \in rows
    BY DEF SetToSeqs
  <2>4. \A i, j \in DOMAIN o : i < j => RowBefore(FALSE, o[i], o[j])
    BY <2>1, <2>2, <2>3
  <2>5. q.sort # "priority"
    BY DEF Whole, Absent
  <2> QED BY <2>4, <2>5 DEF Sorted
<1>7. PICK order : order = Sorted(rows, ranked, q, FALSE)
  OBVIOUS
<1>8. Range(order) = rows
  BY <1>2, <1>6, <1>7, OrderIsWhole
<1>9. Listed(rows, q, FALSE, Now).rows = CutTo(order, q.limit)
  BY <1>3, <1>4, <1>5, <1>7 DEF Listed, Paged
<1>10. CutTo(order, q.limit) = order
  BY DEF CutTo, Whole
<1> QED BY <1>1, <1>8, <1>9, <1>10
------------------------------------------------------------------------------
(* What a stream's pages say of its task: its harp, and when it was added.  *)

PageStamped(h, page) ==
  IsUnread(page) \/ /\ page.recorded_at \in Int
                    /\ page.event.type = "TaskAdded" => /\ page.event.harp_id = h
                                                        /\ page.event.at \in Int

Stamped(h, s) == \A i \in DOMAIN s : PageStamped(h, s[i])

StampsInv == \A p \in Projects : \A h \in Harps : Stamped(h, streams[p][h])

LEMMA AppliedStamped ==
  ASSUME NEW h, NEW t, IsTask(t), t.created_at \in Int,
         NEW page, IsEvent(page.event), ~IsUnread(page), PageStamped(h, page),
         t.harp_id = h \/ page.event.type = "TaskAdded"
  PROVE  LET next == Apply(t, page.event, page.recorded_at) IN
         IsTask(next) /\ next.harp_id = h /\ next.created_at \in Int
<1>1. PICK e, at : e = page.event /\ at = page.recorded_at
  OBVIOUS
<1>2. /\ IsEvent(e) /\ at \in Int /\ (t.harp_id = h \/ e.type = "TaskAdded")
      /\ e.type = "TaskAdded" => e.harp_id = h /\ e.at \in Int
  BY <1>1 DEF PageStamped
<1>3. IsTask(Apply(t, e, at))
  BY <1>2, AppliedTask
<1>4. Apply(t, e, at).harp_id = h /\ Apply(t, e, at).created_at \in Int
  <2>1. CASE e.type = "TaskAdded"
    BY <1>2, <2>1 DEF Apply, ApplyAdded, IsTask, InstantOf
  <2>2. CASE e.type = "StatusChanged"
    BY <1>2, <2>2 DEF Apply, ApplyStatusChanged, IsTask
  <2>3. CASE e.type \in {"TextEdited", "Retagged", "TaskRemoved"}
    BY <1>2, <2>3 DEF Apply, IsTask
  <2> QED BY <1>2, <2>1, <2>2, <2>3 DEF IsEvent
<1> QED BY <1>1, <1>3, <1>4

\* Read whole, a stream leaves a task of its own harp.
LEMMA FoldStamped ==
  ASSUME NEW h \in Harps, NEW s, StreamSound(s), Stamped(h, s), Folded(NoTask, s) # Unread,
         s # <<>>
  PROVE  Folded(NoTask, s).harp_id = h /\ Folded(NoTask, s).created_at \in Int
<1>1. PICK L \in Nat : L = Len(s) /\ DOMAIN s = 1..L /\ L # 0
  <2>1. Len(s) \in Nat /\ DOMAIN s = 1..Len(s)
    BY DEF StreamSound, IsStream
  <2>2. (s = <<>>) <=> Len(s) = 0
    BY EmptySeq DEF StreamSound, IsStream
  <2>3. Len(s) # 0
    BY <2>2
  <2> QED BY <2>1, <2>3
<1>2. PICK f : Folds(f, NoTask, s, L) /\ Folded(NoTask, s) = f[L]
  <2>1. \E g : Folds(g, NoTask, s, Len(s)) /\ Folded(NoTask, s) = g[Len(s)]
    BY <1>1, FoldedIs
  <2> QED BY <1>1, <2>1
<1>3. f[0] = NoTask /\ \A i \in Nat : i + 1 <= L => f[i + 1] = Applied(f[i], s[i + 1])
  BY <1>2, FoldsAt
<1>4. \A i \in DOMAIN s : ~IsUnread(s[i]) /\ IsEvent(s[i].event) /\ PageStamped(h, s[i])
  BY WholeTask DEF StreamSound, Stamped
<1>5. s[1].event.type = "TaskAdded"
  BY DEF StreamSound
<1> DEFINE Left(n) == IsTask(f[n]) /\ f[n].created_at \in Int /\ (n = 0 \/ f[n].harp_id = h)
           T == {n \in Nat : n <= L => Left(n)}
<1>6. 0 \in T
  BY <1>3, NoTaskIs DEF NoTask
<1>7. ASSUME NEW n \in Nat, n \in T, n + 1 <= L PROVE Left(n + 1)
  <2>1. Left(n) /\ n + 1 \in DOMAIN s /\ f[n + 1] = Applied(f[n], s[n + 1])
    BY <1>1, <1>3, <1>7
  <2>2. f[n].harp_id = h \/ s[n + 1].event.type = "TaskAdded"
    BY <1>5, <2>1
  <2>3. f[n] # Unread
    <3>1. n = 0 => f[n] # Unread
      BY <1>3, NoTaskIs
    <3>2. f[n].harp_id = h => f[n] # Unread
      BY NoTaskIs
    <3> QED BY <2>1, <3>1, <3>2
  <2>4. f[n + 1] = Apply(f[n], s[n + 1].event, s[n + 1].recorded_at)
    BY <1>4, <2>1, <2>3 DEF Applied, IsUnread
  <2> QED BY <1>4, <2>1, <2>2, <2>4, AppliedStamped
<1>8. \A n \in Nat : n \in T => n + 1 \in T
  <2> HIDE DEF Left
  <2> QED BY <1>7
<1>9. Nat \subseteq T
  <2> HIDE DEF T
  <2> QED BY <1>6, <1>8, Induction
<1> QED BY <1>1, <1>2, <1>9

\* A project's live tasks can be put in order, where each can be read.
LEMMA LiveSortable ==
  ASSUME ListInv, StampsInv, NEW p \in Projects, \A h \in Harps : Task(p, h) # Unread
  PROVE  Sortable(Live(p))
<1>1. ASSUME NEW h \in Harps, Task(p, h) # NoTask
      PROVE  Task(p, h).harp_id = h /\ Task(p, h).created_at \in Int
  <2>1. PICK s : s = streams[p][h]
    OBVIOUS
  <2>2. StreamSound(s) /\ Stamped(h, s) /\ Task(p, h) = Folded(NoTask, s)
    BY <2>1 DEF ListInv, ListSound, StampsInv, Task
  <2>3. s # <<>>
    BY <1>1, <2>2, WholeTask
  <2> QED BY <2>2, <2>3, FoldStamped
<1>2. \A t \in Live(p) : /\ t.harp_id \in Harps /\ t.created_at \in Int
                         /\ t = Task(p, t.harp_id)
  BY <1>1 DEF Live
<1>3. IsFiniteSet(Live(p))
  <2> DEFINE L == Live(p)
             H == {h \in Harps : Task(p, h) \in L}
             f == [h \in H |-> Task(p, h)]
  <2>1. IsFiniteSet(H)
    BY HarpRankAssumption, FS_Subset
  <2>2. f \in [H -> L]
    OBVIOUS
  <2>3. \A t \in L : t.harp_id \in H /\ f[t.harp_id] = t
    BY <1>2
  <2> HIDE DEF f, H, L
  <2>4. f \in Surjection(H, L)
    BY <2>2, <2>3 DEF Surjection
  <2> QED BY <2>1, <2>4, FS_Surjection DEF L
<1> QED BY <1>2, <1>3 DEF Sortable
\* A stream a read did not fail on can be read whole.
LEMMA ReadWhole ==
  ASSUME NEW p, NEW h, ListSound(p, h), ~Fails(p, h)
  PROVE  Task(p, h) # Unread
<1>1. PICK s, at, b : s = streams[p][h] /\ at = lists[p].at[h] /\ b = births[p][h]
  OBVIOUS
<1>2. /\ StreamSound(s) /\ IsStream(s) /\ Len(s) \in Nat /\ DOMAIN s = 1..Len(s)
      /\ KnownSound(lists[p].streams[h], lists[p].entries[h], at, s, b)
      /\ Task(p, h) = Folded(NoTask, s)
  BY <1>1 DEF ListSound, StreamSound, IsStream, Task
<1>3. CASE HandedPages(p, h) # <<>>
  <2>1. ~\E i \in DOMAIN s : IsUnread(s[i])
    BY <1>1, <1>3, FoldIs DEF Fails
  <2> QED BY <1>2, <2>1, WholeTask
<1>4. CASE HandedPages(p, h) = <<>> /\ IsNew(p, h)
  <2>1. s = <<>>
    BY <1>1, <1>4 DEF HandedPages
  <2> QED BY <1>2, <2>1, WholeTask, NoTaskIs
<1>5. CASE HandedPages(p, h) = <<>> /\ ~IsNew(p, h)
  <2>1. at.birth = b /\ at.pages # 0 /\ SubSeq(s, at.pages + 1, Len(s)) = <<>>
    BY <1>1, <1>5 DEF IsNew, HandedPages
  <2>2. /\ at.pages \in 0..Len(s) /\ at.pages > 0
        /\ \A i \in 1..at.pages : ~IsUnread(s[i])
    BY <1>2, <2>1 DEF KnownSound
  <2>3. at.pages = Len(s)
    BY <1>2, <2>1, <2>2, PartOf
  <2> QED BY <1>2, <2>2, <2>3, WholeTask
<1> QED BY <1>3, <1>4, <1>5

\* What a command adds is on the harp it was sent to.
LEMMA DecidedStamped ==
  ASSUME NEW c \in Commands, NEW p, Records(Decision(p, c.harp, c.command)),
         Decision(p, c.harp, c.command).event.type = "TaskAdded"
  PROVE  LET e == Decision(p, c.harp, c.command).event IN e.harp_id = c.harp /\ e.at \in Int
<1> DEFINE command == IF c.command.type = "AddTask" THEN [c.command EXCEPT !.harp_id = c.harp]
                      ELSE c.command
           taken == streams[p][c.harp] # <<>>
           task == Task(p, c.harp)
<1>1. /\ c.harp \in Harps
      /\ c.command \in AddTaskCommands \cup SetStatusCommands \cup EditTextCommands
                          \cup RetagCommands \cup RemoveTaskCommands
  BY ReadersAssumption
<1>2. Decision(p, c.harp, c.command) = Decide(task, taken, command)
  BY DEF Decision
<1> HIDE DEF taken, task
<1>4. CASE c.command \in AddTaskCommands
  <2>1. c.command.type = "AddTask" /\ command.type = "AddTask" /\ command.harp_id = c.harp
    BY <1>4 DEF AddTaskCommands
  <2> HIDE DEF command
  <2>2. Decide(task, taken, command) = DecideAdd(taken, command)
    BY <2>1 DEF Decide
  <2> QED BY <1>1, <1>2, <2>1, <2>2
          DEF DecideAdd, Records, Refused, Recorded, NoEvent, TaskAddedOf, Never
<1>5. CASE c.command \in SetStatusCommands
  <2>1. command.type = "SetStatus"
    BY <1>5 DEF SetStatusCommands
  <2> HIDE DEF command
  <2>2. Decide(task, taken, command) = DecideSetStatus(task, command)
    BY <2>1 DEF Decide
  <2> QED BY <1>2, <2>2 DEF DecideSetStatus, Moved, Recorded, Refused, Unchanged, NoEvent,
                            Deferring, Resting
<1>6. CASE c.command \in EditTextCommands
  <2>1. command.type = "EditText"
    BY <1>6 DEF EditTextCommands
  <2> HIDE DEF command
  <2>2. Decide(task, taken, command) = DecideEdit(task, command)
    BY <2>1 DEF Decide
  <2> QED BY <1>2, <2>2 DEF DecideEdit, Refused, Recorded, Unchanged, NoEvent
<1>7. CASE c.command \in RetagCommands
  <2>1. command.type = "Retag"
    BY <1>7 DEF RetagCommands
  <2> HIDE DEF command
  <2>2. Decide(task, taken, command) = DecideRetag(task, command)
    BY <2>1 DEF Decide
  <2> QED BY <1>2, <2>2 DEF DecideRetag, Refused, Recorded, Unchanged, NoEvent
<1>8. CASE c.command \in RemoveTaskCommands
  <2>1. command.type = "RemoveTask"
    BY <1>8 DEF RemoveTaskCommands
  <2> HIDE DEF command
  <2>2. Decide(task, taken, command) = DecideRemove(task, command)
    BY <2>1 DEF Decide
  <2> QED BY <1>2, <2>2 DEF DecideRemove, Refused, Recorded, Unchanged, NoEvent
<1> QED BY <1>1, <1>4, <1>5, <1>6, <1>7, <1>8

\* One stream of one project's store changes.
LEMMA StampsChange ==
  ASSUME ListInv, StampsInv, NEW p \in Projects, NEW h \in Harps, NEW pages,
         streams' = [streams EXCEPT ![p][h] = pages], Stamped(h, pages)
  PROVE  StampsInv'
<1>1. \A q \in Projects : \A g \in Harps :
        streams'[q][g] = IF q = p /\ g = h THEN pages ELSE streams[q][g]
  <2>1. PICK f, n : f = streams /\ n = streams'
    OBVIOUS
  <2>2. IsTable(f) /\ n = [f EXCEPT ![p][h] = pages]
    BY <2>1 DEF ListInv
  <2>3. Changed(n, f, p, h, pages)
    BY <2>2, TableExcept
  <2> QED BY <2>1, <2>3 DEF Changed
<1>2. ASSUME NEW q \in Projects, NEW g \in Harps PROVE Stamped(g, streams'[q][g])
  BY <1>1 DEF StampsInv
<1> QED BY <1>2 DEF StampsInv

LEMMA AppendStamped ==
  ASSUME ListInv, StampsInv, NEW p \in Projects, NEW h \in Harps, NEW page,
         Commits(p, h, Append(streams[p][h], page)), PageStamped(h, page)
  PROVE  StampsInv'
<1>1. PICK s, t : s = streams[p][h] /\ t = Append(s, page)
  OBVIOUS
<1>2. IsStream(s) /\ Stamped(h, s)
  BY <1>1 DEF ListInv, ListSound, StreamSound, StampsInv
<1>3. /\ Len(s) \in Nat /\ DOMAIN s = 1..Len(s) /\ DOMAIN t = 1..(Len(s) + 1)
      /\ \A i \in 1..Len(s) : t[i] = s[i]
      /\ t[Len(s) + 1] = page
  BY <1>1, <1>2, AppendedPage
<1>4. ASSUME NEW i \in DOMAIN t PROVE PageStamped(h, t[i])
  <2>1. i \in 1..Len(s) \/ i = Len(s) + 1
    BY <1>3
  <2> QED BY <1>2, <1>3, <2>1 DEF Stamped
<1>5. Stamped(h, t)
  BY <1>4 DEF Stamped
<1>6. streams' = [streams EXCEPT ![p][h] = t]
  BY <1>1 DEF Commits
<1> QED BY <1>5, <1>6, StampsChange

LEMMA InitStamps == Init => StampsInv
<1> SUFFICES ASSUME Init, NEW p \in Projects, NEW h \in Harps PROVE Stamped(h, streams[p][h])
  BY DEF StampsInv
<1> DEFINE E == TaskEvents \cup {Unreadable}
           P == [event: E, recorded_at: Int]
<1>1. PICK s : s = streams[p][h]
  OBVIOUS
<1>2. /\ s \in Seq(P)
      /\ s # <<>> => /\ s[1].event.harp_id = h
                     /\ \A i \in DOMAIN s : s[i].event.type = "TaskAdded" => i = 1
  <2>1. streams = HeldAtFirst
    BY DEF Init
  <2>2. s \in Seq(P)
    <3>1. HeldAtFirst \in [Projects -> [Harps -> Seq(P)]]
      BY StreamsAssumption
    <3> HIDE DEF P
    <3> QED BY <1>1, <2>1, <3>1
  <2>3. s # <<>> => /\ s[1].event.harp_id = h
                    /\ \A i \in DOMAIN s : s[i].event.type = "TaskAdded" => i = 1
    BY <1>1, <2>1, StreamsAssumption
  <2> QED BY <2>2, <2>3
<1>3. \A page \in P : page.event \in E /\ page.recorded_at \in Int
  OBVIOUS
<1>4. \A e \in E : e.type = "TaskAdded" => e.at \in Int
  BY DEF TaskEvents, TaskAddedEvents, StatusChangedEvents, TextEditedEvents, RetaggedEvents,
         TaskRemovedEvents, Unreadable
<1> HIDE DEF P, E
<1>5. ASSUME NEW i \in DOMAIN s PROVE PageStamped(h, s[i])
  <2>1. s[i] \in P /\ s # <<>>
    BY <1>2
  <2> QED BY <1>2, <1>3, <1>4, <2>1 DEF PageStamped
<1> QED BY <1>1, <1>5 DEF Stamped

LEMMA NextStamps ==
  ASSUME ListInv, StampsInv, [Next]_vars
  PROVE  StampsInv'
<1>1. ASSUME NEW p \in Projects, Write(p) \/ WriteHere(p) PROVE StampsInv'
  <2>1. PICK here : Recording(p, here)
    BY <1>1 DEF Write, WriteHere
  <2>2. PICK c \in Commands :
          LET decision == Decision(p, c.harp, c.command)
              page == [event |-> decision.event, recorded_at |-> c.at] IN
          /\ Records(decision)
          /\ Commits(p, c.harp, Append(streams[p][c.harp], page))
    BY <2>1 DEF Recording
  <2>3. PICK e : e = Decision(p, c.harp, c.command).event
    OBVIOUS
  <2>4. c.harp \in Harps /\ c.at \in Int
    BY ReadersAssumption
  <2>5. PageStamped(c.harp, [event |-> e, recorded_at |-> c.at])
    BY <2>2, <2>3, <2>4, DecidedStamped DEF PageStamped
  <2> QED BY <2>2, <2>3, <2>4, <2>5, AppendStamped
<1>2. ASSUME NEW p \in Projects, Purge(p) PROVE StampsInv'
  <2>1. PICK h \in Harps : Commits(p, h, <<>>)
    BY <1>2 DEF Purge
  <2>2. Stamped(h, <<>>)
    BY EmptySeq DEF Stamped
  <2> QED BY <2>1, <2>2, StampsChange DEF Commits
<1>3. ASSUME NEW p \in Projects, WriteNewer(p) PROVE StampsInv'
  <2>1. PICK h \in NewerAt :
          Commits(p, h, Append(streams[p][h], [event |-> Unreadable, recorded_at |-> Now]))
    BY <1>3 DEF WriteNewer
  <2>2. h \in Harps
    BY ReadersAssumption
  <2>3. PageStamped(h, [event |-> Unreadable, recorded_at |-> Now])
    BY DEF PageStamped, IsUnread
  <2> QED BY <2>1, <2>2, <2>3, AppendStamped
<1>4. ASSUME streams' = streams PROVE StampsInv'
  BY <1>4 DEF StampsInv
<1>5. CASE Touch
  BY <1>4, <1>5 DEF Touch, storeVars
<1>6. ASSUME NEW q \in Asked, Ask(q) PROVE StampsInv'
  BY <1>4, <1>6 DEF Ask, storeVars
<1>7. CASE Requery
  BY <1>4, <1>7 DEF Requery, storeVars
<1>8. CASE Gather
  BY <1>4, <1>8 DEF Gather, storeVars
<1>9. CASE Respond
  BY <1>4, <1>9 DEF Respond, storeVars
<1>10. CASE Fail
  BY <1>4, <1>10 DEF Fail, storeVars
<1>11. CASE StartWatch
  BY <1>4, <1>11 DEF StartWatch, storeVars
<1>12. CASE Tick
  BY <1>4, <1>12 DEF Tick, storeVars
<1>13. CASE StopWatch
  BY <1>4, <1>13 DEF StopWatch, storeVars
<1>14. CASE UNCHANGED vars
  BY <1>4, <1>14 DEF vars
<1> QED BY <1>1, <1>2, <1>3, <1>5, <1>6, <1>7, <1>8, <1>9, <1>10, <1>11, <1>12, <1>13, <1>14
        DEF Next

------------------------------------------------------------------------------
(* A quiet watch is a current view.                                         *)

\* The subscriber has something to hear of yet.
Owed == moved \/ unread \/ watch.burst # NoBurst

Current(T) == watch.pc = "on" /\ ~Owed => T = Live(Watched)

\* The tasks the call in hand has gathered.
InHand == {r.task : r \in call.rows}

\* The subscriber's call asks for the watched project's list, and once that is
\* gathered, what it will show is current unless it has more to hear of.
CallSound ==
  /\ call.query = ViewQuery
  /\ call.every = FALSE
  /\ \/ call.pc = "gather" /\ call.left = <<Watched>> /\ call.rows = {}
     \/ /\ call.pc = "answer"
        /\ call.rows = RowsOf(Watched, InHand)
        /\ Sortable(InHand)
        /\ Current(InHand)

\* A store moves only once it is there, or a tick would not tell of it.
ViewInv ==
  /\ call \in [pc: {call.pc}, query: {call.query}, every: {call.every}, left: {call.left},
               rows: {call.rows}, reached: {call.reached}, subscriber: BOOLEAN]
  /\ watch \in [pc: {"off", "on", "ended"}, burst: Nat \cup {NoBurst}]
  /\ moved \in BOOLEAN /\ unread \in BOOLEAN
  /\ moved => there[Watched]
  /\ call.pc = "idle" => ~call.subscriber
  /\ call.subscriber => CallSound
  /\ ~call.subscriber => Current(view)

LEMMA LiveSame ==
  ASSUME \A h \in Harps : streams'[Watched][h] = streams[Watched][h]
  PROVE  Live(Watched)' = Live(Watched)
<1>1. \A h \in Harps : Task(Watched, h)' = Task(Watched, h)
  BY DEF Task
<1> QED BY <1>1 DEF Live

\* A step that leaves the service's call, the view and the watch as they are:
\* what is moved stays so, and the watched store is left or moved.
LEMMA AsideKeeps ==
  ASSUME ViewInv, UNCHANGED <<call, view, watch, unread>>,
         moved' \in BOOLEAN, moved => moved', moved' => there'[Watched],
         watch.pc = "on" => moved' \/ Live(Watched)' = Live(Watched)
  PROVE  ViewInv'
<1>1. ASSUME NEW T, Current(T) PROVE watch'.pc = "on" /\ ~Owed' => T = Live(Watched)'
  BY <1>1 DEF Current, Owed
<1>2. call.subscriber => CallSound'
  <2> SUFFICES ASSUME call.subscriber PROVE CallSound'
    OBVIOUS
  <2>1. CallSound /\ call' = call
    BY DEF ViewInv
  <2>2. InHand' = InHand
    BY <2>1 DEF InHand
  <2>3. Current(InHand) => Current(InHand)'
    BY <1>1, <2>2 DEF Current
  <2> QED BY <2>1, <2>2, <2>3 DEF CallSound
<1>3. ~call.subscriber => Current(view)'
  BY <1>1 DEF ViewInv, Current
<1>4. /\ call' = call /\ watch' = watch /\ unread' = unread /\ view' = view
  OBVIOUS
<1>5. /\ call' \in [pc: {call'.pc}, query: {call'.query}, every: {call'.every},
                    left: {call'.left}, rows: {call'.rows}, reached: {call'.reached},
                    subscriber: BOOLEAN]
      /\ watch' \in [pc: {"off", "on", "ended"}, burst: Nat \cup {NoBurst}]
      /\ unread' \in BOOLEAN
      /\ call'.pc = "idle" => ~call'.subscriber
      /\ (call.subscriber <=> call'.subscriber)
  BY <1>4 DEF ViewInv
<1> QED BY <1>2, <1>3, <1>5 DEF ViewInv
LEMMA CommitsView ==
  ASSUME ListInv, ViewInv, NEW p \in Projects, NEW h \in Harps, NEW pages,
         Commits(p, h, pages),
         there[Watched] \/ p = Watched => there'[Watched]
  PROVE  ViewInv'
<1>1. /\ moved' = (moved \/ (p = Watched /\ watch.pc = "on"))
      /\ streams' = [streams EXCEPT ![p][h] = pages]
      /\ UNCHANGED <<call, view, watch, unread>>
  BY DEF Commits
<1>2. moved' \in BOOLEAN /\ (moved => moved') /\ (moved' => there'[Watched])
  BY <1>1 DEF ViewInv
<1>3. ASSUME p # Watched PROVE Live(Watched)' = Live(Watched)
  <2>1. streams'[Watched] = streams[Watched]
    BY <1>1, <1>3, ReadersAssumption DEF ListInv, IsTable
  <2> QED BY <2>1, LiveSame
<1>4. watch.pc = "on" => moved' \/ Live(Watched)' = Live(Watched)
  BY <1>1, <1>3
<1> QED BY <1>1, <1>2, <1>4, AsideKeeps

LEMMA StoresView ==
  ASSUME ListInv, ViewInv, NEW p \in Projects,
         Write(p) \/ WriteHere(p) \/ Purge(p) \/ WriteNewer(p)
  PROVE  ViewInv'
<1>1. CASE Write(p) \/ WriteHere(p)
  <2>1. PICK here : Recording(p, here) /\ there' = [there EXCEPT ![p] = TRUE]
    BY <1>1 DEF Write, WriteHere
  <2>2. PICK c \in Commands :
          LET decision == Decision(p, c.harp, c.command)
              page == [event |-> decision.event, recorded_at |-> c.at] IN
          Commits(p, c.harp, Append(streams[p][c.harp], page))
    BY <2>1 DEF Recording
  <2>3. c.harp \in Harps /\ Watched \in Projects
    BY ReadersAssumption
  <2>4. there[Watched] \/ p = Watched => there'[Watched]
    BY <2>1, <2>3 DEF ListInv
  <2> QED BY <2>2, <2>3, <2>4, CommitsView
<1>2. CASE Purge(p) \/ WriteNewer(p)
  <2>1. PICK h \in Harps :
          streams[p][h] # <<>> /\ (\E pages : Commits(p, h, pages)) /\ there' = there
    BY <1>2, ReadersAssumption DEF Purge, WriteNewer
  <2>2. there[p]
    BY <2>1 DEF ListInv
  <2> QED BY <2>1, <2>2, CommitsView
<1> QED BY <1>1, <1>2

LEMMA TouchView ==
  ASSUME ViewInv, Touch
  PROVE  ViewInv'
<1>1. /\ there[Watched] /\ moved' = TRUE
      /\ UNCHANGED <<storeVars, call, view, watch, unread>>
  BY DEF Touch
<1>2. UNCHANGED <<there, call, view, watch, unread>>
  BY <1>1 DEF storeVars
<1> QED BY <1>1, <1>2, AsideKeeps

\* The watched store's live tasks stay, where no store changes.
LEMMA StoresStill ==
  ASSUME UNCHANGED storeVars
  PROVE  Live(Watched)' = Live(Watched) /\ there' = there /\ streams' = streams
<1>1. streams' = streams /\ there' = there
  BY DEF storeVars
<1> QED BY <1>1, LiveSame

LEMMA AskView ==
  ASSUME ViewInv, NEW q \in Asked, Ask(q)
  PROVE  ViewInv'
<1>1. /\ call.pc = "idle" /\ ~call.subscriber
      /\ UNCHANGED <<storeVars, watchVars, view>>
      /\ call' = call \/ call' = Scanned(q)
  BY DEF Ask, ViewInv
<1>2. /\ Live(Watched)' = Live(Watched) /\ there' = there
      /\ UNCHANGED <<watch, moved, unread, view>>
  BY <1>1, StoresStill DEF watchVars
<1>3. /\ ~call'.subscriber /\ (call'.pc = "idle" => ~call'.subscriber)
      /\ call' \in [pc: {call'.pc}, query: {call'.query}, every: {call'.every},
                    left: {call'.left}, rows: {call'.rows}, reached: {call'.reached},
                    subscriber: BOOLEAN]
  BY <1>1 DEF Scanned, Idle, ViewInv
<1>4. Current(view)'
  BY <1>1, <1>2 DEF Current, Owed, ViewInv
<1> QED BY <1>2, <1>3, <1>4 DEF ViewInv

\* The subscriber's query is of the watched project's list alone.
LEMMA ScannedIs ==
  ASSUME Whole(ViewQuery, Watched)
  PROVE  Scanned(ViewQuery) =
           [pc |-> "gather", query |-> ViewQuery, every |-> FALSE, left |-> <<Watched>>,
            rows |-> {}, reached |-> {}, subscriber |-> FALSE]
<1>1. ViewQuery.project = Watched /\ ~ViewQuery.global /\ Watched # NoProject
  BY ReadersAssumption, ReadsAssumption DEF Whole
<1>2. Scanned(ViewQuery) = [Idle EXCEPT !.query = ViewQuery, !.every = FALSE,
                                        !.left = <<Watched>>, !.pc = "gather"]
  <2>1. (ViewQuery.global \/ (Watched = NoProject /\ Rootless)) = FALSE
    BY <1>1
  <2> HIDE DEF Whole
  <2> QED BY <1>1, <2>1 DEF Scanned
<1>3. Idle = [pc |-> "idle", query |-> ViewQuery, every |-> FALSE, left |-> <<>>, rows |-> {},
              reached |-> {}, subscriber |-> FALSE]
  BY DEF Idle
<1> QED BY <1>2, <1>3

LEMMA RequeryView ==
  ASSUME ViewInv, Requery, Whole(ViewQuery, Watched)
  PROVE  ViewInv'
<1>1. /\ UNCHANGED <<storeVars, watch, moved, view>>
      /\ unread' = FALSE
      /\ call' = [pc |-> "gather", query |-> ViewQuery, every |-> FALSE, left |-> <<Watched>>,
                  rows |-> {}, reached |-> {}, subscriber |-> TRUE]
  <2>1. call' = [Scanned(ViewQuery) EXCEPT !.subscriber = TRUE]
    BY DEF Requery
  <2>2. call' = [pc |-> "gather", query |-> ViewQuery, every |-> FALSE, left |-> <<Watched>>,
                 rows |-> {}, reached |-> {}, subscriber |-> TRUE]
    <3>1. PICK s : s = Scanned(ViewQuery)
      OBVIOUS
    <3>2. s = [pc |-> "gather", query |-> ViewQuery, every |-> FALSE, left |-> <<Watched>>,
               rows |-> {}, reached |-> {}, subscriber |-> FALSE]
      BY <3>1, ScannedIs
    <3>3. call' = [s EXCEPT !.subscriber = TRUE]
      BY <2>1, <3>1
    <3> QED BY <3>2, <3>3
  <2> QED BY <2>2 DEF Requery
<1>2. there' = there
  BY <1>1 DEF storeVars
<1>3. CallSound'
  BY <1>1 DEF CallSound
<1> QED BY <1>1, <1>2, <1>3 DEF ViewInv

LEMMA StartWatchView ==
  ASSUME ViewInv, StartWatch
  PROVE  ViewInv'
<1>1. /\ ~call.subscriber /\ call' = call /\ moved' = FALSE /\ unread' = TRUE
      /\ watch' = [pc |-> "on", burst |-> NoBurst]
  BY DEF StartWatch, ViewInv
<1>2. Current(view)'
  BY <1>1 DEF Current, Owed
<1>3. /\ call' \in [pc: {call'.pc}, query: {call'.query}, every: {call'.every},
                    left: {call'.left}, rows: {call'.rows}, reached: {call'.reached},
                    subscriber: BOOLEAN]
      /\ ~call'.subscriber
      /\ watch' \in [pc: {"off", "on", "ended"}, burst: Nat \cup {NoBurst}]
  BY <1>1 DEF ViewInv
<1> QED BY <1>1, <1>2, <1>3 DEF ViewInv

LEMMA StopWatchView ==
  ASSUME ViewInv, StopWatch
  PROVE  ViewInv'
<1>1. /\ call' = call /\ moved' = FALSE /\ unread' = FALSE
      /\ watch' = [pc |-> "ended", burst |-> NoBurst]
  BY DEF StopWatch
<1>2. Current(view)'
  BY <1>1 DEF Current
<1>3. call.subscriber => CallSound'
  <2> SUFFICES ASSUME call.subscriber PROVE CallSound'
    OBVIOUS
  <2>1. CallSound
    BY DEF ViewInv
  <2>2. Current(InHand)'
    BY <1>1 DEF Current
  <2>3. InHand' = InHand
    BY <1>1 DEF InHand
  <2> QED BY <1>1, <2>1, <2>2, <2>3 DEF CallSound
<1>4. /\ call' \in [pc: {call'.pc}, query: {call'.query}, every: {call'.every},
                    left: {call'.left}, rows: {call'.rows}, reached: {call'.reached},
                    subscriber: BOOLEAN]
      /\ call'.pc = "idle" => ~call'.subscriber
      /\ watch' \in [pc: {"off", "on", "ended"}, burst: Nat \cup {NoBurst}]
      /\ (call.subscriber <=> call'.subscriber)
  BY <1>1 DEF ViewInv
<1> QED BY <1>1, <1>2, <1>3, <1>4 DEF ViewInv

\* A poll that finds nothing new leaves the view as current; any other owes it
\* a line.
LEMMA TickView ==
  ASSUME ViewInv, Tick
  PROVE  ViewInv'
<1>1. PICK next : next = Debounced(watch.burst, Polled)
  OBVIOUS
<1>2. /\ watch.pc = "on" /\ ~call.subscriber /\ call' = call /\ view' = view /\ moved' = FALSE
      /\ UNCHANGED storeVars
      /\ watch' = [watch EXCEPT !.burst = next.burst]
      /\ unread' = (unread \/ next.line)
  BY <1>1 DEF Tick, ViewInv
<1>3. watch.burst \in Nat \cup {NoBurst} /\ watch' = [pc |-> "on", burst |-> next.burst]
  BY <1>2 DEF ViewInv
<1>4. /\ next.burst \in Nat \cup {NoBurst} /\ next.line \in BOOLEAN
      /\ next.burst = NoBurst /\ ~next.line => watch.burst = NoBurst /\ ~Polled
  <2>1. CASE watch.burst = NoBurst
    BY <1>1, <2>1 DEF Debounced, NoBurst
  <2>2. CASE watch.burst \in Nat
    <3>1. watch.burst # NoBurst /\ watch.burst + 1 # NoBurst /\ watch.burst + 1 \in Nat
      BY <2>2 DEF NoBurst
    <3> QED BY <1>1, <3>1 DEF Debounced
  <2> QED BY <1>3, <2>1, <2>2
<1>5. Live(Watched)' = Live(Watched)
  BY <1>2, StoresStill
<1>6. Current(view)'
  <2> SUFFICES ASSUME ~Owed' PROVE view = Live(Watched)
    BY <1>2, <1>5 DEF Current
  <2>1. ~unread /\ ~next.line /\ next.burst = NoBurst
    BY <1>2, <1>3 DEF Owed
  <2>2. ~moved
    BY <1>4, <2>1 DEF Polled, ViewInv
  <2> QED BY <1>2, <1>4, <2>1, <2>2 DEF ViewInv, Current, Owed
<1>7. /\ call' \in [pc: {call'.pc}, query: {call'.query}, every: {call'.every},
                    left: {call'.left}, rows: {call'.rows}, reached: {call'.reached},
                    subscriber: BOOLEAN]
      /\ ~call'.subscriber
      /\ watch' \in [pc: {"off", "on", "ended"}, burst: Nat \cup {NoBurst}]
      /\ unread' \in BOOLEAN
  BY <1>2, <1>3, <1>4 DEF ViewInv
<1> QED BY <1>2, <1>6, <1>7 DEF ViewInv
LEMMA RowsAre ==
  ASSUME NEW p, NEW T PROVE {r.task : r \in RowsOf(p, T)} = T
<1>1. ASSUME NEW t \in T PROVE \E r \in RowsOf(p, T) : r.task = t
  <2>1. [project |-> p, task |-> t] \in RowsOf(p, T)
    BY DEF RowsOf
  <2> QED BY <2>1
<1>2. \A r \in RowsOf(p, T) : r.task \in T
  BY DEF RowsOf
<1> QED BY <1>1, <1>2

\* A call that ends in a failure owes the subscriber its line again.
LEMMA CallFailsView ==
  ASSUME ViewInv, NEW code, CallFails(code),
         UNCHANGED <<storeVars, watch, view>>,
         moved' \in BOOLEAN, moved => moved', moved' => there[Watched]
  PROVE  ViewInv'
<1>1. /\ call' = Idle /\ unread' = (unread \/ call.subscriber)
      /\ watch' = watch /\ view' = view
      /\ Live(Watched)' = Live(Watched) /\ there' = there
  BY StoresStill DEF CallFails
<1>2. ~Owed' => ~Owed /\ ~call.subscriber
  BY <1>1 DEF Owed, ViewInv
<1>3. Current(view)'
  BY <1>1, <1>2 DEF Current, ViewInv
<1>4. /\ call' \in [pc: {call'.pc}, query: {call'.query}, every: {call'.every},
                    left: {call'.left}, rows: {call'.rows}, reached: {call'.reached},
                    subscriber: BOOLEAN]
      /\ ~call'.subscriber
  BY <1>1 DEF Idle
<1>5. watch' \in [pc: {"off", "on", "ended"}, burst: Nat \cup {NoBurst}] /\ unread' \in BOOLEAN
  BY <1>1 DEF ViewInv
<1> QED BY <1>1, <1>3, <1>4, <1>5 DEF ViewInv

LEMMA FailView ==
  ASSUME ViewInv, Fail
  PROVE  ViewInv'
<1>1. CallFails("failed") /\ UNCHANGED <<storeVars, watch, view>> /\ moved' = moved
  BY DEF Fail
<1>2. moved' \in BOOLEAN /\ (moved => moved') /\ (moved' => there[Watched])
  BY <1>1 DEF ViewInv
<1> QED BY <1>1, <1>2, CallFailsView

LEMMA GatherView ==
  ASSUME ListInv, StampsInv, ViewInv, Gather
  PROVE  ViewInv'
<1>1. PICK p : p = Head(call.left)
  OBVIOUS
<1>2. PICK found : found = IF there[p] THEN Entries(CaughtUp(p)) ELSE {}
  OBVIOUS
<1>3. /\ call.pc = "gather"
      /\ moved' = (moved \/ (Opens(p) /\ p = Watched /\ watch.pc = "on"))
      /\ UNCHANGED <<storeVars, watch, view>>
      /\ \/ CallFails("list")
         \/ /\ FailedIn(p) = {}
            /\ call' = [call EXCEPT
                 !.left = Tail(@), !.rows = @ \cup [project: {p}, task: found],
                 !.reached = @ \cup (IF there[p] THEN {p} ELSE {}),
                 !.pc = IF Len(call.left) = 1 THEN "answer" ELSE "gather"]
            /\ UNCHANGED unread
  BY <1>1, <1>2 DEF Gather
<1>4. moved' \in BOOLEAN /\ (moved => moved') /\ (moved' => there[Watched])
  BY <1>3 DEF ViewInv, Opens
<1>5. CASE CallFails("list")
  BY <1>3, <1>4, <1>5, CallFailsView
<1>6. CASE ~CallFails("list")
  <2>1. /\ FailedIn(p) = {}
        /\ call' = [call EXCEPT
             !.left = Tail(@), !.rows = @ \cup [project: {p}, task: found],
             !.reached = @ \cup (IF there[p] THEN {p} ELSE {}),
             !.pc = IF Len(call.left) = 1 THEN "answer" ELSE "gather"]
        /\ unread' = unread
    BY <1>3, <1>6
  <2>2. /\ call'.pc = IF Len(call.left) = 1 THEN "answer" ELSE "gather"
        /\ call'.query = call.query /\ call'.every = call.every
        /\ call'.rows = call.rows \cup RowsOf(p, found)
        /\ call'.subscriber = call.subscriber
        /\ call' \in [pc: {call'.pc}, query: {call'.query}, every: {call'.every},
                      left: {call'.left}, rows: {call'.rows}, reached: {call'.reached},
                      subscriber: BOOLEAN]
    BY <2>1 DEF ViewInv, RowsOf
  <2>3. /\ Live(Watched)' = Live(Watched) /\ there' = there /\ watch' = watch /\ view' = view
        /\ ~Owed' => ~Owed
    BY <1>3, <1>4, <2>1, StoresStill DEF Owed
  <2>4. ~call.subscriber => Current(view)'
    BY <2>3 DEF ViewInv, Current
  <2>5. ASSUME call.subscriber PROVE CallSound'
    <3>1. call.query = ViewQuery /\ call.every = FALSE /\ call.left = <<Watched>> /\ call.rows = {}
      BY <1>3, <2>5 DEF ViewInv, CallSound
    <3>2. p = Watched /\ Len(call.left) = 1 /\ p \in Projects
      BY <1>1, <3>1, ReadersAssumption
    <3>3. found = Live(p)
      BY <1>2, <2>1, <3>2, CaughtIsLive, NoneIsLive
    <3>4. Sortable(Live(p))
      <4>1. \A h \in Harps : Task(p, h) # Unread
        BY <2>1, <3>2, ReadWhole DEF ListInv, FailedIn
      <4> QED BY <3>2, <4>1, LiveSortable
    <3>5. call'.rows = RowsOf(Watched, Live(Watched))
      BY <2>2, <3>1, <3>2, <3>3
    <3>6. InHand' = Live(Watched)
      BY <3>5, RowsAre DEF InHand
    <3>7. Current(InHand)'
      BY <2>3, <3>6 DEF Current
    <3> QED BY <2>2, <3>1, <3>2, <3>4, <3>5, <3>6, <3>7 DEF CallSound
  <2>6. watch' \in [pc: {"off", "on", "ended"}, burst: Nat \cup {NoBurst}] /\ unread' \in BOOLEAN
    BY <2>1, <2>3 DEF ViewInv
  <2>7. moved' => there'[Watched]
    BY <1>4, <2>3
  <2> QED BY <1>4, <2>2, <2>4, <2>5, <2>6, <2>7 DEF ViewInv
<1> QED BY <1>5, <1>6

\* The subscriber shows the whole of what its call gathered.
LEMMA RespondView ==
  ASSUME ViewInv, Respond, Whole(ViewQuery, Watched)
  PROVE  ViewInv'
<1>1. /\ call.pc = "answer" /\ call' = Idle
      /\ answer' = Answered(call.query, call.rows, call.every)
      /\ view' = IF call.subscriber THEN {r.task : r \in Range(answer'.listed.rows)} ELSE view
      /\ UNCHANGED <<storeVars, watchVars>>
  BY DEF Respond
<1>2. /\ Live(Watched)' = Live(Watched) /\ there' = there
      /\ watch' = watch /\ moved' = moved /\ unread' = unread
  BY <1>1, StoresStill DEF watchVars
<1>3. Owed' = Owed
  BY <1>2 DEF Owed
<1>4. ASSUME call.subscriber PROVE Current(view')
  <2>1. /\ call.query = ViewQuery /\ call.every = FALSE
        /\ call.rows = RowsOf(Watched, InHand) /\ Sortable(InHand) /\ Current(InHand)
    BY <1>1, <1>4 DEF ViewInv, CallSound
  <2>2. answer' = Answered(ViewQuery, RowsOf(Watched, InHand), FALSE)
    BY <1>1, <2>1
  <2>3. answer'.listed = Listed(RowsOf(Watched, InHand), ViewQuery, FALSE, Now)
    <3>1. ViewQuery.kind = "list" /\ ViewQuery.sort # "priority"
      BY DEF Whole, Absent
    <3> QED BY <2>2, <3>1 DEF Answered
  <2>4. Range(answer'.listed.rows) = RowsOf(Watched, InHand)
    BY <2>1, <2>3, ListedWhole
  <2>5. view' = {r.task : r \in RowsOf(Watched, InHand)}
    BY <1>1, <1>4, <2>4
  <2>6. view' = InHand
    BY <2>5, RowsAre
  <2> QED BY <2>1, <2>6
<1>5. Current(view')
  BY <1>1, <1>4 DEF ViewInv
<1>6. Current(view)'
  BY <1>2, <1>3, <1>5 DEF Current
<1>7. /\ call' \in [pc: {call'.pc}, query: {call'.query}, every: {call'.every},
                    left: {call'.left}, rows: {call'.rows}, reached: {call'.reached},
                    subscriber: BOOLEAN]
      /\ ~call'.subscriber
  BY <1>1 DEF Idle
<1> QED BY <1>2, <1>6, <1>7 DEF ViewInv

LEMMA NextView ==
  ASSUME ListInv, StampsInv, ViewInv, Whole(ViewQuery, Watched), [Next]_vars
  PROVE  ViewInv'
<1>1. CASE \E q \in Asked : Ask(q)
  BY <1>1, AskView
<1>2. CASE UNCHANGED vars
  <2>1. /\ UNCHANGED <<call, view, watch, unread>> /\ moved' = moved /\ UNCHANGED storeVars
    BY <1>2 DEF vars, storeVars
  <2>2. there' = there /\ Live(Watched)' = Live(Watched)
    BY <2>1, StoresStill
  <2>3. moved' \in BOOLEAN /\ (moved => moved') /\ (moved' => there'[Watched])
    BY <2>1, <2>2 DEF ViewInv
  <2> QED BY <2>1, <2>2, <2>3, AsideKeeps
<1> QED BY <1>1, <1>2, StoresView, TouchView, RequeryView, GatherView, RespondView, FailView,
           StartWatchView, TickView, StopWatchView DEF Next

\* A quiet watch is a current view (tasks-watch: it "stays live without
\* polling"): whatever other processes and the service itself write, whichever
\* calls fail, and however ticks and calls fall between, a subscriber with no
\* line owed it shows what the watched store holds; of a subscriber that asks
\* for that store's whole list, and as long as no newer version purges a stream
\* this one cannot read.
THEOREM QuietViewIsCurrent ==
  ASSUME ~NewerPurges, Whole(ViewQuery, Watched) PROVE Spec => []QuietIsCurrent
<1> DEFINE Inv == ListInv /\ StampsInv /\ ViewInv
<1>1. Init => Inv
  <2>1. ASSUME Init PROVE ViewInv
    <3>1. /\ call = Idle /\ watch = [pc |-> "off", burst |-> NoBurst]
          /\ moved = FALSE /\ unread = FALSE
      BY <2>1 DEF Init, WatchOff
    <3>2. Current(view)
      BY <3>1 DEF Current
    <3> QED BY <3>1, <3>2 DEF ViewInv, Idle
  <2> QED BY <2>1, InitLists, InitStamps
<1>2. Inv /\ [Next]_vars => Inv'
  <2> SUFFICES ASSUME Inv, [Next]_vars PROVE Inv'
    OBVIOUS
  <2>1. ListInv'
    BY NextLists
  <2>2. StampsInv'
    BY NextStamps
  <2>3. ViewInv'
    BY NextView
  <2> QED BY <2>1, <2>2, <2>3
<1>3. Inv => QuietIsCurrent
  BY DEF ViewInv, Current, Owed, QuietIsCurrent
<1> QED BY <1>1, <1>2, <1>3, PTL DEF Spec------------------------------------------------------------------------------
(* What a tag query selects.                                                *)

\* f[i] is how high the stack is after i of the query's tokens.
Climbs(f, query, n) ==
  f = [i \in 0..n |-> IF i = 0 THEN 0 ELSE f[i-1] + 1 - Operands(query[i])]

LEMMA ClimbsExist == ASSUME NEW query PROVE \A n \in Nat : \E f : Climbs(f, query, n)
<1> DEFINE T == {n \in Nat : \E f : Climbs(f, query, n)}
<1>1. 0 \in T
  <2>1. Climbs([i \in 0..0 |-> 0], query, 0)
    BY DEF Climbs
  <2> QED BY <2>1
<1>2. ASSUME NEW n \in Nat, n \in T PROVE n + 1 \in T
  <2>1. PICK f : Climbs(f, query, n)
    BY <1>2
  <2> DEFINE on == f[n] + 1 - Operands(query[n + 1])
             g == [i \in 0..(n + 1) |-> IF i <= n THEN f[i] ELSE on]
  <2>2. (\A i \in 0..n : g[i] = f[i]) /\ g[n + 1] = on
    OBVIOUS
  <2>3. g = [i \in 0..(n + 1) |-> g[i]]
    OBVIOUS
  <2>4. \A i \in 0..n : f[i] = IF i = 0 THEN 0 ELSE f[i-1] + 1 - Operands(query[i])
    BY <2>1 DEF Climbs
  <2> HIDE DEF g
  <2>5. ASSUME NEW i \in 0..(n + 1)
        PROVE  g[i] = IF i = 0 THEN 0 ELSE g[i-1] + 1 - Operands(query[i])
    <3>1. CASE i = n + 1
      <4>1. i # 0 /\ i - 1 = n /\ n \in 0..n
        BY <3>1
      <4> QED BY <2>2, <3>1, <4>1
    <3>2. CASE i \in 0..n
      <4>1. i # 0 => i - 1 \in 0..n
        BY <3>2
      <4> QED BY <2>2, <2>4, <3>2, <4>1
    <3> QED BY <3>1, <3>2
  <2>6. Climbs(g, query, n + 1)
    BY <2>3, <2>5 DEF Climbs
  <2> QED BY <2>6
<1>3. Nat \subseteq T
  <2> HIDE DEF T
  <2> QED BY <1>1, <1>2, Induction
<1> QED BY <1>3

\* Two counts of a query's first tokens agree, however far each goes on.
LEMMA ClimbsAgree ==
  ASSUME NEW query, NEW n \in Nat, NEW m \in 0..n, NEW f, NEW g,
         Climbs(f, query, n), Climbs(g, query, m)
  PROVE  g[m] = f[m]
<1> DEFINE T == {k \in Nat : k <= m => g[k] = f[k]}
<1>1. /\ \A i \in 0..n : f[i] = IF i = 0 THEN 0 ELSE f[i-1] + 1 - Operands(query[i])
      /\ \A i \in 0..m : g[i] = IF i = 0 THEN 0 ELSE g[i-1] + 1 - Operands(query[i])
  BY DEF Climbs
<1>2. 0 \in T
  BY <1>1
<1>3. ASSUME NEW k \in Nat, k \in T PROVE k + 1 \in T
  <2> SUFFICES ASSUME k + 1 <= m PROVE g[k + 1] = f[k + 1]
    OBVIOUS
  <2>1. k + 1 \in 0..m /\ k + 1 \in 0..n /\ k + 1 # 0 /\ (k + 1) - 1 = k /\ g[k] = f[k]
    BY <1>3
  <2> QED BY <1>1, <2>1
<1>4. Nat \subseteq T
  <2> HIDE DEF T
  <2> QED BY <1>2, <1>3, Induction
<1> QED BY <1>4

LEMMA HeightIs ==
  ASSUME NEW query, NEW n \in Nat
  PROVE  \E f : Climbs(f, query, n) /\ \A m \in 0..n : Height(query, m) = f[m]
<1>1. PICK f : Climbs(f, query, n)
  BY ClimbsExist
<1>2. ASSUME NEW m \in 0..n PROVE Height(query, m) = f[m]
  <2>1. \E g : Climbs(g, query, m)
    BY ClimbsExist
  <2>2. \E g : Climbs(g, query, m) /\ Height(query, m) = g[m]
    BY <2>1 DEF Height, Climbs
  <2> QED BY <1>1, <2>2, ClimbsAgree
<1> QED BY <1>1, <1>2

\* f[i] is the stack after i of the query's tokens.
Stacks(f, rows, query, n) ==
  f = [i \in 0..n |-> IF i = 0 THEN <<>> ELSE Pushed(rows, f[i-1], query[i])]

LEMMA StacksExist ==
  ASSUME NEW rows, NEW query PROVE \A n \in Nat : \E f : Stacks(f, rows, query, n)
<1> DEFINE T == {n \in Nat : \E f : Stacks(f, rows, query, n)}
<1>1. 0 \in T
  <2>1. Stacks([i \in 0..0 |-> <<>>], rows, query, 0)
    BY DEF Stacks
  <2> QED BY <2>1
<1>2. ASSUME NEW n \in Nat, n \in T PROVE n + 1 \in T
  <2>1. PICK f : Stacks(f, rows, query, n)
    BY <1>2
  <2> DEFINE on == Pushed(rows, f[n], query[n + 1])
             g == [i \in 0..(n + 1) |-> IF i <= n THEN f[i] ELSE on]
  <2>2. (\A i \in 0..n : g[i] = f[i]) /\ g[n + 1] = on
    OBVIOUS
  <2>3. g = [i \in 0..(n + 1) |-> g[i]]
    OBVIOUS
  <2>4. \A i \in 0..n : f[i] = IF i = 0 THEN <<>> ELSE Pushed(rows, f[i-1], query[i])
    BY <2>1 DEF Stacks
  <2> HIDE DEF g
  <2>5. ASSUME NEW i \in 0..(n + 1)
        PROVE  g[i] = IF i = 0 THEN <<>> ELSE Pushed(rows, g[i-1], query[i])
    <3>1. CASE i = n + 1
      <4>1. i # 0 /\ i - 1 = n /\ n \in 0..n
        BY <3>1
      <4> QED BY <2>2, <3>1, <4>1
    <3>2. CASE i \in 0..n
      <4>1. i # 0 => i - 1 \in 0..n
        BY <3>2
      <4> QED BY <2>2, <2>4, <3>2, <4>1
    <3> QED BY <3>1, <3>2
  <2>6. Stacks(g, rows, query, n + 1)
    BY <2>3, <2>5 DEF Stacks
  <2> QED BY <2>6
<1>3. Nat \subseteq T
  <2> HIDE DEF T
  <2> QED BY <1>1, <1>2, Induction
<1> QED BY <1>3

\* A token that has its operands leaves a stack of the rows' sets, one higher
\* for itself and lower for each operand.
LEMMA PushedSound ==
  ASSUME NEW rows, NEW stack \in Seq(SUBSET rows), NEW token,
         Len(stack) >= Operands(token)
  PROVE  /\ Pushed(rows, stack, token) \in Seq(SUBSET rows)
         /\ Len(Pushed(rows, stack, token)) = Len(stack) + 1 - Operands(token)
<1>1. PICK n \in Nat : n = Len(stack)
  OBVIOUS
<1>2. PICK k : k = Operands(token)
  OBVIOUS
<1>3. /\ k \in {0, 1, 2} /\ k <= n
      /\ token = "not" => k = 1
      /\ token \in {"and", "or"} => k = 2
  BY <1>1, <1>2 DEF Operands
<1>4. PICK rest : rest = SubSeq(stack, 1, n - k)
  OBVIOUS
<1>5. rest \in Seq(SUBSET rows) /\ Len(rest) = n - k
  <2>1. \A i \in 1..(n - k) : stack[i] \in SUBSET rows
    BY <1>1, <1>3
  <2>2. 1 \in Int /\ n - k \in Int /\ n - k >= 0
    BY <1>3
  <2>3. Len(rest) = n - k /\ rest = [i \in 1..(n - k) |-> stack[i]]
    BY <1>1, <1>3, <1>4, <2>2
  <2> QED BY <1>3, <2>1, <2>3
<1> DEFINE top == CASE token = "not" -> Complement(rows, stack[n])
                    [] token = "and" -> stack[n-1] \cap stack[n]
                    [] token = "or"  -> stack[n-1] \cup stack[n]
                    [] OTHER -> {r \in rows : token \in r.task.tags}
<1>6. top \in SUBSET rows
  <2>1. CASE token = "not"
    BY <2>1 DEF Complement
  <2>2. CASE token \in {"and", "or"}
    <3>1. stack[n] \in SUBSET rows /\ stack[n-1] \in SUBSET rows
      <4>1. n \in 1..n /\ n - 1 \in 1..n
        BY <1>3, <2>2
      <4> QED BY <1>1, <4>1
    <3> QED BY <2>2, <3>1
  <2>3. CASE token \notin {"not", "and", "or"}
    BY <2>3
  <2> QED BY <2>1, <2>2, <2>3
<1>7. Pushed(rows, stack, token) = Append(rest, top)
  BY <1>1, <1>2, <1>4 DEF Pushed
<1> HIDE DEF top
<1> QED BY <1>1, <1>2, <1>3, <1>5, <1>6, <1>7

LEMMA OfOne == ASSUME NEW S, NEW s \in Seq(S), Len(s) = 1 PROVE s[1] \in S
OBVIOUS

\* A query that is not refused selects of the rows.
LEMMA SelectedSound ==
  ASSUME NEW rows, NEW query, query \in {<<Absent>>, <<Blank>>} \/ query \in Seq(TagNames \cup Operators),
         QueryRefusal(query) = Sound
  PROVE  Selected(rows, query) \subseteq rows
<1> SUFFICES ASSUME query # <<Absent>> PROVE Selected(rows, query) \subseteq rows
  BY DEF Selected
<1>1. query # <<Blank>>
  BY DEF QueryRefusal, Sound, Blank, Absent
<1>2. PICK n \in Nat : n = Len(query) /\ DOMAIN query = 1..n
  BY <1>1
<1>3. PICK h : Climbs(h, query, n) /\ \A m \in 0..n : Height(query, m) = h[m]
  BY HeightIs
<1>4. h[n] = 1 /\ \A i \in 1..n : h[i-1] >= Operands(query[i])
  <2>1. /\ \A i \in DOMAIN query : Height(query, i - 1) >= Operands(query[i])
        /\ Height(query, Len(query)) = 1
    BY <1>1 DEF QueryRefusal, Sound
  <2>2. \A i \in 1..n : i - 1 \in 0..n
    OBVIOUS
  <2> QED BY <1>2, <1>3, <2>1, <2>2
<1>5. \A i \in 0..n : h[i] = IF i = 0 THEN 0 ELSE h[i-1] + 1 - Operands(query[i])
  BY <1>3 DEF Climbs
<1>6. \E f : Stacks(f, rows, query, n)
  BY StacksExist
<1>7. PICK s : Stacks(s, rows, query, n) /\ Selected(rows, query) = s[n][1]
  BY <1>2, <1>6 DEF Selected, Stacks
<1>8. \A i \in 0..n : s[i] = IF i = 0 THEN <<>> ELSE Pushed(rows, s[i-1], query[i])
  BY <1>7 DEF Stacks
<1>14. PICK S : S = SUBSET rows
  OBVIOUS
<1> DEFINE T == {i \in Nat : i <= n => s[i] \in Seq(S) /\ Len(s[i]) = h[i]}
<1>9. 0 \in T
  <2>1. s[0] = <<>> /\ h[0] = 0
    BY <1>5, <1>8
  <2>2. <<>> \in Seq(S) /\ Len(<<>>) = 0
    OBVIOUS
  <2>3. s[0] \in Seq(S) /\ Len(s[0]) = h[0]
    BY <2>1, <2>2, Zenon
  <2> QED BY <2>3, Zenon
<1>10. ASSUME NEW i \in Nat, i \in T PROVE i + 1 \in T
  <2> SUFFICES ASSUME i + 1 <= n PROVE s[i + 1] \in Seq(S) /\ Len(s[i + 1]) = h[i + 1]
    OBVIOUS
  <2>1. /\ i + 1 \in 0..n /\ i + 1 \in 1..n /\ i + 1 # 0 /\ (i + 1) - 1 = i
        /\ s[i] \in Seq(S) /\ Len(s[i]) = h[i]
    BY <1>10
  <2>2. /\ s[i + 1] = Pushed(rows, s[i], query[i + 1])
        /\ h[i + 1] = h[i] + 1 - Operands(query[i + 1])
        /\ h[i] >= Operands(query[i + 1])
    BY <1>4, <1>5, <1>8, <2>1
  <2>3. /\ Pushed(rows, s[i], query[i + 1]) \in Seq(S)
        /\ Len(Pushed(rows, s[i], query[i + 1])) = Len(s[i]) + 1 - Operands(query[i + 1])
    BY <1>14, <2>1, <2>2, PushedSound
  <2> QED BY <2>1, <2>2, <2>3
<1>11. Nat \subseteq T
  <2> HIDE DEF T
  <2> QED BY <1>9, <1>10, Induction
<1>12. s[n] \in Seq(S) /\ Len(s[n]) = 1
  <2>1. n \in T
    BY <1>11, Zenon
  <2>2. n <= n
    OBVIOUS
  <2>3. s[n] \in Seq(S) /\ Len(s[n]) = h[n]
    BY <2>1, <2>2, Zenon
  <2> QED BY <1>4, <2>3, Zenon
<1>13. s[n][1] \in SUBSET rows
  BY <1>12, <1>14, OfOne, Zenon
<1> QED BY <1>7, <1>13------------------------------------------------------------------------------
(* What a listing accounts for.                                             *)

\* Rows a listing can put in order and rank: of projects, each on a harp of its
\* own in its project.
RowsSound(rows) ==
  /\ IsFiniteSet(rows)
  /\ \A r \in rows : /\ r.project \in Projects
                     /\ r.task.created_at \in Int /\ r.task.harp_id \in Harps
  /\ \A r, s \in rows : r.project = s.project /\ r.task.harp_id = s.task.harp_id => r = s

\* Rows are ranked, or the listing is refused.
LEMMA RankedEach ==
  ASSUME NEW rows, RankRefusal(rows, Now) = Sound, NEW r \in rows
  PROVE  Ranking(InProject(rows, r.project), Finished, DeclaredIn[r.project], Now).failure = Sound
<1> DEFINE ps == {s.project : s \in rows}
           refused(p) == IF FormulasRefusal(DeclaredIn[p]) # Sound
                           THEN FormulasRefusal(DeclaredIn[p])
                         ELSE Ranked(rows, Now)[p].failure
           bad == {p \in ps : refused(p) # Sound}
<1>1. RankRefusal(rows, Now) = IF bad = {} THEN Sound ELSE refused(CHOOSE p \in bad : TRUE)
  BY DEF RankRefusal
<1>2. \A p \in bad : refused(p) # Sound
  OBVIOUS
<1>3. bad = {}
  <2> HIDE DEF bad, refused
  <2> QED BY <1>1, <1>2
<1>4. r.project \in ps /\ refused(r.project) = Sound
  BY <1>3
<1>5. Ranked(rows, Now)[r.project].failure = Sound
  BY <1>4
<1>6. Ranked(rows, Now)[r.project]
        = Ranking(InProject(rows, r.project), Finished, DeclaredIn[r.project], Now)
  BY <1>4 DEF Ranked
<1> QED BY <1>5, <1>6

LEMMA NormalizedRank ==
  ASSUME NEW raw, NEW live, IsFiniteSet(live), NEW h \in live
  PROVE  RankNormalize(raw, live, h) \in Int
<1>1. PICK below : below = {g \in live : raw[g] <= raw[h]}
  OBVIOUS
<1>2. IsFiniteSet(below) /\ Cardinality(below) \in Nat
  BY <1>1, FS_Subset, FS_CardinalityType
<1>3. Cardinality(live) \in Nat /\ Cardinality(live) # 0
  BY FS_CardinalityType, FS_EmptySet
<1>4. MaxPriority \in Nat
  BY TagOrderAssumption DEF MaxPriority
<1>5. PICK a \in Nat, b \in Nat, n \in Nat \ {0} :
        a = MaxPriority /\ b = Cardinality(below) /\ n = Cardinality(live)
  BY <1>2, <1>3, <1>4
<1>6. a * b \in Nat
  OBVIOUS
<1>7. \A m \in Nat : m \div n \in Int
  OBVIOUS
<1>8. RankNormalize(raw, live, h) = (a * b) \div n
  BY <1>1, <1>5 DEF RankNormalize
<1> QED BY <1>6, <1>7, <1>8

LEMMA PriorityIs ==
  ASSUME NEW rows, RowsSound(rows), RankRefusal(rows, Now) = Sound, NEW r \in rows
  PROVE  PriorityOf(Ranked(rows, Now), r) \in Int
<1>1. PICK p, declared : p = r.project /\ declared = DeclaredIn[p]
  OBVIOUS
<1>2. PICK tasks : tasks = InProject(rows, p)
  OBVIOUS
<1>3. \A t \in tasks : t.harp_id \in Harps
  BY <1>2 DEF InProject, RowsSound
<1>4. r.task \in tasks
  BY <1>1, <1>2 DEF InProject
<1> DEFINE byHarp(h) == CHOOSE t \in tasks : t.harp_id = h
           harps == {t.harp_id : t \in tasks}
           live == {t.harp_id : t \in {u \in tasks : u.status \notin Finished}}
           scored == [h \in harps |-> RawScore(byHarp(h), declared, Now)]
           raw == [h \in harps |-> scored[h].score]
           failed == {h \in harps : scored[h].failure # Sound}
           ranking == Ranking(tasks, Finished, declared, Now)
<1>5. ranking = IF failed # {} THEN [failure |-> scored[CHOOSE h \in failed : TRUE].failure]
                ELSE [failure |-> Sound,
                      priority |-> [h \in harps |-> Priority(byHarp(h), raw, live)]]
  BY DEF Ranking
<1>6. ranking.failure = Sound
  BY <1>1, <1>2, RankedEach
<1>7. \A h \in failed : scored[h].failure # Sound
  OBVIOUS
<1>8. \A h \in harps : byHarp(h) \in tasks /\ byHarp(h).harp_id = h
  OBVIOUS
<1>9. live \subseteq Harps
  BY <1>3
<1>10. r.task.harp_id \in harps
  BY <1>4
<1> HIDE DEF failed, scored, byHarp, harps, live, raw, ranking
<1>11. ranking.priority = [h \in harps |-> Priority(byHarp(h), raw, live)]
  <2>1. failed = {}
    <3> SUFFICES ASSUME failed # {} PROVE FALSE
      OBVIOUS
    <3>1. PICK h : h = (CHOOSE g \in failed : TRUE)
      OBVIOUS
    <3>2. h \in failed
      BY <3>1
    <3>3. ranking.failure = scored[h].failure
      BY <1>5, <3>1
    <3> QED BY <1>6, <1>7, <3>2, <3>3
  <2> QED BY <1>5, <2>1
<1>12. Ranked(rows, Now)[p] = ranking
  <2>1. p \in {s.project : s \in rows}
    BY <1>1
  <2> QED BY <1>1, <1>2, <2>1 DEF Ranked, ranking
<1>13. PICK h : h = r.task.harp_id
  OBVIOUS
<1>14. PriorityOf(Ranked(rows, Now), r) = Priority(byHarp(h), raw, live)
  BY <1>1, <1>10, <1>11, <1>12, <1>13 DEF PriorityOf
<1>15. byHarp(h).harp_id = h
  BY <1>8, <1>10, <1>13
<1>16. MaxPriority \in Int
  BY TagOrderAssumption DEF MaxPriority
<1>17. CASE h \notin live
  BY <1>14, <1>15, <1>17 DEF Priority
<1>18. CASE h \in live
  <2>1. IsFiniteSet(live)
    BY <1>9, HarpRankAssumption, FS_Subset
  <2>2. RankNormalize(raw, live, h) \in Int
    BY <1>18, <2>1, NormalizedRank
  <2> QED BY <1>14, <1>15, <1>16, <1>18, <2>2 DEF Priority
<1> QED BY <1>17, <1>18

\* Whether a row comes before another, as a listing sorts them.
Outranks(q, ranked, r, s) ==
  /\ q.sort = "priority"
  /\ r.project = s.project
  /\ PriorityOf(ranked, r) > PriorityOf(ranked, s)
Before(q, ranked, every, r, s) ==
  Outranks(q, ranked, r, s) \/ (~Outranks(q, ranked, s, r) /\ RowBefore(every, r, s))

LEMMA BeforeOrders ==
  ASSUME NEW rows, RowsSound(rows), NEW q, NEW ranked, NEW every \in BOOLEAN,
         q.sort = "priority" => \A r \in rows : PriorityOf(ranked, r) \in Int
  PROVE  StrictOrder(rows, {pair \in rows \X rows : Before(q, ranked, every, pair[1], pair[2])})
<1> DEFINE R == {pair \in rows \X rows : Before(q, ranked, every, pair[1], pair[2])}
           place(r) == ProjectRank[r.project]
           high(r) == IF q.sort = "priority" THEN PriorityOf(ranked, r) ELSE 0
           added(r) == IF every THEN 0 ELSE r.task.created_at
           rank(r) == HarpRank[r.task.harp_id]
<1>1. \A r, s \in rows : <<r, s>> \in R <=> Before(q, ranked, every, r, s)
  OBVIOUS
<1>2. \A r \in rows : place(r) \in Int /\ high(r) \in Int /\ added(r) \in Int /\ rank(r) \in Int
  <2>1. \A r \in rows : high(r) \in Int
    OBVIOUS
  <2>2. \A r \in rows : place(r) \in Int /\ rank(r) \in Int /\ added(r) \in Int
    BY ProjectRankAssumption, HarpRankAssumption DEF RowsSound
  <2> QED BY <2>1, <2>2
<1>3. \A r, s \in rows : place(r) = place(s) <=> r.project = s.project
  BY ProjectRankAssumption DEF RowsSound
<1>4. \A r, s \in rows : place(r) = place(s) /\ rank(r) = rank(s) => r = s
  BY <1>3, HarpRankAssumption DEF RowsSound
<1>5. ASSUME NEW r \in rows, NEW s \in rows
      PROVE  Outranks(q, ranked, r, s) <=> place(r) = place(s) /\ high(r) > high(s)
  <2>1. CASE q.sort = "priority"
    BY <1>3, <2>1 DEF Outranks
  <2>2. CASE q.sort # "priority"
    BY <2>2 DEF Outranks
  <2> QED BY <2>1, <2>2
<1>6. ASSUME NEW r \in rows, NEW s \in rows
      PROVE  RowBefore(every, r, s) <=>
               IF place(r) # place(s) THEN place(r) < place(s)
               ELSE IF added(r) # added(s) THEN added(r) < added(s)
               ELSE rank(r) < rank(s)
  BY <1>3 DEF RowBefore
<1>7. ASSUME NEW r \in rows, NEW s \in rows
      PROVE  <<r, s>> \in R <=>
               IF place(r) # place(s) THEN place(r) < place(s)
               ELSE IF high(r) # high(s) THEN high(r) > high(s)
               ELSE IF added(r) # added(s) THEN added(r) < added(s)
               ELSE rank(r) < rank(s)
  <2>1. <<r, s>> \in R <=>
          \/ place(r) = place(s) /\ high(r) > high(s)
          \/ /\ ~(place(s) = place(r) /\ high(s) > high(r))
             /\ RowBefore(every, r, s)
    BY <1>1, <1>5 DEF Before
  <2>2. /\ place(r) \in Int /\ high(r) \in Int /\ added(r) \in Int /\ rank(r) \in Int
        /\ place(s) \in Int /\ high(s) \in Int /\ added(s) \in Int /\ rank(s) \in Int
    BY <1>2
  <2>3. RowBefore(every, r, s) <=>
               IF place(r) # place(s) THEN place(r) < place(s)
               ELSE IF added(r) # added(s) THEN added(r) < added(s)
               ELSE rank(r) < rank(s)
    BY <1>6
  <2> HIDE DEF place, high, added, rank, R
  <2> QED BY <2>1, <2>2, <2>3
<1> HIDE DEF place, high, added, rank, R
<1>8. \A r \in rows : <<r, r>> \notin R
  BY <1>2, <1>7
<1>9. ASSUME NEW r \in rows, NEW s \in rows, r # s PROVE <<r, s>> \in R \/ <<s, r>> \in R
  BY <1>2, <1>4, <1>7, <1>9
<1>10. ASSUME NEW r \in rows, NEW s \in rows, NEW t \in rows, <<r, s>> \in R, <<s, t>> \in R
       PROVE  <<r, t>> \in R
  <2>1. /\ place(r) \in Int /\ place(s) \in Int /\ place(t) \in Int
        /\ high(r) \in Int /\ high(s) \in Int /\ high(t) \in Int
        /\ added(r) \in Int /\ added(s) \in Int /\ added(t) \in Int
        /\ rank(r) \in Int /\ rank(s) \in Int /\ rank(t) \in Int
    BY <1>2
  <2>2. IF place(r) # place(s) THEN place(r) < place(s)
        ELSE IF high(r) # high(s) THEN high(r) > high(s)
        ELSE IF added(r) # added(s) THEN added(r) < added(s)
        ELSE rank(r) < rank(s)
    BY <1>7, <1>10
  <2>3. IF place(s) # place(t) THEN place(s) < place(t)
        ELSE IF high(s) # high(t) THEN high(s) > high(t)
        ELSE IF added(s) # added(t) THEN added(s) < added(t)
        ELSE rank(s) < rank(t)
    BY <1>7, <1>10
  <2>4. IF place(r) # place(t) THEN place(r) < place(t)
        ELSE IF high(r) # high(t) THEN high(r) > high(t)
        ELSE IF added(r) # added(t) THEN added(r) < added(t)
        ELSE rank(r) < rank(t)
    BY <2>1, <2>2, <2>3
  <2> QED BY <1>7, <2>4
<1>11. StrictOrder(rows, R)
  BY <1>8, <1>9, <1>10 DEF StrictOrder
<1> QED BY <1>11 DEF R

\* The rows a listing shows come in its order, each once.
LEMMA SortedSound ==
  ASSUME NEW rows, RowsSound(rows), NEW q, NEW ranked, NEW every \in BOOLEAN,
         q.sort = "priority" => \A r \in rows : PriorityOf(ranked, r) \in Int
  PROVE  LET order == Sorted(rows, ranked, q, every) IN
         /\ order \in SetToSeqs(rows)
         /\ \A i, j \in DOMAIN order : i < j => Before(q, ranked, every, order[i], order[j])
<1> DEFINE R == {pair \in rows \X rows : Before(q, ranked, every, pair[1], pair[2])}
           InOrder(o) == \A i, j \in DOMAIN o : i < j => Before(q, ranked, every, o[i], o[j])
<1>1. StrictOrder(rows, R) /\ IsFiniteSet(rows)
  <2>1. StrictOrder(rows, R)
    BY BeforeOrders
  <2> QED BY <2>1 DEF RowsSound
<1>2. \A r, s \in rows : <<r, s>> \in R <=> Before(q, ranked, every, r, s)
  OBVIOUS
<1>3. PICK o \in SetToSeqs(rows) : \A i, j \in DOMAIN o : i < j => <<o[i], o[j]>> \in R
  <2> HIDE DEF R
  <2> QED BY <1>1, OrderExists
<1>4. \A i \in DOMAIN o : o[i] \in rows
  BY DEF SetToSeqs
<1>5. InOrder(o)
  BY <1>2, <1>3, <1>4
<1>6. Sorted(rows, ranked, q, every) = CHOOSE order \in SetToSeqs(rows) : InOrder(order)
  BY DEF Sorted, Before, Outranks
<1> HIDE DEF InOrder, R
<1>7. PICK order : order = Sorted(rows, ranked, q, every)
  OBVIOUS
<1>8. order \in SetToSeqs(rows) /\ InOrder(order)
  BY <1>5, <1>6, <1>7
<1> QED BY <1>7, <1>8 DEF InOrder
\* What a listing's rows and counts say of what its filters match, by a ranking.
Accounted(matched, l, q, ranked) ==
  LET hidden == {r \in matched : q.statuses = {} /\ ~q.all /\ ~IsActive(r.task.status)} IN
  /\ Len(l.rows) + l.omitted + l.completed + l.deferred = Cardinality(matched)
  /\ Range(l.rows) \subseteq matched \ hidden
  /\ l.completed + l.deferred = Cardinality(hidden)
  /\ q.sort = "priority" =>
       /\ \A i \in DOMAIN l.rows : l.priorities[i] = PriorityOf(ranked, l.rows[i])
       /\ \A r \in Range(l.rows), s \in matched \ (hidden \cup Range(l.rows)) :
            r.project = s.project => PriorityOf(ranked, r) >= PriorityOf(ranked, s)

\* The first rows of an order.
LEMMA CutIs ==
  ASSUME NEW order, Len(order) \in Nat, NEW limit \in Nat \cup {Unlimited}
  PROVE  \E m \in 0..Len(order) :
           CutTo(order, limit) = order \/ CutTo(order, limit) = SubSeq(order, 1, m)
<1>1. CASE limit = Unlimited
  BY <1>1 DEF CutTo
<1>2. CASE limit \in Nat /\ limit # Unlimited
  <2>1. PICK n \in Nat : n = Len(order)
    OBVIOUS
  <2>2. Min({limit, n}) \in {limit, n} /\ Min({limit, n}) <= n /\ Min({limit, n}) \in Nat
    <3>1. \E x \in {limit, n} : \A y \in {limit, n} : x <= y
      BY <1>2
    <3>2. /\ Min({limit, n}) \in {limit, n}
          /\ \A y \in {limit, n} : Min({limit, n}) <= y
      BY <3>1 DEF Min
    <3> QED BY <1>2, <3>2
  <2>3. CutTo(order, limit) = SubSeq(order, 1, Min({limit, n}))
    BY <1>2, <2>1 DEF CutTo
  <2>4. PICK k : k = Min({limit, n})
    OBVIOUS
  <2>5. k \in 0..Len(order)
    BY <2>1, <2>2, <2>4
  <2> QED BY <2>3, <2>4, <2>5, Zenon
<1> QED BY <1>1, <1>2

\* The first m rows of an order of S, and those left: none comes before one of
\* them.
LEMMA CutParts ==
  ASSUME NEW S, IsFiniteSet(S), NEW order \in SetToSeqs(S), NEW limit \in Nat \cup {Unlimited}
  PROVE  LET cut == CutTo(order, limit) IN
         /\ Len(cut) \in Nat /\ DOMAIN cut = 1..Len(cut) /\ Len(cut) <= Cardinality(S)
         /\ Range(cut) \subseteq S
         /\ \A r \in Range(cut), s \in S \ Range(cut) :
              \E i, j \in DOMAIN order : i < j /\ order[i] = r /\ order[j] = s
<1>1. PICK n \in Nat : n = Cardinality(S)
  BY FS_CardinalityType
<1>2. order \in [1..n -> S]
  BY <1>1 DEF SetToSeqs
<1>3. Len(order) = n /\ order \in Seq(S) /\ DOMAIN order = 1..n
  BY <1>2
<1>4. Range(order) = S
  BY OrderIsWhole
<1>5. PICK cut : cut = CutTo(order, limit)
  OBVIOUS
<1>6. \E m \in 0..n : cut = order \/ cut = SubSeq(order, 1, m)
  BY <1>3, <1>5, CutIs
<1>7. PICK m \in 0..n : Len(cut) = m /\ DOMAIN cut = 1..m /\ \A i \in 1..m : cut[i] = order[i]
  <2>1. CASE cut = order
    BY <1>3, <2>1
  <2>2. ASSUME NEW m \in 0..n, cut = SubSeq(order, 1, m)
        PROVE  Len(cut) = m /\ DOMAIN cut = 1..m /\ \A i \in 1..m : cut[i] = order[i]
    BY <1>3, <2>2
  <2> QED BY <1>6, <2>1, <2>2
<1>8. Range(cut) = {order[i] : i \in 1..m}
  BY <1>7 DEF Range
<1>9. Range(cut) \subseteq S
  BY <1>2, <1>8
<1>10. ASSUME NEW r \in Range(cut), NEW s \in S \ Range(cut)
       PROVE  \E i, j \in DOMAIN order : i < j /\ order[i] = r /\ order[j] = s
  <2>1. PICK i \in 1..m : order[i] = r
    BY <1>8
  <2>2. PICK j \in 1..n : order[j] = s
    BY <1>3, <1>4 DEF Range
  <2>3. j \notin 1..m
    BY <1>8, <2>2
  <2> QED BY <1>3, <2>1, <2>2, <2>3
<1> QED BY <1>1, <1>5, <1>7, <1>9, <1>10

\* The rows kept of those matched are what is not hidden.
LEMMA KeptIs ==
  ASSUME NEW matched, NEW q, q.all \in BOOLEAN
  PROVE  Kept(matched, q)
           = matched \ {r \in matched : q.statuses = {} /\ ~q.all /\ ~IsActive(r.task.status)}
BY DEF Kept

LEMMA ListingAccounts ==
  ASSUME NEW rows, RowsSound(rows), NEW q \in Queries, QueryRefusal(q.tag_query) = Sound,
         NEW every \in BOOLEAN, q.sort = "priority" => RankRefusal(rows, Now) = Sound
  PROVE  Accounted(Matching(rows, q), Listed(rows, q, every, Now), q, Ranked(rows, Now))
<1>1. PICK matched : matched = Matching(rows, q)
  OBVIOUS
<1>2. PICK ranked : ranked = Ranked(rows, Now)
  OBVIOUS
<1>3. /\ q.all \in BOOLEAN /\ q.limit \in Nat \cup {Unlimited}
      /\ q.tag_query \in {<<Absent>>, <<Blank>>} \/ q.tag_query \in Seq(TagNames \cup Operators)
  BY DEF Queries
<1>4. matched \subseteq rows
  <2>1. PICK C : C = {r \in rows : Holds(q.statuses, r.task.status) /\ Mentions(r.task.text, q.term)}
    OBVIOUS
  <2>2. Selected(C, q.tag_query) \subseteq C
    BY <1>3, SelectedSound
  <2>3. C \subseteq rows
    BY <2>1
  <2> QED BY <1>1, <2>1, <2>2, <2>3 DEF Matching
<1> DEFINE hidden == {r \in matched : q.statuses = {} /\ ~q.all /\ ~IsActive(r.task.status)}
           kept == Kept(matched, q)
<1>5. kept = matched \ hidden /\ hidden \subseteq matched
  BY <1>3, KeptIs
<1>6. RowsSound(kept) /\ IsFiniteSet(matched)
  <2>1. kept \subseteq rows
    BY <1>4, <1>5
  <2>2. IsFiniteSet(kept) /\ IsFiniteSet(matched)
    <3>1. IsFiniteSet(rows)
      BY DEF RowsSound
    <3> HIDE DEF kept
    <3> QED BY <1>4, <2>1, <3>1, FS_Subset
  <2> HIDE DEF kept
  <2> QED BY <2>1, <2>2 DEF RowsSound
<1>7. ASSUME q.sort = "priority" PROVE \A r \in rows : PriorityOf(ranked, r) \in Int
  BY <1>2, <1>7, PriorityIs
<1>8. PICK order : order = Sorted(kept, ranked, q, every)
  OBVIOUS
<1>9. /\ order \in SetToSeqs(kept)
      /\ \A i, j \in DOMAIN order : i < j => Before(q, ranked, every, order[i], order[j])
  <2>1. q.sort = "priority" => \A r \in kept : PriorityOf(ranked, r) \in Int
    BY <1>4, <1>5, <1>7
  <2> HIDE DEF kept
  <2> QED BY <1>6, <1>8, <2>1, SortedSound
<1>10. PICK cut : cut = CutTo(order, q.limit)
  OBVIOUS
<1>11. /\ Len(cut) \in Nat /\ DOMAIN cut = 1..Len(cut) /\ Len(cut) <= Cardinality(kept)
       /\ Range(cut) \subseteq kept
       /\ \A r \in Range(cut), s \in kept \ Range(cut) :
            \E i, j \in DOMAIN order : i < j /\ order[i] = r /\ order[j] = s
  <2>1. IsFiniteSet(kept)
    BY <1>6 DEF RowsSound
  <2>2. order \in SetToSeqs(kept)
    BY <1>9
  <2>3. PICK limit : limit = q.limit
    OBVIOUS
  <2>4. limit \in Nat \cup {Unlimited} /\ cut = CutTo(order, limit)
    BY <1>3, <1>10, <2>3
  <2> HIDE DEF kept
  <2> QED BY <2>1, <2>2, <2>4, CutParts
<1>12. PICK l : l = Listed(rows, q, every, Now)
  OBVIOUS
<1>13. l = Paged(matched, kept, ranked, cut, q)
  BY <1>1, <1>2, <1>8, <1>10, <1>12 DEF Listed, RankPopulation
<1> DEFINE completed == {r \in matched \ kept : IsTerminal(r.task.status)}
           deferred == {r \in matched \ kept : ~IsTerminal(r.task.status)}
<1>14. /\ l.rows = cut /\ l.completed = Cardinality(completed) /\ l.deferred = Cardinality(deferred)
       /\ l.omitted = Cardinality(kept) - Len(cut)
       /\ q.sort = "priority" => l.priorities = [i \in DOMAIN cut |-> PriorityOf(ranked, cut[i])]
  <2>1. q.sort = "priority" => q.sort # Absent
    BY DEF Absent
  <2> HIDE DEF kept
  <2> QED BY <1>13, <2>1 DEF Paged
<1>15. completed \cup deferred = hidden /\ completed \cap deferred = {}
  BY <1>5
<1>16. kept \cup hidden = matched /\ kept \cap hidden = {}
  BY <1>5
<1> HIDE DEF kept, hidden, completed, deferred
<1>17. /\ IsFiniteSet(kept) /\ IsFiniteSet(hidden)
       /\ IsFiniteSet(completed) /\ IsFiniteSet(deferred)
  <2>1. kept \in SUBSET matched /\ hidden \in SUBSET matched
        /\ completed \in SUBSET matched /\ deferred \in SUBSET matched
    BY <1>15, <1>16
  <2> QED BY <1>6, <2>1, FS_Subset
<1>18. /\ Cardinality(kept) \in Nat /\ Cardinality(hidden) \in Nat
       /\ Cardinality(completed) \in Nat /\ Cardinality(deferred) \in Nat
  BY <1>17, FS_CardinalityType
<1>19. Cardinality(completed) + Cardinality(deferred) = Cardinality(hidden)
  <2>1. Cardinality(completed \cup deferred) =
          Cardinality(completed) + Cardinality(deferred) - Cardinality(completed \cap deferred)
    BY <1>17, FS_Union
  <2>2. Cardinality(completed \cap deferred) = 0
    BY <1>15, FS_EmptySet
  <2>3. Cardinality(completed \cup deferred) = Cardinality(hidden)
    BY <1>15
  <2> QED BY <1>18, <2>1, <2>2, <2>3
<1>20. Cardinality(kept) + Cardinality(hidden) = Cardinality(matched)
  BY <1>16, <1>17, <1>18, FS_Union, FS_EmptySet
<1>21. ASSUME q.sort = "priority", NEW r \in Range(cut), NEW s \in kept \ Range(cut),
              r.project = s.project
       PROVE  PriorityOf(ranked, r) >= PriorityOf(ranked, s)
  <2>1. PICK i \in DOMAIN order, j \in DOMAIN order : i < j /\ order[i] = r /\ order[j] = s
    BY <1>11
  <2>2. Before(q, ranked, every, r, s)
    BY <1>9, <2>1
  <2>3. ~Outranks(q, ranked, s, r)
    <3>1. r \in rows /\ s \in rows
      BY <1>4, <1>11, <1>16
    <3>2. PriorityOf(ranked, r) \in Int /\ PriorityOf(ranked, s) \in Int
      BY <1>7, <1>21, <3>1
    <3> QED BY <2>2, <3>2 DEF Before, Outranks
  <2>4. PriorityOf(ranked, r) \in Int /\ PriorityOf(ranked, s) \in Int
    BY <1>4, <1>7, <1>11, <1>16, <1>21
  <2> QED BY <1>21, <2>3, <2>4 DEF Outranks
<1>22. \A r \in Range(cut), s \in matched \ (hidden \cup Range(cut)) :
         q.sort = "priority" /\ r.project = s.project => PriorityOf(ranked, r) >= PriorityOf(ranked, s)
  BY <1>16, <1>21
<1>23. Len(l.rows) + l.omitted + l.completed + l.deferred = Cardinality(matched)
  BY <1>11, <1>14, <1>18, <1>19, <1>20
<1>24. Accounted(matched, l, q, ranked)
  <2>1. Range(l.rows) \subseteq matched \ hidden
    BY <1>11, <1>14, <1>16
  <2>2. l.completed + l.deferred = Cardinality(hidden)
    BY <1>14, <1>19
  <2> QED BY <1>14, <1>22, <1>23, <2>1, <2>2 DEF Accounted, hidden
<1> QED BY <1>1, <1>2, <1>12, <1>24------------------------------------------------------------------------------
(* A listing of what was gathered accounts for all of it.                   *)

\* A listing that is not refused has a query that selects.
LEMMA ListAsked ==
  ASSUME NEW q, q.kind = "list", QueryRefused(q) = Sound
  PROVE  QueryRefusal(q.tag_query) = Sound
<1> DEFINE refused == {i \in 1..5 : Refusals(q)[i] # Sound}
<1>1. QueryRefused(q) = IF refused = {} THEN Sound ELSE Refusals(q)[Min(refused)]
  BY DEF QueryRefused
<1>2. ASSUME refused # {} PROVE Min(refused) \in refused
  <2>1. \A y \in refused : y \in {1, 2, 3, 4, 5}
    OBVIOUS
  <2> HIDE DEF refused
  <2>2. \E x \in refused : \A y \in refused : x <= y
    <3>1. CASE 1 \in refused
      BY <2>1, <3>1
    <3>2. CASE 1 \notin refused /\ 2 \in refused
      BY <2>1, <3>2
    <3>3. CASE 1 \notin refused /\ 2 \notin refused /\ 3 \in refused
      BY <2>1, <3>3
    <3>4. CASE 1 \notin refused /\ 2 \notin refused /\ 3 \notin refused /\ 4 \in refused
      BY <2>1, <3>4
    <3>5. CASE 1 \notin refused /\ 2 \notin refused /\ 3 \notin refused /\ 4 \notin refused
      BY <1>2, <2>1, <3>5
    <3> QED BY <3>1, <3>2, <3>3, <3>4, <3>5
  <2> QED BY <2>2 DEF Min
<1>3. refused = {}
  <2> SUFFICES ASSUME refused # {} PROVE FALSE
    OBVIOUS
  <2>1. PICK i \in refused : i = Min(refused)
    BY <1>2
  <2>2. Refusals(q)[i] # Sound
    OBVIOUS
  <2> HIDE DEF refused
  <2> QED BY <1>1, <2>1, <2>2
<1>4. Refusals(q)[2] = Sound
  BY <1>3
<1> QED BY <1>4 DEF Refusals

\* The rows of some projects' tasks.
RowsIn(ps, tasks) == UNION {RowsOf(p, tasks[p]) : p \in ps}

IsCall(k) ==
  k \in [pc: {k.pc}, query: {k.query}, every: {k.every}, left: {k.left}, rows: {k.rows},
         reached: {k.reached}, subscriber: {k.subscriber}]

\* The projects a call has still to read, each once.
IsLine(l) == l \in Seq(Projects) /\ \A i, j \in DOMAIN l : l[i] = l[j] => i = j

\* What a call has gathered is what was last gathered of each project it
\* reached; it reads none again.
Reading(k, tasks) ==
  /\ k.query \in Queries /\ QueryRefused(k.query) = Sound
  /\ k.every \in BOOLEAN
  /\ IsLine(k.left)
  /\ k.reached \subseteq Projects
  /\ \A i \in DOMAIN k.left : k.left[i] \notin k.reached
  /\ k.rows = RowsIn(k.reached, tasks)
  /\ \A p \in k.reached : Sortable(tasks[p])

ReadInv ==
  /\ IsCall(call)
  /\ seen = [p \in Projects |-> seen[p]]
  /\ call.pc # "idle" => Reading(call, seen)
  /\ ListingComplete

\* A step that leaves the call and what was gathered, and answers nothing.
LEMMA BesideReads ==
  ASSUME ReadInv, UNCHANGED <<call, seen>>, answer' = NoAnswer
  PROVE  ReadInv'
<1>1. ListingComplete'
  BY DEF ListingComplete, NoAnswer
<1> QED BY <1>1 DEF ReadInv

LEMMA OrderIs == Order \in SetToSeqs(Projects)
<1> DEFINE R == {pair \in Projects \X Projects : ProjectRank[pair[1]] < ProjectRank[pair[2]]}
           InOrder(o) == \A i, j \in DOMAIN o : i < j => ProjectRank[o[i]] < ProjectRank[o[j]]
<1>1. \A p, q \in Projects : <<p, q>> \in R <=> ProjectRank[p] < ProjectRank[q]
  OBVIOUS
<1>2. \A p \in Projects : ProjectRank[p] \in Int
  BY ProjectRankAssumption
<1>3. \A p, q \in Projects : ProjectRank[p] = ProjectRank[q] => p = q
  BY ProjectRankAssumption
<1>4. StrictOrder(Projects, R)
  <2> HIDE DEF R
  <2>1. \A p \in Projects : <<p, p>> \notin R
    BY <1>1, <1>2
  <2>2. \A p, q \in Projects : p # q => <<p, q>> \in R \/ <<q, p>> \in R
    BY <1>1, <1>2, <1>3
  <2>3. \A p, q, r \in Projects : <<p, q>> \in R /\ <<q, r>> \in R => <<p, r>> \in R
    BY <1>1, <1>2
  <2> QED BY <2>1, <2>2, <2>3 DEF StrictOrder
<1>5. PICK o \in SetToSeqs(Projects) : \A i, j \in DOMAIN o : i < j => <<o[i], o[j]>> \in R
  <2> HIDE DEF R
  <2> QED BY <1>4, ProjectRankAssumption, OrderExists
<1>6. \A i \in DOMAIN o : o[i] \in Projects
  BY DEF SetToSeqs
<1>7. InOrder(o)
  BY <1>1, <1>5, <1>6
<1>8. Order = CHOOSE order \in SetToSeqs(Projects) : InOrder(order)
  BY DEF Order
<1> HIDE DEF InOrder
<1> QED BY <1>7, <1>8

LEMMA OrderIsLine == IsLine(Order)
<1>1. PICK n \in Nat : n = Cardinality(Projects)
  BY ProjectRankAssumption, FS_CardinalityType
<1>2. Order \in [1..n -> Projects] /\ \A i, j \in 1..n : i # j => Order[i] # Order[j]
  BY <1>1, OrderIs DEF SetToSeqs
<1>3. Order \in Seq(Projects) /\ DOMAIN Order = 1..n
  BY <1>2
<1> QED BY <1>2, <1>3 DEF IsLine

LEMMA ScannedReads ==
  ASSUME NEW q \in Queries, QueryRefused(q) = Sound, NEW tasks
  PROVE  IsCall(Scanned(q)) /\ Reading(Scanned(q), tasks)
<1> DEFINE one == IF q.project # NoProject THEN q.project ELSE WorkRoot
           every == q.global \/ (one = NoProject /\ Rootless)
           left == IF every THEN Order ELSE IF one = NoProject THEN <<>> ELSE <<one>>
           pc == IF ~every /\ one = NoProject THEN "answer" ELSE "gather"
<1>1. Scanned(q) = [Idle EXCEPT !.query = q, !.every = every, !.left = left, !.pc = pc]
  BY DEF Scanned
<1>2. one \in Projects \cup {NoProject}
  BY ReadersAssumption DEF Queries
<1>3. every \in BOOLEAN
  BY ReadersAssumption DEF Queries
<1>4. IsLine(left)
  <2>1. IsLine(<<>>)
    BY DEF IsLine
  <2>2. ASSUME NEW p \in Projects PROVE IsLine(<<p>>)
    BY DEF IsLine
  <2> HIDE DEF one, every, IsLine
  <2> QED BY <1>2, <2>1, <2>2, OrderIsLine
<1> HIDE DEF one, every, left, pc
<1>5. Scanned(q) = [pc |-> pc, query |-> q, every |-> every, left |-> left, rows |-> {},
                    reached |-> {}, subscriber |-> FALSE]
  BY <1>1 DEF Idle
<1>6. RowsIn({}, tasks) = {}
  BY DEF RowsIn
<1> QED BY <1>3, <1>4, <1>5, <1>6 DEF IsCall, Reading
LEMMA GatherReads ==
  ASSUME ListInv, StampsInv, ReadInv, Gather
  PROVE  ReadInv'
<1>1. PICK p : p = Head(call.left)
  OBVIOUS
<1>2. PICK found : found = IF there[p] THEN Entries(CaughtUp(p)) ELSE {}
  OBVIOUS
<1>3. PICK left : left = Tail(call.left)
  OBVIOUS
<1>4. Reading(call, seen) /\ call.left # <<>> /\ call.pc = "gather"
  BY DEF Gather, ReadInv
<1>5. /\ p \in Projects /\ p \notin call.reached
      /\ IsLine(left)
      /\ \A i \in DOMAIN left : left[i] \notin call.reached /\ left[i] # p
  <2>1. PICK l \in Seq(Projects) : l = call.left /\ l # <<>>
    BY <1>4 DEF Reading, IsLine
  <2>2. PICK n \in Nat \ {0} : n = Len(l)
    BY <2>1
  <2>3. DOMAIN l = 1..n /\ p = l[1] /\ l[1] \in Projects /\ 1 \in DOMAIN l
    BY <1>1, <2>1, <2>2
  <2>4. /\ left \in Seq(Projects) /\ DOMAIN left = 1..(n - 1)
        /\ \A i \in 1..(n - 1) : left[i] = l[i + 1] /\ i + 1 \in 1..n
    BY <1>3, <2>1, <2>2
  <2>5. \A i, j \in 1..n : l[i] = l[j] => i = j
    BY <1>4, <2>1, <2>3 DEF Reading, IsLine
  <2>6. \A i \in 1..n : l[i] \notin call.reached
    BY <1>4, <2>1, <2>3 DEF Reading
  <2>7. ASSUME NEW i \in 1..(n - 1), NEW j \in 1..(n - 1), left[i] = left[j] PROVE i = j
    <3>1. i + 1 \in 1..n /\ j + 1 \in 1..n /\ l[i + 1] = l[j + 1]
      BY <2>4, <2>7
    <3>2. i + 1 = j + 1
      BY <2>5, <3>1
    <3> QED BY <3>2
  <2>8. \A i \in 1..(n - 1) : left[i] \notin call.reached /\ left[i] # p
    BY <2>2, <2>3, <2>4, <2>5, <2>6
  <2> QED BY <2>2, <2>3, <2>4, <2>6, <2>7, <2>8 DEF IsLine
<1>6. \/ call' = Idle /\ seen' = seen /\ answer'.kind = "failed"
      \/ /\ FailedIn(p) = {}
         /\ seen' = [seen EXCEPT ![p] = found]
         /\ call' = [call EXCEPT
              !.left = Tail(@), !.rows = @ \cup [project: {p}, task: found],
              !.reached = @ \cup (IF there[p] THEN {p} ELSE {}),
              !.pc = IF Len(call.left) = 1 THEN "answer" ELSE "gather"]
         /\ answer' = NoAnswer
  BY <1>1, <1>2 DEF Gather, CallFails
<1>7. ListingComplete'
  <2>1. answer'.kind # "list"
    BY <1>6 DEF NoAnswer
  <2> QED BY <2>1 DEF ListingComplete
<1>8. CASE call' = Idle /\ seen' = seen
  BY <1>7, <1>8 DEF ReadInv, Idle, IsCall
<1>9. CASE /\ FailedIn(p) = {}
           /\ seen' = [seen EXCEPT ![p] = found]
           /\ call' = [call EXCEPT
                !.left = Tail(@), !.rows = @ \cup [project: {p}, task: found],
                !.reached = @ \cup (IF there[p] THEN {p} ELSE {}),
                !.pc = IF Len(call.left) = 1 THEN "answer" ELSE "gather"]
  <2>1. /\ IsCall(call')
        /\ call'.query = call.query /\ call'.every = call.every /\ call'.left = left
        /\ call'.rows = call.rows \cup RowsOf(p, found)
        /\ call'.reached = call.reached \cup (IF there[p] THEN {p} ELSE {})
    BY <1>3, <1>9 DEF ReadInv, IsCall, RowsOf
  <2>2. /\ seen' = [q \in Projects |-> seen'[q]] /\ seen'[p] = found
        /\ \A q \in Projects : q # p => seen'[q] = seen[q]
    BY <1>5, <1>9 DEF ReadInv
  <2>3. found = Live(p)
    BY <1>2, <1>5, <1>9, CaughtIsLive, NoneIsLive
  <2>4. Sortable(found)
    <3>1. \A h \in Harps : Task(p, h) # Unread
      BY <1>5, <1>9, ReadWhole DEF ListInv, FailedIn
    <3> QED BY <1>5, <2>3, <3>1, LiveSortable
  <2>5. /\ call.reached \subseteq Projects
        /\ call.rows = RowsIn(call.reached, seen)
        /\ \A q \in call.reached : Sortable(seen[q])
    BY <1>4 DEF Reading
  <2>6. \A q \in call.reached : q \in Projects /\ q # p /\ seen'[q] = seen[q]
    BY <1>5, <2>2, <2>5
  <2>7. ~there[p] => RowsOf(p, found) = {}
    BY <1>2 DEF RowsOf
  <2>8. RowsIn(call.reached, seen') = RowsIn(call.reached, seen)
    BY <2>6 DEF RowsIn
  <2>9. call'.rows = RowsIn(call'.reached, seen')
    <3>1. CASE there[p]
      <4>1. call'.reached = call.reached \cup {p}
        BY <2>1, <3>1
      <4>2. RowsIn(call.reached \cup {p}, seen') = RowsIn(call.reached, seen') \cup RowsOf(p, seen'[p])
        BY DEF RowsIn
      <4> QED BY <2>1, <2>2, <2>5, <2>8, <4>1, <4>2
    <3>2. CASE ~there[p]
      <4>1. call'.reached = call.reached
        BY <2>1, <3>2
      <4>2. call'.rows = call.rows
        BY <2>1, <2>7, <3>2
      <4> QED BY <2>5, <2>8, <4>1, <4>2
    <3> QED BY <3>1, <3>2
  <2>10. /\ call'.reached \subseteq Projects
         /\ \A q \in call'.reached : Sortable(seen'[q])
         /\ \A i \in DOMAIN left : left[i] \notin call'.reached
    BY <1>5, <2>1, <2>2, <2>4, <2>5, <2>6
  <2>11. Reading(call', seen')
    BY <1>4, <1>5, <2>1, <2>9, <2>10 DEF Reading
  <2> QED BY <1>7, <2>1, <2>2, <2>11 DEF ReadInv
<1> QED BY <1>6, <1>8, <1>9

\* What is gathered can be listed: rows of finitely many projects, each on its
\* harp.
LEMMA GatheredSound ==
  ASSUME NEW ps \in SUBSET Projects, NEW tasks, \A p \in ps : Sortable(tasks[p])
  PROVE  RowsSound(RowsIn(ps, tasks))
<1> DEFINE rows == RowsIn(ps, tasks)
<1>1. \A r \in rows : r.project \in ps /\ r.task \in tasks[r.project]
                      /\ r = [project |-> r.project, task |-> r.task]
  BY DEF RowsIn, RowsOf
<1>2. \A r \in rows : /\ r.project \in Projects
                      /\ r.task.created_at \in Int /\ r.task.harp_id \in Harps
  BY <1>1 DEF Sortable
<1>3. \A r, s \in rows : r.project = s.project /\ r.task.harp_id = s.task.harp_id => r = s
  <2> SUFFICES ASSUME NEW r \in rows, NEW s \in rows, r.project = s.project,
                      r.task.harp_id = s.task.harp_id
               PROVE  r = s
    OBVIOUS
  <2>1. r.task = s.task
    BY <1>1 DEF Sortable
  <2>2. /\ r = [project |-> r.project, task |-> r.task]
        /\ s = [project |-> s.project, task |-> s.task]
    BY <1>1
  <2> QED BY <2>1, <2>2
<1>4. IsFiniteSet(rows)
  <2>1. IsFiniteSet(Projects \X Harps)
    BY ProjectRankAssumption, HarpRankAssumption, FS_Product
  <2> DEFINE f == [r \in rows |-> <<r.project, r.task.harp_id>>]
  <2>2. f \in [rows -> Projects \X Harps]
    BY <1>2
  <2>3. \A r, s \in rows : f[r] = f[s] => r = s
    BY <1>3
  <2> HIDE DEF f, rows
  <2>4. f \in Injection(rows, Projects \X Harps)
    BY <2>2, <2>3 DEF Injection, IsInjective
  <2> QED BY <2>1, <2>4, FS_Injection
<1> QED BY <1>2, <1>3, <1>4 DEF RowsSound

\* A call asked for a list answers with one that accounts for what it gathered.
LEMMA RespondReads ==
  ASSUME ReadInv, Respond
  PROVE  ReadInv'
<1>1. /\ call' = Idle /\ seen' = seen
      /\ answer' = Answered(call.query, call.rows, call.every)
      /\ Reading(call, seen)
  BY DEF Respond, ReadInv
<1>2. PICK q, rows, every : q = call.query /\ rows = call.rows /\ every = call.every
  OBVIOUS
<1>7. q \in Queries /\ every \in BOOLEAN
  BY <1>1, <1>2 DEF Reading
<1>3. RowsSound(rows) /\ rows = RowsIn(call.reached, seen)
  BY <1>1, <1>2, GatheredSound DEF Reading
<1>4. ASSUME answer'.kind = "list"
      PROVE  /\ q.kind = "list"
             /\ q.sort = "priority" => RankRefusal(rows, Now) = Sound
             /\ answer'.query = q /\ answer'.reached = call.reached
             /\ answer'.listed = Listed(rows, q, every, Now)
  <2>1. answer' = Answered(q, rows, every)
    BY <1>1, <1>2
  <2>2. q.kind \in {"list", "tags", "show", "summary", "statuses", "lint"}
    BY <1>7 DEF Queries
  <2>3. CASE q.kind # "list"
    BY <1>4, <2>1, <2>2, <2>3 DEF Answered, Refusal
  <2>4. CASE q.kind = "list"
    BY <1>4, <2>1, <2>4 DEF Answered, Refusal
  <2> QED BY <2>3, <2>4
<1>5. ASSUME answer'.kind = "list" PROVE ListingComplete'
  <2>1. QueryRefusal(q.tag_query) = Sound
    BY <1>1, <1>2, <1>4, <1>5, ListAsked DEF Reading
  <2>2. Accounted(Matching(rows, q), Listed(rows, q, every, Now), q, Ranked(rows, Now))
    BY <1>3, <1>4, <1>5, <1>7, <2>1, ListingAccounts
  <2>3. Gathered' = rows
    BY <1>1, <1>3, <1>4, <1>5 DEF Gathered, RowsIn, RowsOf
  <2> QED BY <1>4, <1>5, <2>2, <2>3 DEF ListingComplete, Accounted
<1>6. ListingComplete'
  BY <1>5 DEF ListingComplete
<1> QED BY <1>1, <1>6 DEF ReadInv, Idle, IsCall

LEMMA AskReads ==
  ASSUME ReadInv, (\E q \in Asked : Ask(q)) \/ Requery
  PROVE  ReadInv'
<1>1. /\ seen' = seen
      /\ \/ call' = call
         \/ \E q \in Queries : /\ QueryRefused(q) = Sound
                               /\ \/ call' = Scanned(q)
                                  \/ call' = [Scanned(q) EXCEPT !.subscriber = TRUE]
      /\ answer'.kind # "list"
  BY QueriesAssumption DEF Ask, Requery, Refusal, NoAnswer
<1>2. ListingComplete'
  BY <1>1 DEF ListingComplete
<1>3. ASSUME NEW q \in Queries, QueryRefused(q) = Sound,
             call' = Scanned(q) \/ call' = [Scanned(q) EXCEPT !.subscriber = TRUE]
      PROVE  IsCall(call') /\ Reading(call', seen')
  <2>1. PICK k : k = Scanned(q)
    OBVIOUS
  <2>2. IsCall(k) /\ Reading(k, seen)
    BY <1>3, <2>1, ScannedReads
  <2>3. /\ IsCall(call') /\ call'.query = k.query /\ call'.every = k.every
        /\ call'.left = k.left /\ call'.rows = k.rows /\ call'.reached = k.reached
    BY <1>3, <2>1, <2>2 DEF IsCall
  <2> QED BY <1>1, <2>2, <2>3 DEF Reading
<1> QED BY <1>1, <1>2, <1>3 DEF ReadInv

LEMMA NextReads ==
  ASSUME ListInv, StampsInv, ReadInv, [Next]_vars
  PROVE  ReadInv'
<1>1. CASE \E p \in Projects : Write(p) \/ WriteHere(p) \/ Purge(p) \/ WriteNewer(p)
  BY <1>1, BesideReads DEF Write, WriteHere, Purge, WriteNewer, Recording, Commits
<1>2. CASE Touch \/ StartWatch \/ Tick \/ StopWatch
  BY <1>2, BesideReads DEF Touch, StartWatch, Tick, StopWatch
<1>3. CASE Fail
  <2>1. call' = Idle /\ seen' = seen /\ answer'.kind = "failed"
    BY <1>3 DEF Fail, CallFails
  <2> QED BY <2>1 DEF ReadInv, ListingComplete, Idle, IsCall
<1>4. CASE UNCHANGED vars
  <2>1. call' = call /\ seen' = seen /\ answer' = answer
    BY <1>4 DEF vars
  <2>2. Gathered' = Gathered
    BY <2>1 DEF Gathered
  <2>3. ListingComplete'
    BY <2>1, <2>2 DEF ReadInv, ListingComplete
  <2> QED BY <2>1, <2>3 DEF ReadInv
<1> QED BY <1>1, <1>2, <1>3, <1>4, AskReads, GatherReads, RespondReads DEF Next

\* A listing accounts for every task its filters match (read.rs:593,
\* priority.rs:1): of any projects, tasks, tag queries, filters, limits and
\* formulas, whatever other processes write while the projects are read one
\* after another, and whichever reads fail; as long as no newer version purges
\* a stream this one cannot read.
THEOREM ListingsAreComplete ==
  ASSUME ~NewerPurges PROVE Spec => []ListingComplete
<1> DEFINE Inv == ListInv /\ StampsInv /\ ReadInv
<1>1. Init => Inv
  <2>1. ASSUME Init PROVE ReadInv
    <3>1. call = Idle /\ seen = [p \in Projects |-> {}] /\ answer = NoAnswer
      BY <2>1 DEF Init
    <3> QED BY <3>1 DEF ReadInv, ListingComplete, NoAnswer, Idle, IsCall
  <2> QED BY <2>1, InitLists, InitStamps
<1>2. Inv /\ [Next]_vars => Inv'
  <2> SUFFICES ASSUME Inv, [Next]_vars PROVE Inv'
    OBVIOUS
  <2>1. ListInv'
    BY NextLists
  <2>2. StampsInv'
    BY NextStamps
  <2>3. ReadInv'
    BY NextReads
  <2> QED BY <2>1, <2>2, <2>3
<1>3. Inv => ListingComplete
  BY DEF ReadInv
<1> QED BY <1>1, <1>2, <1>3, PTL DEF Spec
------------------------------------------------------------------------------
(* The types: what the rules write is an event, and folds to a task.        *)

IsTyped(e) == e \in TaskEvents /\ (e.type \in {"TaskAdded", "StatusChanged"} => DeferralSet(e))

\* A page that cannot be read, or that the rules wrote; and a stream of them.
PageTyped(page) ==
  IsUnread(page) \/ (IsTyped(page.event) /\ page.recorded_at \in Int)
StreamTyped(s) == IsStream(s) /\ \A i \in DOMAIN s : PageTyped(s[i])

\* A task the rules left: none yet, or one with a status.
TaskKept(t) ==
  /\ t \in TaskStates
  /\ DeferralSet(t)
  /\ t.harp_id # Empty => t.status # Empty

LEMMA NoneKept == TaskKept(NoTask) /\ Unread \notin TaskStates
<1>1. Never \in Int
  BY DEF Never
<1>2. NoTask \in TaskStates
  BY <1>1 DEF NoTask, TaskStates
<1>3. /\ NoTask.trigger = Empty /\ NoTask.status = Empty /\ NoTask.prior_status = Empty
      /\ NoTask.harp_id = Empty
  BY DEF NoTask
<1>4. Empty # Defers
  BY NamesAssumption, TaxonomyAssumption
<1>5. Unread.harp_id \notin Harps \cup {Empty}
  BY NoTaskIs
<1>6. \A t \in TaskStates : t.harp_id \in Harps \cup {Empty}
  BY DEF TaskStates
<1> QED BY <1>2, <1>3, <1>4, <1>5, <1>6 DEF TaskKept, DeferralSet

\* An event the rules wrote leaves a task they would, whatever it found.
LEMMA AppliedKept ==
  ASSUME NEW e, IsTyped(e), NEW at \in Int, NEW t, TaskKept(t)
  PROVE  TaskKept(Apply(t, e, at))
<1>0. Never \in Int /\ t \in TaskStates
  BY DEF Never, TaskKept
<1>1. CASE e \in TaskAddedEvents
  <2> DEFINE i == InstantOf(e.at, at)
             d == DeferredSince(e.deferred_since, e.trigger, i, Never)
  <2>1. e.type = "TaskAdded"
    BY <1>1 DEF TaskAddedEvents
  <2>2. i \in Int
    BY <1>1 DEF InstantOf, TaskAddedEvents
  <2>3. d \in Int
    BY <1>0, <1>1, <2>2 DEF DeferredSince, TaskAddedEvents
  <2>4. Apply(t, e, at) =
          [t EXCEPT !.harp_id = e.harp_id, !.text = e.text, !.status = e.status,
                    !.trigger = e.trigger, !.tags = e.tags, !.created_at = i,
                    !.status_set_at = i, !.deferred_since = d,
                    !.prior_status = e.prior_status]
    BY <2>1 DEF Apply, ApplyAdded
  <2> HIDE DEF i, d
  <2>5. PICK n : n = Apply(t, e, at)
    OBVIOUS
  <2>6. n \in TaskStates
    BY <1>0, <1>1, <2>2, <2>3, <2>4, <2>5 DEF TaskStates, TaskAddedEvents
  <2>7. n.status = e.status /\ n.trigger = e.trigger /\ n.prior_status = e.prior_status
    BY <1>0, <2>4, <2>5 DEF TaskStates
  <2>8. e.status # Empty
    BY <1>1, NamesAssumption DEF TaskAddedEvents
  <2> QED BY <2>1, <2>5, <2>6, <2>7, <2>8 DEF TaskKept, IsTyped, DeferralSet
<1>2. CASE e \in StatusChangedEvents
  <2> DEFINE i == InstantOf(e.at, at)
             d == DeferredSince(e.deferred_since, e.trigger, i, t.deferred_since)
  <2>1. e.type = "StatusChanged"
    BY <1>2 DEF StatusChangedEvents
  <2>2. i \in Int
    BY <1>2 DEF InstantOf, StatusChangedEvents
  <2>3. d \in Int
    BY <1>0, <1>2, <2>2 DEF DeferredSince, StatusChangedEvents, TaskStates
  <2>4. Apply(t, e, at) =
          [t EXCEPT !.status = e.status, !.trigger = e.trigger, !.status_set_at = i,
                    !.deferred_since = d, !.prior_status = e.prior_status]
    BY <2>1 DEF Apply, ApplyStatusChanged
  <2> HIDE DEF i, d
  <2>5. PICK n : n = Apply(t, e, at)
    OBVIOUS
  <2>6. n \in TaskStates
    BY <1>0, <1>2, <2>2, <2>3, <2>4, <2>5 DEF TaskStates, StatusChangedEvents
  <2>7. n.status = e.status /\ n.trigger = e.trigger /\ n.prior_status = e.prior_status
    BY <1>0, <2>4, <2>5 DEF TaskStates
  <2>8. e.status # Empty
    BY <1>2, NamesAssumption DEF StatusChangedEvents
  <2> QED BY <2>1, <2>5, <2>6, <2>7, <2>8 DEF TaskKept, IsTyped, DeferralSet
<1>3. CASE e \in TextEditedEvents
  BY <1>0, <1>3 DEF Apply, TaskKept, TaskStates, TextEditedEvents, DeferralSet
<1>4. CASE e \in RetaggedEvents
  BY <1>0, <1>4 DEF Apply, TaskKept, TaskStates, RetaggedEvents, DeferralSet
<1>5. CASE e \in TaskRemovedEvents
  BY <1>0, <1>5 DEF Apply, TaskKept, TaskStates, TaskRemovedEvents, DeferralSet
<1> QED BY <1>1, <1>2, <1>3, <1>4, <1>5 DEF IsTyped, TaskEvents

\* So does a fold of their pages, unless one cannot be read.
LEMMA FoldKept ==
  ASSUME NEW from, TaskKept(from), NEW s, StreamTyped(s)
  PROVE  Folded(from, s) = Unread \/ TaskKept(Folded(from, s))
<1>1. PICK L \in Nat : L = Len(s) /\ DOMAIN s = 1..L
  BY DEF StreamTyped, IsStream
<1>2. PICK f : Folds(f, from, s, L) /\ Folded(from, s) = f[L]
  <2>1. \E g : Folds(g, from, s, Len(s)) /\ Folded(from, s) = g[Len(s)]
    BY <1>1, FoldedIs
  <2> QED BY <1>1, <2>1
<1>3. f[0] = from /\ \A i \in Nat : i + 1 <= L => f[i + 1] = Applied(f[i], s[i + 1])
  BY <1>2, FoldsAt
<1> DEFINE T == {n \in Nat : n <= L => f[n] = Unread \/ TaskKept(f[n])}
<1>4. 0 \in T
  BY <1>3
<1>5. ASSUME NEW n \in Nat, n \in T, n + 1 <= L PROVE f[n + 1] = Unread \/ TaskKept(f[n + 1])
  <2>1. /\ f[n] = Unread \/ TaskKept(f[n])
        /\ n + 1 \in DOMAIN s /\ f[n + 1] = Applied(f[n], s[n + 1])
    BY <1>1, <1>3, <1>5
  <2>2. CASE IsUnread(s[n + 1]) \/ f[n] = Unread
    BY <2>1, <2>2 DEF Applied, IsUnread
  <2>3. CASE ~IsUnread(s[n + 1]) /\ f[n] # Unread
    <3>1. IsTyped(s[n + 1].event) /\ s[n + 1].recorded_at \in Int
      BY <2>1, <2>3 DEF StreamTyped, PageTyped
    <3>2. f[n + 1] = Apply(f[n], s[n + 1].event, s[n + 1].recorded_at)
      BY <2>1, <2>3 DEF Applied, IsUnread
    <3> QED BY <2>1, <2>3, <3>1, <3>2, AppliedKept
  <2> QED BY <2>2, <2>3
<1>6. \A n \in Nat : n \in T => n + 1 \in T
  BY <1>5
<1>7. Nat \subseteq T
  <2> HIDE DEF T
  <2> QED BY <1>4, <1>6, Induction
<1> QED BY <1>1, <1>2, <1>7
\* What an add records.
LEMMA AddTyped ==
  ASSUME NEW a \in AddTaskCommands, AddRefusal(a) = Sound
  PROVE  IsTyped(TaskAddedOf(a))
<1> DEFINE e == TaskAddedOf(a)
<1>1. a.text \in Texts
  BY DEF AddRefusal, TextRefusal, Sound, AddTaskCommands
<1>2. a.status = Absent \/ a.status \in Statuses
  BY DEF AddRefusal, StatusRefusal, GivenBlank, Sound, AddTaskCommands, Optional
<1>3. a.trigger = Absent \/ a.trigger \in Triggers
  BY DEF AddRefusal, StatusRefusal, GivenBlank, Sound, AddTaskCommands, Optional
<1>4. AddedStatus(a) \in Statuses
  BY <1>2, TaxonomyAssumption DEF AddedStatus
<1>5. (a.trigger # Absent) <=> (AddedStatus(a) = Defers)
  BY DEF AddRefusal, Sound
<1>6. e \in TaskAddedEvents
  BY <1>1, <1>3, <1>4, TaxonomyAssumption DEF TaskAddedOf, TaskAddedEvents, AddTaskCommands, Never
<1>7. DeferralSet(e)
  BY <1>3, <1>5, TaxonomyAssumption, NamesAssumption DEF TaskAddedOf, DeferralSet
<1> QED BY <1>6, <1>7 DEF IsTyped, TaskEvents

\* A task deferred, on a trigger, and one at rest.
LEMMA DeferringTyped ==
  ASSUME NEW t, TaskKept(t), t.harp_id # Empty, NEW trigger \in Triggers
  PROVE  IsTyped(Deferring(t, trigger))
<1> DEFINE prior == IF t.status = Defers THEN t.prior_status ELSE t.status
<1>1. prior \in Statuses /\ prior # Empty /\ prior # Defers
  BY DEF TaskKept, TaskStates, DeferralSet
<1>2. Deferring(t, trigger) =
        [type |-> "StatusChanged", status |-> Defers, trigger |-> trigger, at |-> Never,
         deferred_since |-> Never, prior_status |-> prior]
  BY DEF Deferring
<1>3. trigger # Empty
  BY NamesAssumption
<1> HIDE DEF prior
<1> QED BY <1>1, <1>2, <1>3, TaxonomyAssumption
        DEF StatusChangedEvents, TaskEvents, IsTyped, DeferralSet, Never

LEMMA RestingTyped ==
  ASSUME NEW s \in Statuses, s # Defers PROVE IsTyped(Resting(s))
<1>1. Empty # Defers /\ Never \in Int
  BY TaxonomyAssumption, NamesAssumption DEF Never
<1> QED BY <1>1 DEF Resting, StatusChangedEvents, TaskEvents, IsTyped, DeferralSet

\* What a change of a task records.
LEMMA MovedTyped ==
  ASSUME NEW t, TaskKept(t), t.harp_id # Empty, NEW a \in SetStatusCommands,
         ChangeRefusal(a) = Sound, Records(Moved(t, a))
  PROVE  IsTyped(Moved(t, a).event)
<1> DEFINE e == Moved(t, a).event
<1>1. a.status = Absent \/ a.status \in Statuses
  BY DEF ChangeRefusal, StatusRefusal, GivenBlank, Sound, SetStatusCommands, Optional
<1>2. a.trigger \in {Absent, Empty} \cup Triggers
  BY DEF ChangeRefusal, StatusRefusal, Sound, SetStatusCommands, Optional
<1>3. Absent \notin Triggers /\ Empty \notin Triggers /\ Absent # Empty
  BY NamesAssumption DEF Absent, Empty
<1>4. CASE a.trigger \in Triggers
  BY <1>4, DeferringTyped DEF Moved, Recorded
<1>5. CASE a.trigger = Empty
  <2>1. a.status # Absent => a.status \in Statuses /\ a.status # Defers
    BY <1>1, <1>5 DEF ChangeRefusal, Sound
  <2>2. t.trigger # Empty => t.prior_status \in Statuses /\ t.prior_status # Defers
    BY DEF TaskKept, DeferralSet, TaskStates
  <2>3. /\ a.status # Absent \/ t.trigger # Empty
        /\ e = IF a.status # Absent THEN Resting(a.status) ELSE Resting(t.prior_status)
    BY <1>3, <1>5 DEF Moved, Recorded, Records, Unchanged, NoEvent
  <2> QED BY <2>1, <2>2, <2>3, RestingTyped
<1>6. CASE a.trigger = Absent
  <2>1. a.status \in Statuses
    BY <1>1, <1>6, TaxonomyAssumption DEF ChangeRefusal, Sound
  <2>2. CASE a.status # Defers
    BY <1>3, <1>6, <2>1, <2>2, RestingTyped DEF Moved, Recorded
  <2>3. CASE a.status = Defers
    <3>1. t.trigger \in Triggers /\ e = Deferring(t, t.trigger)
      BY <1>3, <1>6, <2>3 DEF Moved, Recorded, Records, Refused, NoEvent, TaskKept, TaskStates
    <3> QED BY <3>1, DeferringTyped
  <2> QED BY <2>2, <2>3
<1> QED BY <1>2, <1>4, <1>5, <1>6

\* What a command records of a task.
LEMMA DecidedTyped ==
  ASSUME NEW c \in Commands, NEW p, TaskKept(Task(p, c.harp)),
         Records(Decision(p, c.harp, c.command))
  PROVE  IsTyped(Decision(p, c.harp, c.command).event)
<1> DEFINE command == IF c.command.type = "AddTask" THEN [c.command EXCEPT !.harp_id = c.harp]
                      ELSE c.command
           taken == streams[p][c.harp] # <<>>
           task == Task(p, c.harp)
           d == Decision(p, c.harp, c.command)
<1>1. /\ c.harp \in Harps
      /\ c.command \in AddTaskCommands \cup SetStatusCommands \cup EditTextCommands
                          \cup RetagCommands \cup RemoveTaskCommands
  BY ReadersAssumption
<1>2. d = Decide(task, taken, command) /\ Records(d)
  BY DEF Decision
<1>3. TaskKept(task) /\ (LiveRefusal(task) = Sound => task.harp_id # Empty)
  BY DEF LiveRefusal, Sound
<1> HIDE DEF taken, task, d
<1>4. CASE c.command \in AddTaskCommands
  <2>1. command.type = "AddTask" /\ command \in AddTaskCommands
    BY <1>1, <1>4 DEF AddTaskCommands
  <2> HIDE DEF command
  <2>2. d = DecideAdd(taken, command)
    BY <1>2, <2>1 DEF Decide
  <2>3. AddRefusal(command) = Sound /\ d = Recorded(TaskAddedOf(command))
    BY <1>2, <2>2 DEF DecideAdd, Records, Refused, NoEvent
  <2> QED BY <2>1, <2>3, AddTyped DEF Recorded, d
<1>5. CASE c.command \in SetStatusCommands
  <2>1. command.type = "SetStatus" /\ command \in SetStatusCommands
    BY <1>5 DEF SetStatusCommands
  <2> HIDE DEF command
  <2>2. d = DecideSetStatus(task, command)
    BY <1>2, <2>1 DEF Decide
  <2>3. d = Moved(task, command) /\ ChangeRefusal(command) = Sound /\ LiveRefusal(task) = Sound
    BY <1>2, <2>2 DEF DecideSetStatus, Records, Refused, NoEvent
  <2> QED BY <1>2, <1>3, <2>1, <2>3, MovedTyped DEF d
<1>6. CASE c.command \in EditTextCommands
  <2>1. command.type = "EditText" /\ command \in EditTextCommands
    BY <1>6 DEF EditTextCommands
  <2> HIDE DEF command
  <2>2. d = DecideEdit(task, command)
    BY <1>2, <2>1 DEF Decide
  <2>3. /\ d.event = [type |-> "TextEdited", text |-> command.text]
        /\ TextRefusal(command.text) = Sound
    BY <1>2, <2>2 DEF DecideEdit, Records, Recorded, Refused, NoEvent
  <2>4. command.text \in Texts
    BY <2>1, <2>3 DEF EditTextCommands, TextRefusal, Sound
  <2> QED BY <2>3, <2>4 DEF IsTyped, TaskEvents, TextEditedEvents, d
<1>7. CASE c.command \in RetagCommands
  <2>1. command.type = "Retag" /\ command \in RetagCommands
    BY <1>7 DEF RetagCommands
  <2> HIDE DEF command
  <2>2. d = DecideRetag(task, command)
    BY <1>2, <2>1 DEF Decide
  <2>3. d.event = [type |-> "Retagged", tags |-> (task.tags \cup command.add) \ command.remove]
    BY <1>2, <2>2 DEF DecideRetag, Records, Recorded, Refused, Unchanged, NoEvent
  <2>4. (task.tags \cup command.add) \ command.remove \in SUBSET TagNames
    BY <1>3, <2>1 DEF TaskKept, TaskStates, RetagCommands
  <2> QED BY <2>3, <2>4 DEF IsTyped, TaskEvents, RetaggedEvents, d
<1>8. CASE c.command \in RemoveTaskCommands
  <2>1. command.type = "RemoveTask" /\ command \in RemoveTaskCommands
    BY <1>8 DEF RemoveTaskCommands
  <2> HIDE DEF command
  <2>2. d = DecideRemove(task, command)
    BY <1>2, <2>1 DEF Decide
  <2>3. d.event = [type |-> "TaskRemoved", reason |-> command.reason]
    BY <1>2, <2>2 DEF DecideRemove, Records, Recorded, Refused, NoEvent
  <2> QED BY <2>1, <2>3 DEF IsTyped, TaskEvents, TaskRemovedEvents, RemoveTaskCommands, d
<1> QED BY <1>1, <1>4, <1>5, <1>6, <1>7, <1>8
------------------------------------------------------------------------------
(* What a project's store and its list hold.                                *)

HarpTyped(p, h) ==
  /\ StreamTyped(streams[p][h])
  /\ births[p][h] \in Nat /\ births[p][h] <= used.writes
  /\ lists[p].at[h].birth \in Nat /\ lists[p].at[h].birth <= births[p][h]
  /\ lists[p].at[h].pages \in Nat
  /\ lists[p].at[h].birth = births[p][h] => lists[p].at[h].pages <= Len(streams[p][h])
  /\ TaskKept(lists[p].streams[h])
  /\ TaskKept(lists[p].entries[h])
  /\ TaskKept(lists[p].unpurged[h])

TablesTyped ==
  /\ IsTable(streams) /\ IsTable(births)
  /\ lists = [p \in Projects |-> lists[p]]
  /\ there \in [Projects -> BOOLEAN]
  /\ \A p \in Projects : \A h \in Harps : HarpTyped(p, h)

HeldTyped ==
  held \in [project: Projects \cup {NoProject}, writable: BOOLEAN]

Kinds == {"list", "tags", "show", "summary", "statuses", "lint"}

\* A call gathers tasks of projects, those it has still to read on its line.
CallOf(k) ==
  /\ IsCall(k)
  /\ k.pc \in {"idle", "gather", "answer"}
  /\ k.query \in Queries
  /\ k.left \in Seq(Projects)
  /\ k.rows \subseteq Rows
CallTyped == CallOf(call)

WatchTyped ==
  /\ watch \in [pc: {"off", "on", "ended"}, burst: NoBurst..(CeilingTicks - 1)]
  /\ moved \in BOOLEAN /\ unread \in BOOLEAN

UsedTyped == used \in [writes: 0..MaxWrites, reads: 0..MaxReads, fails: 0..MaxFails]

AnswerTyped == answer.kind \in Kinds \cup {"none", "refused", "failed"}

TypeInv ==
  TablesTyped /\ HeldTyped /\ CallTyped /\ WatchTyped /\ UsedTyped /\ AnswerTyped

\* What a list is owed of a stream is the rules' pages.
LEMMA HandedTyped ==
  ASSUME NEW p, NEW h, HarpTyped(p, h)
  PROVE  StreamTyped(HandedPages(p, h))
<1>1. PICK s, at : s = streams[p][h] /\ at = lists[p].at[h]
  OBVIOUS
<1>2. StreamTyped(s) /\ IsStream(s) /\ Len(s) \in Nat /\ DOMAIN s = 1..Len(s)
  BY <1>1 DEF HarpTyped, StreamTyped, IsStream
<1>3. CASE IsNew(p, h)
  BY <1>1, <1>2, <1>3 DEF HandedPages
<1>4. CASE ~IsNew(p, h)
  <2>1. PICK n \in 0..Len(s) : n = at.pages
    BY <1>1, <1>2, <1>4 DEF HarpTyped, IsNew
  <2>2. PICK r : r = SubSeq(s, n + 1, Len(s))
    OBVIOUS
  <2>3. HandedPages(p, h) = r
    BY <1>1, <1>4, <2>1, <2>2 DEF HandedPages
  <2>4. IsStream(r) /\ Len(r) = Len(s) - n /\ \A i \in 1..(Len(s) - n) : r[i] = s[n + i]
    BY <1>2, <2>1, <2>2, PartOf
  <2>5. DOMAIN r = 1..(Len(s) - n)
    BY <2>4 DEF IsStream
  <2>6. ASSUME NEW i \in DOMAIN r PROVE PageTyped(r[i])
    <3>1. n + i \in DOMAIN s /\ r[i] = s[n + i]
      BY <1>2, <2>1, <2>4, <2>5
    <3> QED BY <1>2, <3>1 DEF StreamTyped
  <2> QED BY <2>3, <2>4, <2>6 DEF StreamTyped
<1> QED BY <1>3, <1>4

\* Caught up, a list holds tasks.
LEMMA ProjectedTyped ==
  ASSUME NEW p, NEW h, HarpTyped(p, h)
  PROVE  LET next == Projected(p, h) IN
         /\ TaskKept(next.streams) /\ TaskKept(next.entries) /\ TaskKept(next.unpurged)
         /\ next.at.birth \in Nat /\ next.at.birth <= births[p][h]
         /\ next.at.pages \in Nat
         /\ next.at.birth = births[p][h] => next.at.pages <= Len(streams[p][h])
<1>1. PICK next : next = Projected(p, h)
  OBVIOUS
<1>2. TaskKept(NoEntry) /\ Len(streams[p][h]) \in Nat
  BY NoneKept DEF NoEntry, HarpTyped, StreamTyped, IsStream
<1>3. Fold(p, h) = Unread \/ TaskKept(Fold(p, h))
  <2>1. PICK s : s = HandedPages(p, h)
    OBVIOUS
  <2>2. PICK from : from = IF IsNew(p, h) THEN NoTask ELSE lists[p].streams[h]
    OBVIOUS
  <2>3. StreamTyped(s) /\ TaskKept(from) /\ TaskKept(lists[p].streams[h])
    BY <2>1, <2>2, HandedTyped, NoneKept DEF HarpTyped
  <2>4. Fold(p, h) = IF s = <<>> THEN lists[p].streams[h] ELSE Folded(from, s)
    BY <2>1, <2>2 DEF Fold
  <2> QED BY <2>3, <2>4, FoldKept
<1> DEFINE here == [streams |-> lists[p].streams[h], entries |-> lists[p].entries[h],
                    unpurged |-> lists[p].unpurged[h], at |-> lists[p].at[h]]
<1>4. CASE Gone(p, h)
  <2>1. HandedPages(p, h) = <<>>
    <3>1. streams[p][h] = <<>> /\ Len(streams[p][h]) = 0
      BY <1>4 DEF Gone
    <3>2. IsNew(p, h)
      BY <1>4, <3>1 DEF Gone, IsNew, HarpTyped
    <3> QED BY <3>1, <3>2 DEF HandedPages
  <2>2. next = Forgotten(p, h)
    BY <1>1, <1>4, <2>1 DEF Projected, Fails
  <2> QED BY <1>1, <1>2, <2>2 DEF Forgotten, HarpTyped
<1>5. CASE ~Gone(p, h) /\ HandedPages(p, h) = <<>>
  <2>1. next = here
    BY <1>1, <1>5 DEF Projected, Fails
  <2> QED BY <1>1, <2>1 DEF HarpTyped
<1>6. CASE ~Gone(p, h) /\ HandedPages(p, h) # <<>> /\ Fails(p, h)
  <2>1. next = [here EXCEPT !.streams = IF IsNew(p, h) THEN @ ELSE NoEntry]
    BY <1>1, <1>6 DEF Projected
  <2> QED BY <1>1, <1>2, <2>1 DEF HarpTyped
<1>7. CASE ~Gone(p, h) /\ HandedPages(p, h) # <<>> /\ ~Fails(p, h)
  <2>1. TaskKept(Fold(p, h))
    BY <1>3, <1>7 DEF Fails
  <2>2. /\ next.streams = Fold(p, h)
        /\ next.entries \in {NoEntry, Fold(p, h)} /\ next.unpurged \in {NoEntry, Fold(p, h)}
        /\ next.at = [birth |-> births[p][h], pages |-> Len(streams[p][h])]
    BY <1>1, <1>7 DEF Projected
  <2>3. births[p][h] \in Nat
    BY DEF HarpTyped
  <2> QED BY <1>1, <1>2, <2>1, <2>2, <2>3
<1> QED BY <1>4, <1>5, <1>6, <1>7
\* One stream of one project's store changes: a page more, or none and another
\* birth.
LEMMA CommitsTyped ==
  ASSUME TypeInv, NEW p \in Projects, NEW h \in Harps, NEW pages, StreamTyped(pages),
         Commits(p, h, pages),
         \/ births' = births /\ Len(streams[p][h]) <= Len(pages)
         \/ births' = [births EXCEPT ![p][h] = @ + 1],
         there' \in [Projects -> BOOLEAN], HeldTyped'
  PROVE  TypeInv'
<1>1. PICK f, n : f = streams /\ n = streams'
  OBVIOUS
<1>2. IsTable(n) /\ \A q \in Projects : \A g \in Harps :
                      n[q][g] = IF q = p /\ g = h THEN pages ELSE f[q][g]
  <2>1. IsTable(f) /\ n = [f EXCEPT ![p][h] = pages]
    BY <1>1 DEF Commits, TypeInv, TablesTyped
  <2>2. Changed(n, f, p, h, pages)
    BY <2>1, TableExcept
  <2> QED BY <2>2 DEF Changed
<1>3. PICK b, c : b = births /\ c = births'
  OBVIOUS
<1>4. PICK v : v = b[p][h] + 1
  OBVIOUS
<1>5. IsTable(b) /\ b[p][h] \in Nat
  BY <1>3 DEF TypeInv, TablesTyped, HarpTyped
<1>6. \/ c = b /\ Len(f[p][h]) <= Len(pages)
      \/ /\ IsTable(c)
         /\ \A q \in Projects : \A g \in Harps :
              c[q][g] = IF q = p /\ g = h THEN v ELSE b[q][g]
  <2>1. CASE c = b /\ Len(f[p][h]) <= Len(pages)
    BY <2>1
  <2>2. CASE c = [b EXCEPT ![p][h] = v]
    <3>1. Changed(c, b, p, h, v)
      BY <1>5, <2>2, TableExcept
    <3> QED BY <3>1 DEF Changed
  <2> QED BY <1>1, <1>3, <1>4, <2>1, <2>2
<1>7. /\ UsedTyped' /\ used'.writes = used.writes + 1 /\ used.writes \in Nat
      /\ lists' = lists
  BY ReadersAssumption DEF Commits, TypeInv, UsedTyped
<1>8. ASSUME NEW q \in Projects, NEW g \in Harps PROVE HarpTyped(q, g)'
  <2>1. HarpTyped(q, g) /\ HarpTyped(p, h)
    BY DEF TypeInv, TablesTyped
  <2>2. /\ n[q][g] = IF q = p /\ g = h THEN pages ELSE f[q][g]
        /\ StreamTyped(n[q][g])
    BY <1>1, <1>2, <2>1 DEF HarpTyped
  <2>3. Len(pages) \in Nat /\ Len(f[q][g]) \in Nat
    BY <1>1, <2>1 DEF StreamTyped, IsStream, HarpTyped
  <2>4. /\ b[q][g] \in Nat /\ b[q][g] <= used.writes
        /\ c[q][g] \in {b[q][g], b[q][g] + 1}
        /\ c[q][g] = b[q][g] => Len(f[q][g]) <= Len(n[q][g])
    <3>1. b[q][g] \in Nat /\ b[q][g] <= used.writes
      BY <1>3, <2>1 DEF HarpTyped
    <3>2. CASE q = p /\ g = h
      BY <1>4, <1>5, <1>6, <2>2, <3>1, <3>2
    <3>3. CASE ~(q = p /\ g = h)
      BY <1>6, <2>2, <2>3, <3>1, <3>3
    <3> QED BY <3>2, <3>3
  <2>5. PICK at : at = lists[q].at[g]
    OBVIOUS
  <2>6. /\ at.birth \in Nat /\ at.birth <= b[q][g] /\ at.pages \in Nat
        /\ at.birth = b[q][g] => at.pages <= Len(f[q][g])
    BY <1>1, <1>3, <2>1, <2>5 DEF HarpTyped
  <2>7. Len(n[q][g]) \in Nat
    BY <2>2 DEF StreamTyped, IsStream
  <2>8. /\ at.birth <= c[q][g] /\ c[q][g] \in Nat /\ c[q][g] <= used.writes + 1
        /\ at.birth = c[q][g] => at.pages <= Len(n[q][g])
    <3>1. CASE c[q][g] = b[q][g]
      BY <1>7, <2>3, <2>4, <2>6, <2>7, <3>1
    <3>2. CASE c[q][g] = b[q][g] + 1
      BY <1>7, <2>4, <2>6, <3>2
    <3> QED BY <2>4, <3>1, <3>2
  <2> QED BY <1>1, <1>3, <1>7, <2>1, <2>2, <2>5, <2>6, <2>8 DEF HarpTyped
<1>9. IsTable(c)
  BY <1>5, <1>6
<1>10. TablesTyped'
  BY <1>1, <1>2, <1>3, <1>7, <1>8, <1>9 DEF TypeInv, TablesTyped
<1>11. CallTyped' /\ AnswerTyped'
  BY DEF Commits, TypeInv, CallTyped, AnswerTyped, NoAnswer
<1>12. WatchTyped'
  BY DEF Commits, TypeInv, WatchTyped
<1> QED BY <1>7, <1>10, <1>11, <1>12 DEF TypeInv

\* A page the rules wrote, or a newer version, appended to a stream.
LEMMA AppendTyped ==
  ASSUME NEW s, StreamTyped(s), NEW page, PageTyped(page)
  PROVE  StreamTyped(Append(s, page)) /\ Len(s) <= Len(Append(s, page))
<1>1. PICK t : t = Append(s, page)
  OBVIOUS
<1>2. /\ IsStream(t) /\ Len(s) \in Nat /\ Len(t) = Len(s) + 1
      /\ DOMAIN s = 1..Len(s) /\ DOMAIN t = 1..(Len(s) + 1)
      /\ \A i \in 1..Len(s) : t[i] = s[i]
      /\ t[Len(s) + 1] = page
  BY <1>1, AppendedPage DEF StreamTyped
<1>3. ASSUME NEW i \in DOMAIN t PROVE PageTyped(t[i])
  <2>1. i \in 1..Len(s) \/ i = Len(s) + 1
    BY <1>2
  <2> QED BY <1>2, <2>1 DEF StreamTyped
<1> QED BY <1>1, <1>2, <1>3 DEF StreamTyped

LEMMA WriteTyped ==
  ASSUME TypeInv, NEW p \in Projects, Write(p) \/ WriteHere(p)
  PROVE  TypeInv'
<1>1. PICK here : Recording(p, here) /\ there' = [there EXCEPT ![p] = TRUE] /\ births' = births
  BY DEF Write, WriteHere
<1>2. PICK c \in Commands :
        LET decision == Decision(p, c.harp, c.command)
            page == [event |-> decision.event, recorded_at |-> c.at] IN
        /\ Task(p, c.harp) # Unread
        /\ Records(decision)
        /\ Commits(p, c.harp, Append(streams[p][c.harp], page))
  BY <1>1 DEF Recording
<1>3. c.harp \in Harps /\ c.at \in Int
  BY ReadersAssumption
<1>4. StreamTyped(streams[p][c.harp])
  BY <1>3 DEF TypeInv, TablesTyped, HarpTyped
<1>5. TaskKept(Task(p, c.harp))
  BY <1>2, <1>4, FoldKept, NoneKept DEF Task
<1>6. IsTyped(Decision(p, c.harp, c.command).event)
  BY <1>2, <1>5, DecidedTyped
<1>7. PICK page : page = [event |-> Decision(p, c.harp, c.command).event, recorded_at |-> c.at]
  OBVIOUS
<1>8. PageTyped(page)
  BY <1>3, <1>6, <1>7 DEF PageTyped
<1>9. HeldTyped' /\ there' \in [Projects -> BOOLEAN]
  <2>1. held' = held \/ held' = [project |-> p, writable |-> TRUE]
    BY DEF Write, WriteHere
  <2>2. HeldTyped /\ there \in [Projects -> BOOLEAN]
    BY DEF TypeInv, TablesTyped
  <2>3. there' \in [Projects -> BOOLEAN]
    BY <1>1, <2>2
  <2>4. CASE held' = held
    BY <2>2, <2>3, <2>4 DEF HeldTyped
  <2>5. CASE held' = [project |-> p, writable |-> TRUE]
    BY <2>3, <2>5 DEF HeldTyped
  <2> QED BY <2>1, <2>4, <2>5
<1> QED BY <1>1, <1>2, <1>3, <1>4, <1>7, <1>8, <1>9, AppendTyped, CommitsTyped

LEMMA WriteNewerTyped ==
  ASSUME TypeInv, NEW p \in Projects, WriteNewer(p)
  PROVE  TypeInv'
<1>1. PICK h \in NewerAt :
        /\ Commits(p, h, Append(streams[p][h], [event |-> Unreadable, recorded_at |-> Now]))
        /\ there' = there /\ births' = births /\ held' = held
  BY DEF WriteNewer
<1>2. h \in Harps
  BY ReadersAssumption
<1>3. PageTyped([event |-> Unreadable, recorded_at |-> Now])
  BY DEF PageTyped, IsUnread
<1>4. StreamTyped(streams[p][h])
  BY <1>2 DEF TypeInv, TablesTyped, HarpTyped
<1>5. HeldTyped' /\ there' \in [Projects -> BOOLEAN]
  BY <1>1 DEF TypeInv, HeldTyped, TablesTyped
<1> QED BY <1>1, <1>2, <1>3, <1>4, <1>5, AppendTyped, CommitsTyped

LEMMA PurgeTyped ==
  ASSUME TypeInv, NEW p \in Projects, Purge(p)
  PROVE  TypeInv'
<1>1. PICK h \in Harps :
        /\ Commits(p, h, <<>>)
        /\ births' = [births EXCEPT ![p][h] = @ + 1]
        /\ there' = there /\ held' = held
  BY DEF Purge
<1>2. StreamTyped(<<>>)
  BY DEF StreamTyped, IsStream
<1>3. HeldTyped' /\ there' \in [Projects -> BOOLEAN]
  BY <1>1 DEF TypeInv, HeldTyped, TablesTyped
<1> QED BY <1>1, <1>2, <1>3, CommitsTyped
\* A step that leaves the stores and the lists.
LEMMA AsideTyped ==
  ASSUME TypeInv, UNCHANGED <<storeVars, lists>>, used'.writes = used.writes
  PROVE  TablesTyped'
<1>1. ASSUME NEW p \in Projects, NEW h \in Harps PROVE HarpTyped(p, h)'
  <2>1. HarpTyped(p, h)
    BY DEF TypeInv, TablesTyped
  <2> QED BY <2>1 DEF HarpTyped, storeVars
<1> QED BY <1>1 DEF TypeInv, TablesTyped, storeVars

LEMMA IdleTyped == CallOf(Idle)
BY QueriesAssumption DEF CallOf, IsCall, Idle

LEMMA ScannedTyped ==
  ASSUME NEW q \in Queries, QueryRefused(q) = Sound
  PROVE  CallOf(Scanned(q)) /\ CallOf([Scanned(q) EXCEPT !.subscriber = TRUE])
<1>1. PICK k : k = Scanned(q)
  OBVIOUS
<1>2. IsCall(k) /\ Reading(k, seen)
  BY <1>1, ScannedReads
<1>3. k.pc \in {"idle", "gather", "answer"} /\ k.rows = {}
  BY <1>1 DEF Scanned, Idle
<1>4. CallOf(k)
  BY <1>2, <1>3 DEF Reading, IsLine, CallOf
<1>5. PICK n : n = [k EXCEPT !.subscriber = TRUE]
  OBVIOUS
<1>6. /\ IsCall(n) /\ n.pc = k.pc /\ n.query = k.query /\ n.left = k.left /\ n.rows = k.rows
  BY <1>2, <1>5 DEF IsCall
<1>7. CallOf(n)
  BY <1>4, <1>6 DEF CallOf
<1> QED BY <1>1, <1>4, <1>5, <1>7

LEMMA AskTyped ==
  ASSUME TypeInv, (\E q \in Asked : Ask(q)) \/ Requery
  PROVE  TypeInv'
<1>1. /\ UNCHANGED <<storeVars, lists, held, watch, moved>>
      /\ used'.writes = used.writes /\ UsedTyped'
      /\ unread' = unread \/ unread' = FALSE
      /\ answer'.kind \in {"none", "refused"}
      /\ \/ call' = call
         \/ \E q \in Queries : /\ QueryRefused(q) = Sound
                               /\ \/ call' = Scanned(q)
                                  \/ call' = [Scanned(q) EXCEPT !.subscriber = TRUE]
  <2>1. CASE \E q \in Asked : Ask(q)
    <3>1. PICK q \in Asked : Ask(q)
      BY <2>1
    <3>2. q \in Queries
      BY QueriesAssumption
    <3>3. used' = [used EXCEPT !.reads = @ + 1] /\ used.reads < MaxReads /\ UsedTyped
      BY <3>1 DEF Ask, TypeInv
    <3>4. used'.writes = used.writes /\ UsedTyped'
      BY <3>3, ReadersAssumption DEF UsedTyped
    <3> QED BY <3>1, <3>2, <3>4 DEF Ask, watchVars, Refusal, NoAnswer
  <2>2. CASE Requery
    BY <2>2, QueriesAssumption DEF Requery, NoAnswer, TypeInv, UsedTyped
  <2> QED BY <2>1, <2>2
<1>2. CallTyped'
  BY <1>1, ScannedTyped DEF TypeInv, CallTyped
<1>3. HeldTyped' /\ WatchTyped'
  BY <1>1 DEF TypeInv, HeldTyped, WatchTyped
<1>4. TablesTyped'
  BY <1>1, AsideTyped
<1> QED BY <1>1, <1>2, <1>3, <1>4 DEF TypeInv, AnswerTyped

LEMMA HoldTyped ==
  ASSUME TypeInv, NEW p \in Projects, HoldExisting(p)
  PROVE  HeldTyped'
<1>1. \/ held' = held
      \/ held' = [project |-> p, writable |-> FALSE]
      \/ held' = [project |-> NoProject, writable |-> FALSE]
  BY DEF HoldExisting, NoStore
<1>2. CASE held' = held
  BY <1>2 DEF TypeInv, HeldTyped
<1>3. CASE held' = [project |-> p, writable |-> FALSE]
  BY <1>3 DEF HeldTyped
<1>4. CASE held' = [project |-> NoProject, writable |-> FALSE]
  BY <1>4 DEF HeldTyped
<1> QED BY <1>1, <1>2, <1>3, <1>4

LEMMA WatchStepsTyped ==
  ASSUME TypeInv, Touch \/ StartWatch \/ Tick \/ StopWatch
  PROVE  TypeInv'
<1>1. UNCHANGED <<storeVars, lists, call, used>> /\ answer' = NoAnswer
  BY DEF Touch, StartWatch, Tick, StopWatch
<1>2. HeldTyped'
  <2>1. CASE Touch \/ StopWatch
    BY <2>1 DEF Touch, StopWatch, TypeInv, HeldTyped
  <2>2. CASE StartWatch \/ Tick
    BY <2>2, HoldTyped, ReadersAssumption DEF StartWatch, Tick
  <2> QED BY <2>1, <2>2
<1>3. WatchTyped'
  <2>1. /\ WatchTyped /\ CeilingTicks \in Nat \ {0}
        /\ NoBurst \in NoBurst..(CeilingTicks - 1) /\ 0 \in NoBurst..(CeilingTicks - 1)
    BY ReadersAssumption DEF TypeInv, NoBurst
  <2>2. CASE Touch
    BY <2>1, <2>2 DEF Touch, WatchTyped
  <2>3. CASE StartWatch
    <3>1. /\ moved' = FALSE /\ unread' = TRUE /\ watch' = [pc |-> "on", burst |-> NoBurst]
      BY <2>3 DEF StartWatch
    <3> QED BY <2>1, <3>1 DEF WatchTyped
  <2>4. CASE StopWatch
    <3>1. /\ moved' = FALSE /\ unread' = FALSE /\ watch' = [pc |-> "ended", burst |-> NoBurst]
      BY <2>4 DEF StopWatch
    <3> QED BY <2>1, <3>1 DEF WatchTyped
  <2>5. CASE Tick
    <3>1. PICK next : next = Debounced(watch.burst, Polled)
      OBVIOUS
    <3>2. /\ moved' = FALSE /\ watch' = [watch EXCEPT !.burst = next.burst]
          /\ unread' = (unread \/ next.line)
      BY <2>5, <3>1 DEF Tick
    <3>3. PICK burst \in NoBurst..(CeilingTicks - 1) : burst = watch.burst
      BY <2>1 DEF WatchTyped
    <3>4. /\ next.burst \in {NoBurst, 0, burst + 1}
          /\ next.burst = burst + 1 => next.burst \in {NoBurst, 0} \/ ~(burst + 1 >= CeilingTicks)
      BY <3>1, <3>3 DEF Debounced
    <3>5. next.burst \in NoBurst..(CeilingTicks - 1)
      BY <2>1, <3>3, <3>4 DEF NoBurst
    <3>6. watch' \in [pc: {"off", "on", "ended"}, burst: NoBurst..(CeilingTicks - 1)]
      BY <2>1, <3>2, <3>5 DEF WatchTyped
    <3>7. moved' \in BOOLEAN /\ unread' \in BOOLEAN
      BY <3>2
    <3> QED BY <3>6, <3>7 DEF WatchTyped
  <2> QED BY <2>2, <2>3, <2>4, <2>5
<1>4. CallTyped' /\ UsedTyped' /\ AnswerTyped'
  BY <1>1 DEF TypeInv, CallTyped, UsedTyped, AnswerTyped, NoAnswer
<1>5. TablesTyped'
  BY <1>1, AsideTyped
<1> QED BY <1>2, <1>3, <1>4, <1>5 DEF TypeInv
LEMMA FailTyped ==
  ASSUME TypeInv, Fail
  PROVE  TypeInv'
<1>1. /\ UNCHANGED <<storeVars, lists, held, watch, moved>>
      /\ used' = [used EXCEPT !.fails = @ + 1] /\ used.fails < MaxFails
      /\ call' = Idle
      /\ answer'.kind = "failed"
      /\ unread' = (unread \/ call.subscriber)
  BY DEF Fail, CallFails
<1>2. used'.writes = used.writes /\ UsedTyped'
  BY <1>1, ReadersAssumption DEF TypeInv, UsedTyped
<1>3. CallTyped'
  BY <1>1, IdleTyped DEF CallTyped
<1>4. WatchTyped' /\ HeldTyped'
  BY <1>1 DEF TypeInv, WatchTyped, HeldTyped
<1>5. TablesTyped'
  BY <1>1, <1>2, AsideTyped
<1> QED BY <1>1, <1>2, <1>3, <1>4, <1>5 DEF TypeInv, AnswerTyped

LEMMA GatherTyped ==
  ASSUME TypeInv, Gather
  PROVE  TypeInv'
<1>1. PICK p : p = Head(call.left)
  OBVIOUS
<1>2. PICK found : found = IF there[p] THEN Entries(CaughtUp(p)) ELSE {}
  OBVIOUS
<1>3. p \in Projects /\ CallOf(call) /\ Tail(call.left) \in Seq(Projects)
  <2>1. PICK l \in Seq(Projects) : l = call.left /\ l # <<>>
    BY DEF Gather, TypeInv, CallTyped, CallOf
  <2>2. Head(l) \in Projects /\ Tail(l) \in Seq(Projects)
    BY <2>1, HeadTailProperties
  <2> QED BY <1>1, <2>1, <2>2 DEF TypeInv, CallTyped
<1>4. /\ UNCHANGED <<storeVars, watch, view, used>>
      /\ HoldExisting(p)
      /\ lists' = [lists EXCEPT ![p] = IF there[p] THEN CaughtUp(p) ELSE @]
      /\ moved' \in BOOLEAN
      /\ unread' = (unread \/ call.subscriber) \/ unread' = unread
      /\ answer'.kind \in {"none", "failed"}
      /\ \/ call' = Idle
         \/ call' = [call EXCEPT
              !.left = Tail(@), !.rows = @ \cup [project: {p}, task: found],
              !.reached = @ \cup (IF there[p] THEN {p} ELSE {}),
              !.pc = IF Len(call.left) = 1 THEN "answer" ELSE "gather"]
  BY <1>1, <1>2 DEF Gather, CallFails, NoAnswer
<1>5. ASSUME NEW h \in Harps
      PROVE  LET next == Projected(p, h) IN
             /\ TaskKept(next.streams) /\ TaskKept(next.entries) /\ TaskKept(next.unpurged)
             /\ next.at.birth \in Nat /\ next.at.birth <= births[p][h]
             /\ next.at.pages \in Nat
             /\ next.at.birth = births[p][h] => next.at.pages <= Len(streams[p][h])
  BY <1>3, ProjectedTyped DEF TypeInv, TablesTyped
<1>6. ASSUME NEW h \in Harps
      PROVE  /\ CaughtUp(p).streams[h] = Projected(p, h).streams
             /\ CaughtUp(p).entries[h] = Projected(p, h).entries
             /\ CaughtUp(p).unpurged[h] = Projected(p, h).unpurged
             /\ CaughtUp(p).at[h] = Projected(p, h).at
  BY DEF CaughtUp
<1>7. ASSUME NEW q \in Projects, NEW h \in Harps PROVE HarpTyped(q, h)'
  <2>1. HarpTyped(q, h) /\ lists = [r \in Projects |-> lists[r]]
    BY DEF TypeInv, TablesTyped
  <2>2. CASE q = p /\ there[p]
    <3>1. lists'[q] = CaughtUp(p)
      BY <1>3, <1>4, <2>1, <2>2
    <3> QED BY <1>4, <1>5, <1>6, <2>1, <2>2, <3>1 DEF HarpTyped, storeVars
  <2>3. CASE ~(q = p /\ there[p])
    <3>1. lists'[q] = lists[q]
      BY <1>3, <1>4, <2>1, <2>3
    <3> QED BY <1>4, <2>1, <3>1 DEF HarpTyped, storeVars
  <2> QED BY <2>2, <2>3
<1>8. TablesTyped'
  BY <1>4, <1>7 DEF TypeInv, TablesTyped, storeVars
<1>9. found \subseteq TaskStates
  BY <1>2, <1>5, <1>6 DEF Entries, TaskKept
<1>10. CallTyped'
  <2>1. CASE call' = Idle
    BY <2>1, IdleTyped DEF CallTyped
  <2>2. CASE call' # Idle
    <3>1. PICK k : k = call'
      OBVIOUS
    <3>2. /\ IsCall(k) /\ k.query = call.query /\ k.left = Tail(call.left)
          /\ k.rows = call.rows \cup [project: {p}, task: found]
          /\ k.pc \in {"answer", "gather"}
      BY <1>3, <1>4, <2>2, <3>1 DEF CallOf, IsCall
    <3>3. [project: {p}, task: found] \subseteq Rows
      BY <1>3, <1>9 DEF Rows
    <3>4. CallOf(k)
      BY <1>3, <3>2, <3>3 DEF CallOf
    <3> QED BY <3>1, <3>4 DEF CallTyped
  <2> QED BY <2>1, <2>2
<1>11. HeldTyped'
  BY <1>3, <1>4, HoldTyped
<1>12. WatchTyped' /\ UsedTyped' /\ AnswerTyped'
  BY <1>4 DEF TypeInv, WatchTyped, UsedTyped, AnswerTyped
<1> QED BY <1>8, <1>10, <1>11, <1>12 DEF TypeInv

LEMMA RespondTyped ==
  ASSUME TypeInv, Respond
  PROVE  TypeInv'
<1>1. /\ UNCHANGED <<storeVars, lists, held, watch, moved, unread, used>>
      /\ call' = Idle
      /\ answer' = Answered(call.query, call.rows, call.every)
  BY DEF Respond, watchVars
<1>2. PICK q \in Queries : q = call.query
  BY DEF TypeInv, CallTyped, CallOf
<1>3. q.kind \in Kinds
  BY <1>2 DEF Queries, Kinds
<1>4. answer'.kind \in Kinds \cup {"refused"}
  BY <1>1, <1>2, <1>3 DEF Answered, Refusal, Kinds
<1>5. CallTyped'
  BY <1>1, IdleTyped DEF CallTyped
<1>6. WatchTyped' /\ HeldTyped' /\ UsedTyped'
  BY <1>1 DEF TypeInv, WatchTyped, HeldTyped, UsedTyped
<1>7. TablesTyped'
  BY <1>1, AsideTyped
<1> QED BY <1>4, <1>5, <1>6, <1>7 DEF TypeInv, AnswerTyped

LEMMA InitTyped == Init => TypeInv
<1> SUFFICES ASSUME Init PROVE TypeInv
  OBVIOUS
<1>1. /\ streams = HeldAtFirst
      /\ there = [p \in Projects |-> \E h \in Harps : streams[p][h] # <<>>]
      /\ births = [p \in Projects |-> [h \in Harps |-> 0]]
      /\ lists = [p \in Projects |-> EmptyList]
      /\ held = NoStore /\ call = Idle /\ answer = NoAnswer /\ watch = WatchOff
      /\ moved = FALSE /\ unread = FALSE
      /\ used = [writes |-> 0, reads |-> 0, fails |-> 0]
  BY DEF Init
<1>2. IsTable(streams) /\ IsTable(births) /\ \A p \in Projects : \A h \in Harps : IsStream(streams[p][h])
  BY InitLists DEF ListInv, ListSound, StreamSound
<1>3. ASSUME NEW p \in Projects, NEW h \in Harps PROVE StreamTyped(streams[p][h])
  <2> DEFINE E == TaskEvents \cup {Unreadable}
             P == [event: E, recorded_at: Int]
  <2>1. PICK s : s = streams[p][h]
    OBVIOUS
  <2>2. s \in Seq(P)
    <3>1. HeldAtFirst \in [Projects -> [Harps -> Seq(P)]]
      BY StreamsAssumption
    <3> HIDE DEF P
    <3> QED BY <1>1, <2>1, <3>1
  <2>3. ASSUME NEW i \in DOMAIN s, s[i].event.type \in {"TaskAdded", "StatusChanged"}
        PROVE  DeferralSet(s[i].event)
    <3>1. s # <<>>
      BY <2>2
    <3>2. s = HeldAtFirst[p][h]
      BY <1>1, <2>1
    <3> QED BY <2>3, <3>1, <3>2, StreamsAssumption
  <2>4. \A page \in P : /\ page.event \in TaskEvents \/ page.event = Unreadable
                        /\ page.recorded_at \in Int
    OBVIOUS
  <2> HIDE DEF P, E
  <2>5. \A i \in DOMAIN s : s[i] \in P
    BY <2>2
  <2>6. \A i \in DOMAIN s : PageTyped(s[i])
    BY <2>3, <2>4, <2>5 DEF PageTyped, IsTyped, IsUnread
  <2> QED BY <1>2, <2>1, <2>6 DEF StreamTyped
<1>4. ASSUME NEW p \in Projects, NEW h \in Harps PROVE HarpTyped(p, h)
  <2>1. /\ births[p][h] = 0 /\ used.writes = 0
        /\ lists[p].streams[h] = NoTask /\ lists[p].entries[h] = NoTask
        /\ lists[p].unpurged[h] = NoTask
        /\ lists[p].at[h].birth = 0 /\ lists[p].at[h].pages = 0
    BY <1>1 DEF EmptyList, NoEntry
  <2>2. Len(streams[p][h]) \in Nat
    BY <1>2 DEF IsStream
  <2> QED BY <1>3, <2>1, <2>2, NoneKept DEF HarpTyped
<1>5. TablesTyped
  <2>1. there \in [Projects -> BOOLEAN] /\ lists = [p \in Projects |-> lists[p]]
    BY <1>1
  <2> QED BY <1>2, <1>4, <2>1 DEF TablesTyped
<1>6. HeldTyped
  BY <1>1 DEF HeldTyped, NoStore
<1>7. CallTyped
  BY <1>1, IdleTyped DEF CallTyped
<1>8. WatchTyped
  <2>1. NoBurst \in NoBurst..(CeilingTicks - 1)
    BY ReadersAssumption DEF NoBurst
  <2> QED BY <1>1, <2>1 DEF WatchTyped, WatchOff
<1>9. UsedTyped /\ AnswerTyped
  BY <1>1, ReadersAssumption DEF UsedTyped, AnswerTyped, NoAnswer
<1> QED BY <1>5, <1>6, <1>7, <1>8, <1>9 DEF TypeInv

LEMMA NextTyped ==
  ASSUME TypeInv, [Next]_vars
  PROVE  TypeInv'
<1>1. CASE UNCHANGED vars
  <2>1. TablesTyped'
    BY <1>1, AsideTyped DEF vars, storeVars
  <2>2. HeldTyped' /\ CallTyped' /\ WatchTyped'
    BY <1>1 DEF vars, TypeInv, HeldTyped, CallTyped, WatchTyped
  <2>3. UsedTyped' /\ AnswerTyped'
    BY <1>1 DEF vars, TypeInv, UsedTyped, AnswerTyped
  <2> QED BY <2>1, <2>2, <2>3 DEF TypeInv
<1> QED BY <1>1, WriteTyped, WriteNewerTyped, PurgeTyped, AskTyped, WatchStepsTyped, GatherTyped,
           RespondTyped, FailTyped DEF Next

\* Every list and every row gathered is of tasks, every page of a stream an
\* event or one that cannot be read, and every burst short of its ceiling: of
\* any commands and queries, whatever is purged, begun again and left unread,
\* and whether or not a newer version purges what this one cannot read.
THEOREM ReadsStayTyped == Spec => []TypeOK
<1>1. TypeInv => TypeOK
  <2> SUFFICES ASSUME TypeInv PROVE TypeOK
    OBVIOUS
  <2>1. ASSUME NEW p \in Projects, NEW h \in Harps
        PROVE  /\ births[p][h] \in 0..MaxWrites
               /\ \A i \in DOMAIN streams[p][h] :
                    streams[p][h][i].event \in TaskEvents \cup {Unreadable}
               /\ lists[p].at[h].birth <= births[p][h]
               /\ {lists[p].streams[h], lists[p].entries[h], lists[p].unpurged[h]}
                    \subseteq TaskStates
    <3>1. HarpTyped(p, h)
      BY DEF TypeInv, TablesTyped
    <3>2. used.writes \in 0..MaxWrites /\ MaxWrites \in Nat
      BY ReadersAssumption DEF TypeInv, UsedTyped
    <3>3. births[p][h] \in 0..MaxWrites
      BY <3>1, <3>2 DEF HarpTyped
    <3> QED BY <3>1, <3>3 DEF HarpTyped, StreamTyped, PageTyped, IsTyped, IsUnread, TaskKept
  <2>2. there \in [Projects -> BOOLEAN]
    BY DEF TypeInv, TablesTyped
  <2>3. held.project \in Projects \cup {NoProject} /\ held.writable \in BOOLEAN
    BY DEF TypeInv, HeldTyped
  <2>4. call.pc \in {"idle", "gather", "answer"} /\ \A r \in call.rows : r \in Rows
    BY DEF TypeInv, CallTyped, CallOf
  <2>5. answer.kind \in {"none", "refused", "failed", "list", "show", "tags", "summary",
                         "statuses", "lint"}
    BY DEF TypeInv, AnswerTyped, Kinds
  <2>6. /\ watch.pc \in {"off", "on", "ended"} /\ watch.burst \in NoBurst..(CeilingTicks - 1)
        /\ {moved, unread} \subseteq BOOLEAN
    BY DEF TypeInv, WatchTyped
  <2>7. /\ used.writes \in 0..MaxWrites /\ used.reads \in 0..MaxReads
        /\ used.fails \in 0..MaxFails
    BY DEF TypeInv, UsedTyped
  <2> QED BY <2>1, <2>2, <2>3, <2>4, <2>5, <2>6, <2>7 DEF TypeOK
<1> QED BY <1>1, InitTyped, NextTyped, PTL DEF Spec
=============================================================================
