----------------------------- MODULE LoggedTasks ------------------------------
(***************************************************************************)
(* What a log says of a task, by its records alone and without folding     *)
(* them: which of them the task takes, and with what trigger they defer    *)
(* it.  LoggedInOrder and DeferralsAlike are what the logs must be for the *)
(* tasks of an import to be what they say.                                 *)
(***************************************************************************)
EXTENDS JsonlImport

\* What of a log's records, replayed, its task of harp h takes: its first add
\* and, until it is removed, what is logged of it.
IsAdd(r, h) == r.op = "add" /\ r.task = h
FirstAdd(R, h, a) ==
  a \in 1..Len(R) /\ IsAdd(R[a], h) /\ \A b \in 1..(a - 1) : ~IsAdd(R[b], h)
Takes(R, h, n) ==
  /\ n \in 1..Len(R) /\ R[n].task = h
  /\ \E a \in 1..n :
       /\ FirstAdd(R, h, a)
       /\ R[n].op = "add" => n = a
       /\ \A b \in a..(n - 1) : ~(R[b].op = "remove" /\ R[b].task = h)

\* Of the first n records, those it takes that say a thing; the last of some.
Says(R, h, n, ops) == {m \in 1..n : Takes(R, h, m) /\ R[m].op \in ops}
IsLast(m, S) == m \in S /\ \A k \in S : k <= m

\* The records that bring a trigger; whether the last leaves one to defer on.
Triggering(R, h, n) == {m \in Says(R, h, n, {"add", "status"}) : R[m].trigger # Empty}
TriggeredAt(R, h, n) ==
  \E m \in 1..n : IsLast(m, Triggering(R, h, n)) /\ R[m].trigger # Blank
DefersTask(r) == r.op \in {"add", "status"} /\ r.status = Defers

\* The log defers the task with no trigger, each time it does.
NeverTriggered(R, h) ==
  \A m \in 1..Len(R) : Takes(R, h, m) /\ DefersTask(R[m]) => ~TriggeredAt(R, h, m)

\* What of the log is ever replayed.
ReadableTo(lines) ==
  CHOOSE n \in 0..Len(lines) :
    /\ Readable(SubSeq(lines, 1, n))
    /\ \A m \in (n + 1)..Len(lines) : ~Readable(SubSeq(lines, 1, m))
Final(l) ==
  IF l.lines = NoLog THEN <<>> ELSE ReplayOrder(SubSeq(l.lines, 1, ReadableTo(l.lines)))

\* What is appended to a log after the start is of no earlier instant than the
\* lines before it.
LoggedInOrder ==
  \A first \in LogsAtFirst, p \in Projects :
    LET l == first[p] IN
    \A j \in (l.written + 1)..Len(l.lines), i \in 1..Len(l.lines) :
      i < j /\ {l.lines[i], l.lines[j]} \subseteq LogRecords => l.lines[i].ts <= l.lines[j].ts

\* Each deferral of a task has a trigger, or none has.
DeferralsAlike ==
  \A first \in LogsAtFirst, p \in Projects, h \in Harps :
    LET R == Final(first[p]) IN
    \/ NeverTriggered(R, h)
    \/ \A m \in 1..Len(R) : Takes(R, h, m) /\ DefersTask(R[m]) => TriggeredAt(R, h, m)
===============================================================================
