------------------------------- MODULE TaskLog -------------------------------
(***************************************************************************)
(* A project's JSONL task log, as the import reads it: its lines, the      *)
(* order they replay in, and the log's fold, which decides what each       *)
(* record comes to: a command to send, or why none is sent.                *)
(*                                                                         *)
(* A record is its line: two lines alike are one record.  A tag is logged  *)
(* under a spelling; TagOf says which tag a spelling is, if it is one an   *)
(* import may bring over.  A string logged empty is Empty.                 *)
(***************************************************************************)
EXTENDS TaskRules, Sequences, SequencesExt, FiniteSetsExt

CONSTANTS
  Spellings,  \* the spellings tags are logged under
  TagOf,      \* spelling -> its tag, or RefusedTag
  MaxTs       \* bound: the instants records are logged at, 1..MaxTs

RefusedTag == "<refused tag>"
NoKey == "<no key>"          \* an add that repairs none
Malformed == [op |-> "malformed"]
BlankLine == [op |-> "blank"]

Instants == 1..MaxTs
Keys == [task: Harps, text: Texts \cup {Blank}, ts: Instants]
Ops == {"add", "status", "text", "remove", "tag", "untag"}
LogRecords ==
  [op: Ops, task: Harps, text: Texts \cup {Blank}, status: Statuses \cup {Empty, Blank},
   trigger: Triggers \cup {Empty, Blank}, tags: SUBSET Spellings,
   repair_of: Keys \cup {[task |-> NoKey]}, ts: Instants]

ASSUME LogAssumption ==
  /\ TagOf \in [Spellings -> TagNames \cup {RefusedTag}]
  /\ RefusedTag \notin TagNames

------------------------------------------------------------------------------
(* Reading. *)

\* A log with a line that is no record is not read at all; blank lines are
\* skipped.
Readable(log) == \A i \in DOMAIN log : log[i] # Malformed
Parsed(log) == {i \in DOMAIN log : log[i] # BlankLine}

\* The lines that are not an earlier one again, and of two which replays first.
Distinct(log) == {i \in Parsed(log) : \A j \in 1..(i - 1) : log[j] # log[i]}
ReplaysBefore(log, i) ==
  {j \in Distinct(log) : log[j].ts < log[i].ts \/ (log[j].ts = log[i].ts /\ j < i)}

\* Each record once, by its instant, the log breaking ties.
ReplayOrder(log) ==
  [n \in 1..Cardinality(Distinct(log)) |->
     log[CHOOSE i \in Distinct(log) : Cardinality(ReplaysBefore(log, i)) = n - 1]]

AnomalyKey(r) == [task |-> r.task, text |-> r.text, ts |-> r.ts]

\* The displaced adds that repair adds anywhere in the log name.
RepairedBy(records) ==
  {r.repair_of : r \in {s \in Range(records) : s.op = "add"}} \ {[task |-> NoKey]}

------------------------------------------------------------------------------
(* The fold. *)

NewFold ==
  [issued |-> {}, live |-> {}, tags |-> [h \in Harps |-> {}],
   triggers |-> [h \in Harps |-> Empty], missing |-> {}]

LeftOut(value) == IF value = Empty THEN Absent ELSE value

\* Mutant of Trimmed: a trigger logged blank is held so.
Untrimmed(trigger) == trigger

Trimmed(trigger) == IF trigger = Blank THEN Empty ELSE trigger

\* The trigger a record's command gives, of the one the log holds.
DeferringOn(status, held) == IF status = Defers THEN LeftOut(held) ELSE Absent

Importable(spelled) == {TagOf[s] : s \in spelled} \ {RefusedTag}
RefusedOf(spelled) == {s \in spelled : TagOf[s] = RefusedTag}

Run(command) == [kind |-> "run", command |-> command]
Lost(why) == [kind |-> "lost", why |-> why]
Stepping(fold, step, refused) == [fold |-> fold, step |-> step, refused |-> refused]

\* Mutant of AddStepped: a displaced add is passed over as the fold does.
AddPassedOver(fold, repaired, r) ==
  IF r.task \in fold.issued THEN Stepping(fold, [kind |-> "ignored"], {})
  ELSE Stepping(
    [fold EXCEPT !.issued = @ \cup {r.task}, !.live = @ \cup {r.task},
                 !.tags[r.task] = r.tags, !.triggers[r.task] = Trimmed(r.trigger)],
    Run([type |-> "AddTask", harp_id |-> r.task, text |-> r.text, status |-> LeftOut(r.status),
         trigger |-> DeferringOn(r.status, Trimmed(r.trigger)), tags |-> Importable(r.tags)]),
    RefusedOf(r.tags))

\* An add: the task, unless the harp is already issued.
AddStepped(fold, repaired, r) ==
  IF r.task \in fold.issued
    THEN Stepping(fold, IF AnomalyKey(r) \in repaired THEN [kind |-> "repaired"]
                        ELSE Lost("Displaced"), {})
  ELSE Stepping(
    [fold EXCEPT !.issued = @ \cup {r.task}, !.live = @ \cup {r.task},
                 !.tags[r.task] = r.tags, !.triggers[r.task] = Trimmed(r.trigger)],
    Run([type |-> "AddTask", harp_id |-> r.task, text |-> r.text, status |-> LeftOut(r.status),
         trigger |-> DeferringOn(r.status, Trimmed(r.trigger)), tags |-> Importable(r.tags)]),
    RefusedOf(r.tags))

\* A tag or untag takes the task from the tags logged before to those after.
RetagStepped(fold, r) ==
  LET held == fold.tags[r.task]
      after == IF r.op = "tag" THEN held \cup r.tags ELSE held \ r.tags
      add == Importable(after) \ Importable(held)
      remove == Importable(held) \ Importable(after) IN
  Stepping([fold EXCEPT !.tags[r.task] = after],
           IF add \cup remove # {} THEN Run([type |-> "Retag", add |-> add, remove |-> remove])
           ELSE IF RefusedOf(r.tags) # {} THEN [kind |-> "nothing left"]
           ELSE [kind |-> "unchanged"],
           RefusedOf(r.tags))

\* A status, deferring on the trigger the log holds, kept until another is given.
StatusStepped(fold, r) ==
  LET held == IF r.trigger = Empty THEN fold.triggers[r.task] ELSE Trimmed(r.trigger) IN
  Stepping([fold EXCEPT !.triggers[r.task] = held],
           Run([type |-> "SetStatus", status |-> LeftOut(r.status),
                trigger |-> DeferringOn(r.status, held)]), {})

RemoveStepped(fold, r) ==
  Stepping([fold EXCEPT !.live = @ \ {r.task}, !.triggers[r.task] = Empty],
           Run([type |-> "RemoveTask", reason |-> "Removed"]), {})

\* The step of a record to a task whose add was not imported: the fold goes on,
\* and nothing is sent.
UnlessMissing(stepped, r) ==
  IF r.task \in stepped.fold.missing
    THEN Stepping(stepped.fold, Lost("TaskNotImported"), {})
    ELSE stepped

Stepped(fold, repaired, r) ==
  IF r.op = "add" THEN AddStepped(fold, repaired, r)
  ELSE IF r.task \notin fold.live THEN Stepping(fold, [kind |-> "ignored"], {})
  ELSE UnlessMissing(
    CASE r.op \in {"tag", "untag"} -> RetagStepped(fold, r)
      [] r.op = "status" -> StatusStepped(fold, r)
      [] r.op = "text"   -> Stepping(fold, Run([type |-> "EditText", text |-> r.text]), {})
      [] OTHER -> RemoveStepped(fold, r), r)  \* a remove

------------------------------------------------------------------------------
(* What the log says of a task, told without the fold: of the records to a *)
(* harp from its first add to its removal, the last that says a thing.     *)

Adds(records, h) == {i \in DOMAIN records : records[i].op = "add" /\ records[i].task = h}

Of(records, h) ==
  LET first == Min(Adds(records, h))
      removes == {i \in DOMAIN records :
                    i > first /\ records[i].op = "remove" /\ records[i].task = h}
      end == IF removes = {} THEN Len(records) + 1 ELSE Min(removes)
      mine == {i \in first..(end - 1) :
                 records[i].task = h /\ (records[i].op = "add" => i = first)} IN
  [first |-> first, removed |-> removes # {}, mine |-> mine]

LoggedTask(records, h) ==
  LET of == Of(records, h)
      saying(ops) == {i \in of.mine : records[i].op \in ops \cup {"add"}}
      last(ops) == records[Max(saying(ops))]
      triggered == {i \in saying({"status"}) : records[i].trigger # Empty}
      deferred == {i \in saying({"status"}) : records[i].status = Defers}
      status == last({"status"}).status
      tagged == {s \in Spellings :
        LET about == {i \in saying({"tag", "untag"}) :
                        records[i].op = "add" \/ s \in records[i].tags}
        IN records[Max(about)].op # "untag" /\ s \in records[Max(about)].tags} IN
  [text |-> last({"text"}).text,
   status |-> IF status = Empty THEN Initial ELSE status,
   trigger |-> IF status = Defers THEN records[Max(triggered)].trigger ELSE Empty,
   tags |-> Importable(tagged),
   created_at |-> records[of.first].ts,
   status_set_at |-> last({"status"}).ts,
   deferred_since |-> IF deferred = {} THEN Never ELSE records[Max(deferred)].ts,
   removed |-> of.removed]
=============================================================================
