------------------------- MODULE JsonlImport_proofs -------------------------
(***************************************************************************)
(* For any logs, users, projects and importers, stopping anywhere:         *)
(*                                                                         *)
(*   - a task a user added under a harp that a log issues too is never     *)
(*     written to by an import.  An import sends nothing to a task whose   *)
(*     add it saw refused; the invariant (IInv) says the rest of what it   *)
(*     has added it wrote itself, over the steps between its fold of a     *)
(*     record and the record's command;                                    *)
(*   - what an import has reported is not recorded again, but for tags and *)
(*     untags, and an import that says it left nothing behind left no add  *)
(*     behind.  The invariant (ReadInv) follows each record from its log's *)
(*     lines, over the order they replay in, to its page, and says of an   *)
(*     import half done what is so of the records it has gone past.        *)
(*   - after an import of a whole log, a task only imports wrote is what   *)
(*     the log says it is, where the logs are as LoggedTasks asks.  The    *)
(*     invariant (AgreeInv) says what the records gone past make of an     *)
(*     import's fold, that the pages of a stream are those of its task's   *)
(*     records in their turn, and what an import has reported of the ones  *)
(*     the task could not take.                                            *)
(***************************************************************************)
EXTENDS LoggedTasks, SequenceTheorems, FiniteSetTheorems, FunctionTheorems, WellFoundedInduction, TLAPS

\* A stream is a sequence of pages, whatever they are.
IsStream(s) == s \in Seq({s[i] : i \in DOMAIN s})
StreamsSound ==
  /\ streams = [p \in Projects |-> [h \in Harps |-> streams[p][h]]]
  /\ \A p \in Projects, h \in Harps : IsStream(streams[p][h])

\* A log's record began the stream.
Logged(s) == s # <<>> /\ s[1].id # User

\* A user began it, and wrote all of it.
Users(s) == s # <<>> /\ s[1].id = User => \A i \in DOMAIN s : s[i].id = User

\* A fold, a report and an import have their fields.
IsFold(f) ==
  f \in [issued: {f.issued}, live: {f.live}, tags: {f.tags}, triggers: {f.triggers},
         missing: {f.missing}]
IsReport(r) ==
  r \in [records: {r.records}, failed: {r.failed}, applied: {r.applied}, already: {r.already},
         passed: {r.passed}, repaired: {r.repaired}, lost: {r.lost}]
IsImport(k) ==
  /\ k \in [pc: {k.pc}, left: {k.left}, at: {k.at}, fold: {k.fold}, report: {k.report},
            whole: {k.whole}]
  /\ IsFold(k.fold)
  /\ IsReport(k.report)

\* The tasks a fold issued and does not miss were added from the log.
FoldSound(f, p, all) ==
  /\ f.live \subseteq f.issued
  /\ p \in Projects =>
       \A h \in Harps : h \in f.issued \ f.missing => Logged(all[p][h])

StepOf(k) == Stepped(k.fold, RepairedBy(k.report.records), k.report.records[k.at])

\* Import k, by the streams `all`.
ImportSound(k, all) ==
  /\ IsImport(k)
  /\ k.pc \in {"step", "run"} => FoldSound(k.fold, Head(k.left), all)
  /\ k.pc = "run" => StepOf(k).step.kind = "run"

IInv ==
  /\ StreamsSound
  /\ \A p \in Projects, h \in Harps : Users(streams[p][h])
  /\ importer = [i \in Importers |-> importer[i]]
  /\ \A i \in Importers : ImportSound(importer[i], streams)

------------------------------------------------------------------------------
(* Streams.                                                                 *)

\* A page appended.
LEMMA AppendedPage ==
  ASSUME NEW s, IsStream(s), NEW page
  PROVE  /\ IsStream(Append(s, page))
         /\ Append(s, page) # <<>>
         /\ s # <<>> => Append(s, page)[1] = s[1]
         /\ s = <<>> => Append(s, page)[1] = page
         /\ \A i \in DOMAIN Append(s, page) :
              Append(s, page)[i] = page \/ (i \in DOMAIN s /\ Append(s, page)[i] = s[i])
<1> DEFINE S == {s[i] : i \in DOMAIN s} \cup {page}
           t == Append(s, page)
<1>1. s \in Seq(S)
  BY DEF IsStream
<1>2. /\ t \in Seq(S) /\ t # <<>> /\ Len(t) = Len(s) + 1
      /\ \A i \in 1..Len(s) : t[i] = s[i]
      /\ t[Len(s) + 1] = page
  BY <1>1, AppendProperties
<1>3. DOMAIN s = 1..Len(s) /\ DOMAIN t = 1..(Len(s) + 1) /\ Len(s) \in Nat
  BY <1>1, <1>2
<1>4. IsStream(t)
  <2>1. \A i \in 1..Len(t) : t[i] \in {t[j] : j \in DOMAIN t}
    BY <1>2, <1>3
  <2> QED BY <1>2, <1>3, <2>1, IsASeq DEF IsStream
<1>5. s = <<>> <=> Len(s) = 0
  BY <1>1, EmptySeq
<1> QED BY <1>2, <1>3, <1>4, <1>5

\* A stream grown is still a log's or a user's, if what is appended to a log's
\* is anything, and to a user's the user's.
LEMMA GrownStream ==
  ASSUME NEW s, IsStream(s), Users(s), NEW page,
         page.id = User \/ s = <<>> \/ Logged(s)
  PROVE  /\ IsStream(Append(s, page))
         /\ Users(Append(s, page))
         /\ Logged(s) => Logged(Append(s, page))
         /\ s = <<>> /\ page.id # User => Logged(Append(s, page))
BY AppendedPage DEF Users, Logged

\* A page appended to any one stream, the log's own where a log's or none is.
LEMMA GrownStreams ==
  ASSUME IInv, NEW p, NEW h, NEW page,
         streams' = [streams EXCEPT ![p][h] = Append(@, page)],
         p \in Projects /\ h \in Harps =>
           page.id = User \/ streams[p][h] = <<>> \/ Logged(streams[p][h])
  PROVE  /\ StreamsSound'
         /\ \A q \in Projects, g \in Harps :
              /\ Users(streams'[q][g])
              /\ Logged(streams[q][g]) => Logged(streams'[q][g])
         /\ p \in Projects /\ h \in Harps /\ streams[p][h] = <<>> /\ page.id # User =>
              Logged(streams'[p][h])
<1>1. ASSUME NEW q \in Projects, NEW g \in Harps
      PROVE  streams'[q][g] = IF q = p /\ g = h THEN Append(streams[p][h], page)
                              ELSE streams[q][g]
  BY DEF IInv, StreamsSound
<1>2. streams' = [q \in Projects |-> [g \in Harps |-> streams'[q][g]]]
  BY DEF IInv, StreamsSound
<1>3. ASSUME NEW q \in Projects, NEW g \in Harps
      PROVE  /\ IsStream(streams'[q][g])
             /\ Users(streams'[q][g])
             /\ Logged(streams[q][g]) => Logged(streams'[q][g])
  <2>1. IsStream(streams[q][g]) /\ Users(streams[q][g])
    BY DEF IInv, StreamsSound
  <2>2. CASE q = p /\ g = h
    BY <1>1, <2>1, <2>2, GrownStream
  <2>3. CASE ~(q = p /\ g = h)
    BY <1>1, <2>1, <2>3
  <2> QED BY <2>2, <2>3
<1>4. ASSUME p \in Projects, h \in Harps, streams[p][h] = <<>>, page.id # User
      PROVE  Logged(streams'[p][h])
  <2>1. IsStream(streams[p][h]) /\ Users(streams[p][h])
    BY <1>4 DEF IInv, StreamsSound
  <2>2. streams'[p][h] = Append(streams[p][h], page)
    BY <1>1, <1>4
  <2>3. Logged(Append(streams[p][h], page))
    BY <1>4, <2>1, GrownStream
  <2> QED BY <2>2, <2>3
<1> QED BY <1>2, <1>3, <1>4 DEF StreamsSound

------------------------------------------------------------------------------
(* Folds.                                                                   *)

\* What a record's step does to the fold, and when it sends a command.
LEMMA SteppedFold ==
  ASSUME NEW f, IsFold(f), f.live \subseteq f.issued, NEW repaired, NEW r
  PROVE  LET st == Stepped(f, repaired, r) IN
         /\ IsFold(st.fold)
         /\ st.fold.live \subseteq st.fold.issued
         /\ st.fold.missing = f.missing
         /\ st.fold.issued = f.issued
              \/ (r.op = "add" /\ st.step.kind = "run" /\ st.fold.issued = f.issued \cup {r.task})
         /\ st.step.kind = "run" =>
              IF r.op = "add" THEN st.step.command.type = "AddTask"
              ELSE r.task \in f.issued \ f.missing
<1>1. CASE r.op = "add"
  BY <1>1 DEF Stepped, AddStepped, Stepping, Run, Lost, IsFold
<1>2. CASE r.op # "add" /\ r.task \notin f.live
  BY <1>2 DEF Stepped, Stepping, IsFold
<1>3. CASE r.op # "add" /\ r.task \in f.live
  <2> DEFINE unless == CASE r.op \in {"tag", "untag"} -> RetagStepped(f, r)
                        [] r.op = "status" -> StatusStepped(f, r)
                        [] r.op = "text"   ->
                             Stepping(f, Run([type |-> "EditText", text |-> r.text]), {})
                        [] OTHER -> RemoveStepped(f, r)
  <2>1. /\ IsFold(unless.fold) /\ unless.fold.live \subseteq f.live
        /\ unless.fold.missing = f.missing /\ unless.fold.issued = f.issued
    <3>1. CASE r.op \in {"tag", "untag"}
      BY <3>1 DEF RetagStepped, Stepping, IsFold
    <3>2. CASE r.op = "status"
      BY <3>2 DEF StatusStepped, Stepping, IsFold
    <3>3. CASE r.op = "text"
      BY <3>3 DEF Stepping, IsFold
    <3>4. CASE r.op \notin {"tag", "untag", "status", "text"}
      BY <3>4 DEF RemoveStepped, Stepping, IsFold
    <3> QED BY <3>1, <3>2, <3>3, <3>4
  <2>2. Stepped(f, repaired, r) = UnlessMissing(unless, r)
    BY <1>3 DEF Stepped
  <2> HIDE DEF unless
  <2> QED BY <1>3, <2>1, <2>2 DEF UnlessMissing, Stepping, Lost
<1> QED BY <1>1, <1>2, <1>3

\* An add is decided on a free harp, and there, where it is taken, recorded.
LEMMA AddDecided ==
  ASSUME NEW held, NEW taken \in BOOLEAN, NEW command, command.type = "AddTask"
  PROVE  LET decision == Decide(held, taken, command) IN
         /\ Records(decision) => ~taken
         /\ decision.refusal = Sound => ~taken /\ Records(decision)
<1>1. Decide(held, taken, command) = DecideAdd(taken, command)
  BY DEF Decide
<1> QED BY <1>1 DEF DecideAdd, Records, Refused, Recorded, NoEvent, TaskAddedOf, Sound

\* Streams that stay the log's leave a fold sound.
LEMMA ImportStays ==
  ASSUME NEW k, NEW all, NEW next, ImportSound(k, all),
         \A p \in Projects, h \in Harps : Logged(all[p][h]) => Logged(next[p][h])
  PROVE  ImportSound(k, next)
BY DEF ImportSound, FoldSound

------------------------------------------------------------------------------
(* Imports.                                                                 *)

\* An import moves, and leaves the streams, and itself by them, sound.
LEMMA ImportMoves ==
  ASSUME IInv, NEW i \in Importers, NEW k, importer' = [importer EXCEPT ![i] = k],
         ImportSound(k, streams'), StreamsSound',
         \A p \in Projects, h \in Harps :
           Users(streams'[p][h]) /\ (Logged(streams[p][h]) => Logged(streams'[p][h]))
  PROVE  IInv'
<1>1. \A j \in Importers : importer'[j] = IF j = i THEN k ELSE importer[j]
  BY DEF IInv
<1>2. \A j \in Importers : ImportSound(importer[j], streams')
  BY ImportStays DEF IInv
<1>3. importer' = [j \in Importers |-> importer'[j]]
  BY DEF IInv
<1> QED BY <1>1, <1>2, <1>3 DEF IInv

\* Done with a project, an import knows nothing of the next one yet.
LEMMA BetweenSound ==
  ASSUME NEW k, NEW all, IsImport(k), k.pc \notin {"step", "run"}
  PROVE  ImportSound(k, all)
BY DEF ImportSound

LEMMA IdleSound == IsImport(Idle) /\ IsFold(NewFold) /\ IsReport(NewReport)
BY DEF IsImport, IsFold, IsReport, Idle, NewFold, NewReport

\* Streams as they were are as sound as they were.
LEMMA StreamsStay ==
  ASSUME IInv, streams' = streams
  PROVE  /\ StreamsSound'
         /\ \A p \in Projects, h \in Harps :
              Users(streams'[p][h]) /\ (Logged(streams[p][h]) => Logged(streams'[p][h]))
BY DEF IInv, StreamsSound

\* On to the next project, or over.
LEMMA NextProjectSound ==
  ASSUME IInv, NEW i \in Importers, NEW report, IsReport(report), NextProject(i, report),
         StreamsSound',
         \A p \in Projects, h \in Harps :
           Users(streams'[p][h]) /\ (Logged(streams[p][h]) => Logged(streams'[p][h]))
  PROVE  IInv'
<1> DEFINE left == IF Len(importer[i].left) = 1 THEN <<Project(i)>> ELSE Tail(importer[i].left)
           pc == IF Len(importer[i].left) = 1 THEN "done" ELSE "read"
           whole == importer[i].whole /\ Complete(report)
           k == [Idle EXCEPT !.left = left, !.pc = pc, !.report = report, !.whole = whole]
<1>1. importer' = [importer EXCEPT ![i] = k]
  BY DEF NextProject
<1>2. pc \notin {"step", "run"}
  OBVIOUS
<1> HIDE DEF left, pc, whole
<1>3. IsImport(k) /\ k.pc = pc
  BY IdleSound DEF Idle, IsImport
<1> HIDE DEF k
<1>4. ImportSound(k, streams')
  BY <1>2, <1>3, BetweenSound
<1> QED BY <1>1, <1>4, ImportMoves

\* On to the next record, its fold sound of the streams as they come to be.
LEMMA OnwardSound ==
  ASSUME IInv, NEW i \in Importers, NEW fold, NEW report,
         IsFold(fold), IsReport(report), Onward(i, fold, report),
         FoldSound(fold, Project(i), streams'), StreamsSound',
         \A p \in Projects, h \in Harps :
           Users(streams'[p][h]) /\ (Logged(streams[p][h]) => Logged(streams'[p][h]))
  PROVE  IInv'
<1>1. CASE NextProject(i, report)
  BY <1>1, NextProjectSound
<1>2. CASE importer' = [importer EXCEPT ![i].pc = "step", ![i].at = @ + 1,
                                        ![i].fold = fold, ![i].report = report]
  <2> DEFINE k == [importer[i] EXCEPT !.pc = "step", !.at = @ + 1, !.fold = fold,
                                      !.report = report]
  <2>1. importer' = [importer EXCEPT ![i] = k]
    BY <1>2
  <2>2. IsImport(importer[i])
    BY DEF IInv, ImportSound
  <2>3. IsImport(k) /\ k.pc = "step" /\ k.fold = fold /\ k.left = importer[i].left
    BY <2>2 DEF IsImport
  <2> HIDE DEF k
  <2>4. ImportSound(k, streams')
    BY <2>3 DEF ImportSound, Project
  <2> QED BY <2>1, <2>4, ImportMoves
<1> QED BY <1>1, <1>2 DEF Onward

\* A record found was recorded from the log: the stream is the log's.
LEMMA FoundLogged ==
  ASSUME IInv, NEW p \in Projects, NEW r, r.task \in Harps, Found(p, r)
  PROVE  Logged(streams[p][r.task])
<1> DEFINE s == streams[p][r.task]
<1>1. IsStream(s) /\ Users(s)
  BY DEF IInv, StreamsSound
<1>2. PICK n \in DOMAIN s : s[n].id = IdOf(r)
  BY DEF Found
<1>3. s # <<>>
  BY <1>2
<1>4. IdOf(r) # User
  BY DEF IdOf, User
<1> QED BY <1>1, <1>2, <1>3, <1>4 DEF Users, Logged

\* What is known of an import at a record.
LEMMA AtRecord ==
  ASSUME IInv, NEW i \in Importers, importer[i].pc \in {"step", "run"}
  PROVE  /\ IsImport(importer[i]) /\ IsFold(importer[i].fold) /\ IsReport(importer[i].report)
         /\ FoldSound(importer[i].fold, Project(i), streams)
         /\ Step(i) = StepOf(importer[i])
         /\ Step(i) = Stepped(importer[i].fold, RepairedBy(importer[i].report.records), Record(i))
         /\ IsFold(Step(i).fold)
         /\ Step(i).fold.live \subseteq Step(i).fold.issued
         /\ Step(i).fold.missing = importer[i].fold.missing
         /\ Step(i).fold.issued = importer[i].fold.issued
              \/ (/\ Record(i).op = "add" /\ Step(i).step.kind = "run"
                  /\ Step(i).fold.issued = importer[i].fold.issued \cup {Record(i).task})
         /\ Step(i).step.kind = "run" =>
              IF Record(i).op = "add" THEN Step(i).step.command.type = "AddTask"
              ELSE Record(i).task \in importer[i].fold.issued \ importer[i].fold.missing
<1>1. ImportSound(importer[i], streams)
  BY DEF IInv
<1>2. /\ IsImport(importer[i]) /\ IsFold(importer[i].fold) /\ IsReport(importer[i].report)
      /\ FoldSound(importer[i].fold, Project(i), streams)
  BY <1>1 DEF ImportSound, IsImport, Project
<1>3. Step(i) = Stepped(importer[i].fold, RepairedBy(importer[i].report.records), Record(i))
  BY DEF Step
<1>4. Step(i) = StepOf(importer[i])
  BY DEF Step, StepOf, Record
<1>5. importer[i].fold.live \subseteq importer[i].fold.issued
  BY <1>2 DEF FoldSound
<1> DEFINE f == importer[i].fold
           repaired == RepairedBy(importer[i].report.records)
           r == Record(i)
<1>6. Step(i) = Stepped(f, repaired, r) /\ IsFold(f) /\ f.live \subseteq f.issued
  BY <1>2, <1>3, <1>5
<1> HIDE DEF f, repaired, r
<1>7. /\ IsFold(Step(i).fold)
      /\ Step(i).fold.live \subseteq Step(i).fold.issued
      /\ Step(i).fold.missing = f.missing
      /\ Step(i).fold.issued = f.issued
           \/ (r.op = "add" /\ Step(i).step.kind = "run"
                /\ Step(i).fold.issued = f.issued \cup {r.task})
      /\ Step(i).step.kind = "run" =>
           IF r.op = "add" THEN Step(i).step.command.type = "AddTask"
           ELSE r.task \in f.issued \ f.missing
  BY <1>6, SteppedFold
<1> QED BY <1>2, <1>3, <1>4, <1>7 DEF f, r

------------------------------------------------------------------------------
(* The steps.                                                               *)

LEMMA InitSound == Init => IInv
<1> SUFFICES ASSUME Init PROVE IInv
  OBVIOUS
<1>1. IsStream(<<>>) /\ Users(<<>>)
  BY DEF IsStream, Users
<1>2. StreamsSound /\ \A p \in Projects, h \in Harps : Users(streams[p][h])
  BY <1>1 DEF Init, StreamsSound
<1>3. Idle.pc = "idle"
  BY DEF Idle
<1>4. ImportSound(Idle, streams)
  BY <1>3, IdleSound, BetweenSound
<1>5. /\ importer = [i \in Importers |-> importer[i]]
      /\ \A i \in Importers : ImportSound(importer[i], streams)
  BY <1>4 DEF Init
<1> QED BY <1>2, <1>5 DEF IInv

LEMMA UseSound == ASSUME IInv, Use PROVE IInv'
<1>1. PICK u \in UserCommands :
        LET decision == Decide(Task(u.project, u.harp), streams[u.project][u.harp] # <<>>,
                               u.command) IN
        /\ streams' = [streams EXCEPT ![u.project][u.harp] =
                         Append(@, [event |-> decision.event, id |-> User, at |-> UserAt])]
        /\ importer' = importer
  BY DEF Use
<1> DEFINE page == [event |-> Decide(Task(u.project, u.harp),
                                     streams[u.project][u.harp] # <<>>, u.command).event,
                    id |-> User, at |-> UserAt]
<1>2. streams' = [streams EXCEPT ![u.project][u.harp] = Append(@, page)]
  BY <1>1
<1>3. page.id = User
  OBVIOUS
<1> HIDE DEF page
<1>4. /\ StreamsSound'
      /\ \A q \in Projects, g \in Harps :
           Users(streams'[q][g]) /\ (Logged(streams[q][g]) => Logged(streams'[q][g]))
  BY <1>2, <1>3, GrownStreams
<1>5. \A i \in Importers : ImportSound(importer[i], streams')
  BY <1>4, ImportStays DEF IInv
<1> QED BY <1>1, <1>4, <1>5 DEF IInv

LEMMA StartImportSound == ASSUME IInv, NEW i \in Importers, StartImport(i) PROVE IInv'
<1>1. PICK left : importer' = [importer EXCEPT ![i] = [Idle EXCEPT !.pc = "read", !.left = left]]
  BY DEF StartImport
<1> DEFINE k == [Idle EXCEPT !.pc = "read", !.left = left]
<1>2. IsImport(k) /\ k.pc = "read"
  BY IdleSound DEF Idle, IsImport
<1>3. ImportSound(k, streams')
  BY <1>2, BetweenSound
<1>4. streams' = streams
  BY DEF StartImport
<1> QED BY <1>1, <1>3, <1>4, StreamsStay, ImportMoves

LEMMA ReadLogSound == ASSUME IInv, NEW i \in Importers, ReadLog(i) PROVE IInv'
<1>1. streams' = streams
  BY DEF ReadLog
<1>2. IsImport(importer[i])
  BY DEF IInv, ImportSound
<1>3. CASE importer' = [importer EXCEPT ![i].pc = "done"]
  <2> DEFINE k == [importer[i] EXCEPT !.pc = "done"]
  <2>1. importer' = [importer EXCEPT ![i] = k]
    BY <1>3
  <2>2. IsImport(k) /\ k.pc = "done"
    BY <1>2 DEF IsImport
  <2>3. ImportSound(k, streams')
    BY <2>2, BetweenSound
  <2> QED BY <1>1, <2>1, <2>3, StreamsStay, ImportMoves
<1>4. CASE NextProject(i, [NewReport EXCEPT !.failed = TRUE])
  <2>1. IsReport([NewReport EXCEPT !.failed = TRUE])
    BY DEF IsReport, NewReport
  <2> QED BY <1>1, <1>4, <2>1, StreamsStay, NextProjectSound
<1>5. CASE NextProject(i, NewReport)
  BY <1>1, <1>5, IdleSound, StreamsStay, NextProjectSound
<1>6. CASE importer' = [importer EXCEPT
             ![i].pc = "step", ![i].at = 1, ![i].fold = NewFold,
             ![i].report = [NewReport EXCEPT !.records = Replayed(Project(i))]]
  <2> DEFINE report == [NewReport EXCEPT !.records = Replayed(Project(i))]
             k == [importer[i] EXCEPT !.pc = "step", !.at = 1, !.fold = NewFold,
                                      !.report = report]
  <2>1. importer' = [importer EXCEPT ![i] = k]
    BY <1>6
  <2>2. IsReport(report)
    BY DEF IsReport, NewReport
  <2> HIDE DEF report
  <2>3. IsImport(k) /\ k.pc = "step" /\ k.fold = NewFold
    BY <1>2, <2>2, IdleSound DEF IsImport
  <2> HIDE DEF k
  <2>4. FoldSound(NewFold, Head(k.left), streams')
    BY DEF FoldSound, NewFold
  <2>5. ImportSound(k, streams')
    BY <2>3, <2>4 DEF ImportSound
  <2> QED BY <1>1, <2>1, <2>5, StreamsStay, ImportMoves
<1> QED BY <1>3, <1>4, <1>5, <1>6 DEF ReadLog

\* A step that goes on, the streams as they were.
LEMMA OnwardStays ==
  ASSUME IInv, NEW i \in Importers, importer[i].pc \in {"step", "run"}, streams' = streams,
         NEW report, IsReport(report), Onward(i, Step(i).fold, report),
         Step(i).step.kind = "run" => Found(Project(i), Record(i))
  PROVE  IInv'
<1>1. FoldSound(Step(i).fold, Project(i), streams')
  <2> SUFFICES ASSUME Project(i) \in Projects, NEW h \in Harps,
                      h \in Step(i).fold.issued \ Step(i).fold.missing
               PROVE  Logged(streams[Project(i)][h])
    BY AtRecord DEF FoldSound
  <2>1. CASE h \in importer[i].fold.issued
    BY <2>1, AtRecord DEF FoldSound
  <2>2. CASE h \notin importer[i].fold.issued
    <3>1. h = Record(i).task /\ Found(Project(i), Record(i))
      BY <2>2, AtRecord
    <3> QED BY <3>1, FoundLogged
  <2> QED BY <2>1, <2>2
<1>2. IsFold(Step(i).fold)
  BY AtRecord
<1> QED BY <1>1, <1>2, StreamsStay, OnwardSound

LEMMA StepRecordSound == ASSUME IInv, NEW i \in Importers, StepRecord(i) PROVE IInv'
<1> DEFINE r == Record(i)
           lost == importer[i].report.lost \cup LostTags(r, Step(i).refused)
           report == [importer[i].report EXCEPT !.lost = lost]
<1>1. importer[i].pc = "step" /\ streams' = streams
  BY DEF StepRecord
<1>2. IsImport(importer[i]) /\ IsReport(importer[i].report)
  BY <1>1, AtRecord
<1>3. IsReport(report) /\ report.records = importer[i].report.records
  BY <1>2 DEF IsReport
<1>4. \/ /\ Step(i).step.kind = "run"
         /\ importer' = [importer EXCEPT ![i].pc = "run", ![i].report = report]
      \/ /\ Step(i).step.kind = "run" => Found(Project(i), r)
         /\ \E next : IsReport(next) /\ Onward(i, Step(i).fold, next)
  <2>1. \/ /\ Step(i).step.kind = "run"
           /\ importer' = [importer EXCEPT ![i].pc = "run", ![i].report = report]
        \/ /\ Step(i).step.kind = "run" /\ Found(Project(i), r)
           /\ Onward(i, Step(i).fold, [report EXCEPT !.already = @ \cup {r}])
        \/ /\ Step(i).step.kind \in {"unchanged", "ignored", "nothing left"}
           /\ Onward(i, Step(i).fold, [report EXCEPT !.passed = @ \cup {r}])
        \/ /\ Step(i).step.kind = "repaired"
           /\ Onward(i, Step(i).fold, [report EXCEPT !.repaired = @ \cup {r}])
        \/ /\ Step(i).step.kind = "lost"
           /\ Onward(i, Step(i).fold,
                [report EXCEPT !.lost = @ \cup {[record |-> r, why |-> Step(i).step.why]}])
    BY DEF StepRecord
  <2> HIDE DEF report, r
  <2>2. /\ IsReport([report EXCEPT !.already = @ \cup {r}])
        /\ IsReport([report EXCEPT !.passed = @ \cup {r}])
        /\ IsReport([report EXCEPT !.repaired = @ \cup {r}])
        /\ IsReport([report EXCEPT !.lost = @ \cup {[record |-> r, why |-> Step(i).step.why]}])
    BY <1>3 DEF IsReport
  <2> QED BY <2>1, <2>2
<1>5. CASE /\ Step(i).step.kind = "run"
           /\ importer' = [importer EXCEPT ![i].pc = "run", ![i].report = report]
  <2> DEFINE k == [importer[i] EXCEPT !.pc = "run", !.report = report]
  <2> HIDE DEF report
  <2>1. importer' = [importer EXCEPT ![i] = k]
    BY <1>5
  <2>2. /\ IsImport(k) /\ k.pc = "run" /\ k.report = report /\ k.fold = importer[i].fold
        /\ k.left = importer[i].left /\ k.at = importer[i].at
    BY <1>2, <1>3 DEF IsImport
  <2> HIDE DEF k
  <2>3. StepOf(k) = Step(i)
    BY <1>1, <1>3, <2>2, AtRecord DEF StepOf
  <2>4. FoldSound(k.fold, Head(k.left), streams')
    BY <1>1, <2>2, AtRecord DEF Project
  <2>5. ImportSound(k, streams')
    BY <1>5, <2>2, <2>3, <2>4 DEF ImportSound
  <2> QED BY <1>1, <2>1, <2>5, StreamsStay, ImportMoves
<1>6. CASE /\ Step(i).step.kind = "run" => Found(Project(i), r)
           /\ \E next : IsReport(next) /\ Onward(i, Step(i).fold, next)
  BY <1>1, <1>6, OnwardStays
<1> QED BY <1>4, <1>5, <1>6

\* A record's command: what it appends is to a stream none or the log began.
LEMMA RunRecordSound == ASSUME IInv, NEW i \in Importers, RunRecord(i) PROVE IInv'
<1> DEFINE p == Project(i)
           r == Record(i)
           h == r.task
           step == Step(i)
           decision == Decide(Task(p, h), streams[p][h] # <<>>, step.step.command)
           page == [event |-> decision.event, id |-> IdOf(r), at |-> At(r)]
           done == Found(p, r) \/ decision.refusal = Sound
           known == p \in Projects /\ h \in Harps
<1>1. importer[i].pc = "run" /\ step.step.kind = "run"
  <2>1. importer[i].pc = "run"
    BY DEF RunRecord
  <2>2. StepOf(importer[i]).step.kind = "run"
    BY <2>1 DEF IInv, ImportSound
  <2> QED BY <2>1, <2>2, AtRecord
<1>2. streams' = [streams EXCEPT ![p][h] =
                    IF ~Found(p, r) /\ Records(decision) THEN Append(@, page) ELSE @]
  BY DEF RunRecord
<1>3. \/ done /\ \E next : IsReport(next) /\ Onward(i, step.fold, next)
      \/ ~done /\ \E next : IsReport(next) /\ Onward(i, NotImported(step.fold, r), next)
  <2> DEFINE report == importer[i].report
             why == IF decision.refusal = "TaskExists" THEN "HarpTaken" ELSE decision.refusal
  <2>1. \/ done /\ Onward(i, step.fold, [report EXCEPT !.applied = @ \cup {r}])
        \/ ~done /\ Onward(i, NotImported(step.fold, r),
                           [report EXCEPT !.lost = @ \cup {[record |-> r, why |-> why]}])
    BY DEF RunRecord
  <2>2. IsReport(report)
    BY <1>1, AtRecord
  <2> HIDE DEF report, why, r, done, step
  <2>3. /\ IsReport([report EXCEPT !.applied = @ \cup {r}])
        /\ IsReport([report EXCEPT !.lost = @ \cup {[record |-> r, why |-> why]}])
    BY <2>2 DEF IsReport
  <2> QED BY <2>1, <2>3
<1>4. page.id = IdOf(r) /\ IdOf(r) # User
  BY DEF IdOf, User
<1>5. r.op = "add" => /\ Records(decision) => streams[p][h] = <<>>
                      /\ decision.refusal = Sound => streams[p][h] = <<>> /\ Records(decision)
  <2> SUFFICES ASSUME r.op = "add"
               PROVE  /\ Records(decision) => ~(streams[p][h] # <<>>)
                      /\ decision.refusal = Sound =>
                           ~(streams[p][h] # <<>>) /\ Records(decision)
    OBVIOUS
  <2>1. step.step.command.type = "AddTask"
    BY <1>1, AtRecord
  <2>2. (streams[p][h] # <<>>) \in BOOLEAN
    OBVIOUS
  <2> QED BY <2>1, <2>2, AddDecided
<1>6. known /\ r.op # "add" => Logged(streams[p][h])
  BY <1>1, AtRecord DEF FoldSound
<1>7. known /\ Records(decision) => streams[p][h] = <<>> \/ Logged(streams[p][h])
  BY <1>5, <1>6
<1> HIDE DEF page
<1>8. /\ StreamsSound'
      /\ \A q \in Projects, g \in Harps :
           Users(streams'[q][g]) /\ (Logged(streams[q][g]) => Logged(streams'[q][g]))
      /\ known /\ ~Found(p, r) /\ Records(decision) /\ streams[p][h] = <<>> =>
           Logged(streams'[p][h])
  <2>1. CASE ~Found(p, r) /\ Records(decision)
    <3>1. streams' = [streams EXCEPT ![p][h] = Append(@, page)]
      BY <1>2, <2>1
    <3> HIDE DEF p, h, r, decision
    <3> QED BY <1>4, <1>7, <2>1, <3>1, GrownStreams DEF known
  <2>2. CASE ~(~Found(p, r) /\ Records(decision))
    <3>1. streams' = streams
      BY <1>2, <2>2 DEF IInv, StreamsSound
    <3> QED BY <2>2, <3>1, StreamsStay
  <2> QED BY <2>1, <2>2
\* Done with, the record's task is the log's; refused, it is missing.
<1>9. done /\ known /\ r.op = "add" => Logged(streams'[p][h])
  <2>1. CASE known /\ Found(p, r)
    BY <1>8, <2>1, FoundLogged
  <2>2. CASE ~Found(p, r)
    BY <1>5, <1>8, <2>2
  <2> QED BY <2>1, <2>2
<1>10. done => FoldSound(step.fold, p, streams')
  <2> SUFFICES ASSUME done, p \in Projects, NEW g \in Harps,
                      g \in step.fold.issued \ step.fold.missing
               PROVE  Logged(streams'[p][g])
    BY <1>1, AtRecord DEF FoldSound
  <2>1. CASE g \in importer[i].fold.issued
    BY <1>1, <1>8, <2>1, AtRecord DEF FoldSound
  <2>2. CASE g \notin importer[i].fold.issued
    <3>1. r.op = "add" /\ g = h
      BY <1>1, <2>2, AtRecord
    <3> QED BY <1>9, <3>1
  <2> QED BY <2>1, <2>2
<1>11. FoldSound(NotImported(step.fold, r), p, streams')
  <2> DEFINE f == NotImported(step.fold, r)
  <2>1. /\ f.issued = step.fold.issued /\ f.live = step.fold.live
        /\ r.op = "add" => f.missing = step.fold.missing \cup {h}
        /\ r.op # "add" => f.missing = step.fold.missing
    BY <1>1, AtRecord DEF NotImported, IsFold
  <2> HIDE DEF f
  <2>2. ASSUME p \in Projects, NEW g \in Harps, g \in f.issued \ f.missing
        PROVE  Logged(streams'[p][g])
    <3>1. g \in importer[i].fold.issued \ importer[i].fold.missing
      BY <1>1, <2>1, <2>2, AtRecord
    <3> QED BY <1>1, <1>8, <2>2, <3>1, AtRecord DEF FoldSound
  <2>3. f.live \subseteq f.issued
    BY <1>1, <2>1, AtRecord
  <2> QED BY <2>2, <2>3 DEF FoldSound, f
<1>12. IsFold(step.fold) /\ IsFold(NotImported(step.fold, r))
  <2>1. IsFold(step.fold)
    BY <1>1, AtRecord
  <2> QED BY <2>1 DEF NotImported, IsFold
<1> QED BY <1>3, <1>8, <1>10, <1>11, <1>12, OnwardSound

LEMMA StopSound ==
  ASSUME IInv, NEW i \in Importers, ProjectFails(i) \/ Crash(i) PROVE IInv'
<1>1. streams' = streams
  BY DEF ProjectFails, Crash
<1>2. CASE ProjectFails(i)
  <2> DEFINE report == [importer[i].report EXCEPT !.failed = TRUE]
  <2>1. IsReport(importer[i].report)
    BY DEF IInv, ImportSound, IsImport
  <2>2. IsReport(report)
    BY <2>1 DEF IsReport
  <2> QED BY <1>1, <1>2, <2>2, StreamsStay, NextProjectSound DEF ProjectFails
<1>3. CASE Crash(i)
  <2>1. Idle.pc = "idle"
    BY DEF Idle
  <2>2. ImportSound(Idle, streams')
    BY <2>1, IdleSound, BetweenSound
  <2> QED BY <1>1, <1>3, <2>2, StreamsStay, ImportMoves DEF Crash
<1> QED BY <1>2, <1>3

LEMMA NextSound == IInv /\ [Next]_vars => IInv'
<1> SUFFICES ASSUME IInv, [Next]_vars PROVE IInv'
  OBVIOUS
<1>1. ASSUME NEW p \in Projects, AppendLine(p) PROVE IInv'
  BY <1>1 DEF AppendLine, IInv, StreamsSound
<1>2. CASE Use
  BY <1>2, UseSound
<1>3. ASSUME NEW i \in Importers,
             StartImport(i) \/ ReadLog(i) \/ StepRecord(i) \/ RunRecord(i)
               \/ ProjectFails(i) \/ Crash(i)
      PROVE  IInv'
  BY <1>3, StartImportSound, ReadLogSound, StepRecordSound, RunRecordSound, StopSound
<1>4. CASE UNCHANGED vars
  BY <1>4 DEF vars, IInv, StreamsSound
<1> QED BY <1>1, <1>2, <1>3, <1>4 DEF Next

\* The task a user added is the user's, whatever a log says of its harp: no
\* import, racing others, stopping or run again, writes a page to its stream
\* (import.rs, NotImported and UnlessMissing).
THEOREM ForeignAlwaysKept == Spec => []ForeignKept
<1>1. IInv => ForeignKept
  <2> SUFFICES ASSUME IInv, NEW p \in Projects, NEW h \in Harps,
                      streams[p][h] # <<>>, Head(streams[p][h]).id = User
               PROVE  \A n \in DOMAIN streams[p][h] : streams[p][h][n].id = User
    BY DEF ForeignKept
  <2>1. Head(streams[p][h]) = streams[p][h][1]
    OBVIOUS
  <2> QED BY <2>1 DEF IInv, Users
<1> QED BY <1>1, InitSound, NextSound, PTL DEF Spec

------------------------------------------------------------------------------
(* Logs: what an import replays of one.                                    *)

\* Of finitely many in an order, one alone is preceded by each number of them.
LEMMA Ranked ==
  ASSUME NEW S, IsFiniteSet(S), NEW before \in [S -> SUBSET S],
         \A i \in S : i \notin before[i],
         \A i \in S, j \in S : i = j \/ i \in before[j] \/ j \in before[i],
         \A i \in S, j \in S, k \in S : i \in before[j] /\ j \in before[k] => i \in before[k]
  PROVE  /\ \A n \in 1..Cardinality(S) : \E i \in S : Cardinality(before[i]) = n - 1
         /\ \A i \in S : Cardinality(before[i]) + 1 \in 1..Cardinality(S)
         /\ \A i, j \in S : Cardinality(before[i]) = Cardinality(before[j]) => i = j
<1> DEFINE rank == [i \in S |-> Cardinality(before[i]) + 1]
           T == 1..Cardinality(S)
<1>1. Cardinality(S) \in Nat
  BY FS_CardinalityType
<1>2. ASSUME NEW i \in S
      PROVE  IsFiniteSet(before[i]) /\ Cardinality(before[i]) \in Nat
             /\ Cardinality(before[i]) < Cardinality(S)
  <2>1. before[i] \in SUBSET S /\ before[i] # S
    OBVIOUS
  <2>2. IsFiniteSet(before[i]) /\ Cardinality(before[i]) <= Cardinality(S)
        /\ (Cardinality(S) = Cardinality(before[i]) => S = before[i])
    BY <2>1, FS_Subset
  <2>3. Cardinality(before[i]) \in Nat
    BY <2>2, FS_CardinalityType
  <2> QED BY <1>1, <2>1, <2>2, <2>3
<1>3. ASSUME NEW i \in S, NEW j \in S, i \in before[j]
      PROVE  Cardinality(before[i]) < Cardinality(before[j])
  <2>1. before[i] \cup {i} \in SUBSET before[j]
    BY <1>3
  <2>2. Cardinality(before[i] \cup {i}) = Cardinality(before[i]) + 1
    BY <1>2, FS_AddElement
  <2>3. Cardinality(before[i] \cup {i}) <= Cardinality(before[j])
    BY <1>2, <2>1, FS_Subset
  <2> QED BY <1>2, <2>2, <2>3
<1>4. rank \in [S -> T]
  BY <1>1, <1>2
<1>5. \A i, j \in S : rank[i] = rank[j] => i = j
  BY <1>2, <1>3
<1>6. rank \in Injection(S, T)
  <2> HIDE DEF rank, T
  <2> QED BY <1>4, <1>5, Fun_IsInj
<1>7. IsFiniteSet(T) /\ Cardinality(T) = Cardinality(S)
  BY <1>1, FS_Interval
<1>8. rank \in Surjection(S, T)
  <2> HIDE DEF rank, T
  <2> QED BY <1>6, <1>7, FS_Injection
<1>9. \A n \in T : \E i \in S : rank[i] = n
  <2> HIDE DEF rank, T
  <2> QED BY <1>8 DEF Surjection
<1> QED BY <1>1, <1>2, <1>3, <1>9

Lines == LogRecords \cup {Malformed, BlankLine}

\* A line that is no record has not its fields.
LEMMA LinesApart == BlankLine \notin LogRecords /\ Malformed \notin LogRecords
BY DEF BlankLine, Malformed, LogRecords, Ops

\* What is replayed of a log is records, its distinct lines by those before each.
LEMMA ReplayAt ==
  ASSUME NEW log \in Seq(Lines), Readable(log)
  PROVE  /\ ReplayOrder(log) \in Seq(LogRecords)
         /\ Distinct(log) \subseteq 1..Len(log)
         /\ \A i \in Distinct(log) : log[i] \in LogRecords /\ log[i].ts \in Int
         /\ \A n \in 1..Len(ReplayOrder(log)) : \E i \in Distinct(log) :
              Cardinality(ReplaysBefore(log, i)) = n - 1
         /\ \A i \in Distinct(log) :
              LET n == Cardinality(ReplaysBefore(log, i)) + 1 IN
              n \in 1..Len(ReplayOrder(log)) /\ ReplayOrder(log)[n] = log[i]
<1> DEFINE S == Distinct(log)
           before == [i \in S |-> ReplaysBefore(log, i)]
           N == Cardinality(S)
<1>1. /\ S \subseteq 1..Len(log)
      /\ \A i \in S : log[i] \in LogRecords /\ log[i].ts \in Int
  <2>1. S \subseteq DOMAIN log /\ \A i \in S : log[i] # BlankLine /\ log[i] # Malformed
    BY DEF Distinct, Parsed, Readable
  <2>2. \A i \in S : log[i] \in LogRecords
    BY <2>1 DEF Lines
  <2>3. \A r \in LogRecords : r.ts \in Int
    BY DEF LogRecords, Instants
  <2> QED BY <2>1, <2>2, <2>3
<1>2. IsFiniteSet(S)
  <2>1. IsFiniteSet(1..Len(log))
    BY FS_Interval
  <2> QED BY <1>1, <2>1, FS_Subset
<1>3. before \in [S -> SUBSET S]
  BY DEF ReplaysBefore
<1>4. \A i, j \in S : j \in before[i] <=> log[j].ts < log[i].ts \/ (log[j].ts = log[i].ts /\ j < i)
  BY DEF ReplaysBefore
<1>5. \A i \in S : i \in Int
  BY <1>1
<1>6. \A i \in S : i \notin before[i]
  BY <1>1, <1>4, <1>5
<1>7. \A i \in S, j \in S : i = j \/ i \in before[j] \/ j \in before[i]
  <2> HIDE DEF before, S
  <2> QED BY <1>1, <1>4, <1>5
<1>8. \A i \in S, j \in S, k \in S : i \in before[j] /\ j \in before[k] => i \in before[k]
  <2> HIDE DEF before, S
  <2> QED BY <1>1, <1>4, <1>5
<1>9. /\ \A n \in 1..N : \E i \in S : Cardinality(before[i]) = n - 1
      /\ \A i \in S : Cardinality(before[i]) + 1 \in 1..N
      /\ \A i, j \in S : Cardinality(before[i]) = Cardinality(before[j]) => i = j
  <2> HIDE DEF before, S
  <2> QED BY <1>2, <1>3, <1>6, <1>7, <1>8, Ranked
<1>10. N \in Nat
  BY <1>2, FS_CardinalityType
<1>11. ReplayOrder(log) = [n \in 1..N |-> log[CHOOSE i \in S : Cardinality(ReplaysBefore(log, i)) = n - 1]]
  BY DEF ReplayOrder
<1>12. ASSUME NEW n \in 1..N
       PROVE  \E i \in S : /\ Cardinality(ReplaysBefore(log, i)) = n - 1
                           /\ ReplayOrder(log)[n] = log[i]
  <2>1. PICK i \in S : Cardinality(ReplaysBefore(log, i)) = n - 1
    BY <1>9
  <2> DEFINE chosen == CHOOSE j \in S : Cardinality(ReplaysBefore(log, j)) = n - 1
  <2>2. chosen \in S /\ Cardinality(ReplaysBefore(log, chosen)) = n - 1
    BY <2>1
  <2>3. ReplayOrder(log)[n] = log[chosen]
    BY <1>11
  <2> HIDE DEF chosen, S
  <2> QED BY <2>2, <2>3
<1>13. ReplayOrder(log) \in Seq(LogRecords) /\ Len(ReplayOrder(log)) = N
  <2> HIDE DEF S
  <2>1. ReplayOrder(log) \in [1..N -> LogRecords]
    <3> DEFINE R == LogRecords
    <3>1. \A n \in 1..N : ReplayOrder(log)[n] \in R
      BY <1>1, <1>12
    <3> HIDE DEF R
    <3>2. ReplayOrder(log) \in [1..N -> R]
      BY <1>11, <3>1
    <3> QED BY <3>2 DEF R
  <2> DEFINE R == LogRecords
  <2> HIDE DEF R
  <2>2. ReplayOrder(log) \in [1..N -> R]
    BY <2>1 DEF R
  <2>3. ReplayOrder(log) \in Seq(R) /\ Len(ReplayOrder(log)) = N
    <3> HIDE DEF N
    <3> QED BY <1>10, <2>2
  <2> QED BY <2>3 DEF R
<1>14. ASSUME NEW i \in S
       PROVE  /\ Cardinality(ReplaysBefore(log, i)) + 1 \in 1..N
              /\ ReplayOrder(log)[Cardinality(ReplaysBefore(log, i)) + 1] = log[i]
  <2>1. before[i] = ReplaysBefore(log, i)
    OBVIOUS
  <2>2. PICK n : n = Cardinality(ReplaysBefore(log, i)) + 1
    OBVIOUS
  <2>3. n \in 1..N
    BY <1>9, <2>1, <2>2
  <2>4. PICK j \in S : Cardinality(ReplaysBefore(log, j)) = n - 1 /\ ReplayOrder(log)[n] = log[j]
    BY <1>12, <2>3
  <2>5. Cardinality(before[j]) = Cardinality(before[i])
    <3>1. Cardinality(before[i]) \in Int
      BY <1>2, <1>3, FS_Subset, FS_CardinalityType
    <3>2. before[j] = ReplaysBefore(log, j)
      OBVIOUS
    <3> HIDE DEF before
    <3> QED BY <2>1, <2>2, <2>4, <3>1, <3>2
  <2>6. j = i
    <3> HIDE DEF before
    <3> QED BY <1>9, <2>5
  <2> QED BY <2>2, <2>3, <2>4, <2>6
<1>15. \A n \in 1..N : \E i \in S : Cardinality(ReplaysBefore(log, i)) = n - 1
  BY <1>12
<1> QED BY <1>1, <1>13, <1>14, <1>15

LEMMA ReplayIs ==
  ASSUME NEW log \in Seq(Lines), Readable(log)
  PROVE  /\ ReplayOrder(log) \in Seq(LogRecords)
         /\ \A n \in 1..Len(ReplayOrder(log)) : \E i \in 1..Len(log) : ReplayOrder(log)[n] = log[i]
<1>1. ReplayOrder(log) \in Seq(LogRecords)
  BY ReplayAt
<1>2. ASSUME NEW n \in 1..Len(ReplayOrder(log))
      PROVE  \E i \in 1..Len(log) : ReplayOrder(log)[n] = log[i]
  <2>1. PICK i \in Distinct(log) : Cardinality(ReplaysBefore(log, i)) = n - 1
    BY <1>2, ReplayAt
  <2>2. n \in Int /\ i \in 1..Len(log)
    BY <2>1, ReplayAt
  <2>3. PICK m : m = Cardinality(ReplaysBefore(log, i)) + 1
    OBVIOUS
  <2>4. ReplayOrder(log)[m] = log[i]
    BY <2>1, <2>3, ReplayAt
  <2>5. m = n
    BY <2>1, <2>2, <2>3
  <2> QED BY <2>2, <2>4, <2>5
<1> QED BY <1>1, <1>2

LEMMA Induction ==
  ASSUME NEW T, 0 \in T, \A n \in Nat : n \in T => n + 1 \in T
  PROVE  Nat \subseteq T
<1> DEFINE R == {ss \in Nat \X Nat : ss[1] < ss[2]}
           Rest == Nat \ T
<1> SUFFICES ASSUME Rest # {} PROVE FALSE
  OBVIOUS
<1>1. IsWellFoundedOn(R, Nat)
  BY NatLessThanWellFounded DEF OpToRel
<1>2. PICK n \in Rest : \A m \in Rest : <<m, n>> \notin R
  <2> Rest \subseteq Nat
    OBVIOUS
  <2> HIDE DEF R, Rest
  <2> QED BY <1>1, WFMin
<1>3. n \in Nat /\ n # 0 /\ n - 1 \in Nat /\ (n - 1) + 1 = n
  BY <1>2
<1>4. n - 1 \in Rest
  BY <1>2, <1>3
<1>5. <<n - 1, n>> \in R
  BY <1>3
<1> QED BY <1>2, <1>4, <1>5

\* f[n] is the projects with a log among the first n.
Finds(f, m) ==
  f = [n \in 0..m |-> IF n = 0 THEN <<>>
                      ELSE IF logs[ProjectOrder[n]] = NoLog THEN f[n - 1]
                      ELSE Append(f[n - 1], ProjectOrder[n])]

LEMMA FindsExist == \A m \in Nat : \E f : Finds(f, m)
<1> DEFINE T == {m \in Nat : \E f : Finds(f, m)}
<1>1. 0 \in T
  <2>1. Finds([n \in 0..0 |-> <<>>], 0)
    BY DEF Finds
  <2> QED BY <2>1
<1>2. ASSUME NEW m \in Nat, m \in T PROVE m + 1 \in T
  <2>1. PICK f : Finds(f, m)
    BY <1>2
  <2> DEFINE on == IF logs[ProjectOrder[m + 1]] = NoLog THEN f[m] ELSE Append(f[m], ProjectOrder[m + 1])
             g == [n \in 0..(m + 1) |-> IF n <= m THEN f[n] ELSE on]
  <2>2. (\A n \in 0..m : g[n] = f[n]) /\ g[m + 1] = on
    OBVIOUS
  <2>3. g = [n \in 0..(m + 1) |-> g[n]]
    OBVIOUS
  <2>4. \A n \in 0..m : f[n] = IF n = 0 THEN <<>>
                               ELSE IF logs[ProjectOrder[n]] = NoLog THEN f[n - 1]
                               ELSE Append(f[n - 1], ProjectOrder[n])
    BY <2>1 DEF Finds
  <2> HIDE DEF g
  <2>5. ASSUME NEW n \in 0..(m + 1)
        PROVE  g[n] = IF n = 0 THEN <<>>
                      ELSE IF logs[ProjectOrder[n]] = NoLog THEN g[n - 1]
                      ELSE Append(g[n - 1], ProjectOrder[n])
    <3>1. CASE n = m + 1
      <4>1. n # 0 /\ n - 1 = m /\ m \in 0..m
        BY <3>1
      <4> QED BY <2>2, <3>1, <4>1
    <3>2. CASE n \in 0..m
      <4>1. n # 0 => n - 1 \in 0..m
        BY <3>2
      <4> QED BY <2>2, <2>4, <3>2, <4>1
    <3> QED BY <3>1, <3>2
  <2>6. Finds(g, m + 1)
    BY <2>3, <2>5 DEF Finds
  <2> QED BY <2>6
<1>3. Nat \subseteq T
  <2> HIDE DEF T
  <2> QED BY <1>1, <1>2, Induction
<1> QED BY <1>3


\* The projects an import goes through are projects.
LEMMA WithLogsIs == WithLogs \in Seq(Projects)
<1> DEFINE L == Len(ProjectOrder)
<1>1. L \in Nat /\ \A n \in 1..L : ProjectOrder[n] \in Projects
  BY LogsAssumption
<1>2. \E f : Finds(f, L)
  BY <1>1, FindsExist
<1>3. PICK f : Finds(f, L) /\ WithLogs = f[L]
  BY <1>2 DEF WithLogs, Finds
<1>4. \A n \in 0..L : f[n] = IF n = 0 THEN <<>>
                             ELSE IF logs[ProjectOrder[n]] = NoLog THEN f[n - 1]
                             ELSE Append(f[n - 1], ProjectOrder[n])
  BY <1>3 DEF Finds
<1> DEFINE T == {n \in Nat : n <= L => f[n] \in Seq(Projects)}
<1>5. 0 \in T
  <2>1. f[0] = <<>>
    BY <1>1, <1>4
  <2>2. <<>> \in Seq(Projects)
    OBVIOUS
  <2> QED BY <2>1, <2>2
<1>6. ASSUME NEW n \in Nat, n \in T PROVE n + 1 \in T
  <2> SUFFICES ASSUME n + 1 <= L PROVE f[n + 1] \in Seq(Projects)
    OBVIOUS
  <2>1. n + 1 \in 0..L /\ n + 1 # 0 /\ (n + 1) - 1 = n /\ n <= L /\ n + 1 \in 1..L
    BY <1>1
  <2>2. f[n] \in Seq(Projects) /\ ProjectOrder[n + 1] \in Projects
    BY <1>1, <1>6, <2>1
  <2>3. Append(f[n], ProjectOrder[n + 1]) \in Seq(Projects)
    BY <2>2, AppendProperties
  <2> QED BY <1>4, <2>1, <2>2, <2>3
<1>7. Nat \subseteq T
  <2> HIDE DEF T
  <2> QED BY <1>5, <1>6, Induction
<1> QED BY <1>1, <1>3, <1>7

------------------------------------------------------------------------------
(* What an import has brought over.                                        *)

\* By the streams `all`, the record's command is in its task's stream.
Held(p, all, r) == \E n \in DOMAIN all[p][r.task] : all[p][r.task][n].id = IdOf(r)

\* A record of the log `lines`.
FromLog(lines, r) == r \in LogRecords /\ \E n \in 1..Len(lines) : lines[n] = r
Retag(r) == r.op \in {"tag", "untag"}

\* Of the first n records every add is held, repaired by another, or the report
\* says that something was left behind.
Handled(report, p, all, n) ==
  \A j \in 1..n :
    LET r == report.records[j] IN
    r.op = "add" => \/ report.lost # {}
                    \/ Held(p, all, r)
                    \/ AnomalyKey(r) \in RepairedBy(report.records)

\* A report's records are the log's.
OfLog(report, lines) ==
  /\ report.records \in Seq(LogRecords)
  /\ \A j \in 1..Len(report.records) : FromLog(lines, report.records[j])

\* An import k, by the streams `all` and the logs `texts`.
Reading(k, all, texts) ==
  /\ k.left \in Seq(Projects)
  /\ k.pc \in {"step", "run"} =>
       /\ k.left # <<>>
       /\ OfLog(k.report, texts[Head(k.left)])
       /\ k.at \in 1..Len(k.report.records)
       /\ Handled(k.report, Head(k.left), all, k.at - 1)
  /\ k.pc = "done" /\ k.left # <<>> =>
       /\ OfLog(k.report, texts[Head(k.left)])
       /\ k.report.failed
            \/ Handled(k.report, Head(k.left), all, Len(k.report.records))

\* A record reported is the log's, and but for a retag in its stream.
ReportedHeld(said, all, texts) ==
  /\ said = [p \in Projects |-> said[p]]
  /\ \A p \in Projects : \A r \in said[p] :
       FromLog(texts[p], r) /\ (~Retag(r) => Held(p, all, r))

LogsKept ==
  /\ \E first \in LogsAtFirst : \A p \in Projects : logs[p] = first[p].lines
  /\ written = [p \in Projects |-> written[p]]
  /\ \A p \in Projects : written[p] \in Nat /\ written[p] <= Len(logs[p])

ReadInv ==
  /\ IInv
  /\ LogsKept
  /\ ReportedHeld(reported, streams, logs)
  /\ \A i \in Importers : Reading(importer[i], streams, logs)

\* Streams only grow, at their ends.
Grow ==
  \A p \in Projects, h \in Harps : \A n \in DOMAIN streams[p][h] :
    n \in DOMAIN streams'[p][h] /\ streams'[p][h][n] = streams[p][h][n]

\* What has grown is one stream, by the page.
Alone(p, h, page) ==
  \A q \in Projects, g \in Harps :
    Len(streams'[q][g]) > Len(streams[q][g]) =>
      q = p /\ g = h /\ Last(streams'[q][g]) = page

\* A page appended leaves every other, and grows one stream by it.
LEMMA PageAppended ==
  ASSUME IInv, NEW p, NEW h, NEW page,
         streams' = [streams EXCEPT ![p][h] = Append(@, page)]
  PROVE  /\ Grow
         /\ p \in Projects /\ h \in Harps =>
              LET t == streams'[p][h] IN Len(t) \in DOMAIN t /\ t[Len(t)] = page
         /\ Alone(p, h, page)
<1>1. ASSUME NEW q \in Projects, NEW g \in Harps
      PROVE  streams'[q][g] = IF q = p /\ g = h THEN Append(streams[p][h], page)
                              ELSE streams[q][g]
  BY DEF IInv, StreamsSound
<1>2. ASSUME p \in Projects, h \in Harps
      PROVE  LET s == streams[p][h]
                 t == Append(s, page) IN
             /\ Len(s) \in Nat /\ Len(t) = Len(s) + 1 /\ DOMAIN s = 1..Len(s)
             /\ DOMAIN t = 1..(Len(s) + 1)
             /\ t[Len(s) + 1] = page /\ Last(t) = page
             /\ \A n \in DOMAIN s : t[n] = s[n]
  <2> DEFINE s == streams[p][h]
             S == {s[n] : n \in DOMAIN s} \cup {page}
             t == Append(s, page)
  <2>1. IsStream(s)
    BY <1>2 DEF IInv, StreamsSound
  <2>2. s \in Seq(S)
    BY <2>1 DEF IsStream
  <2>3. /\ t \in Seq(S) /\ Len(t) = Len(s) + 1 /\ \A n \in 1..Len(s) : t[n] = s[n]
        /\ t[Len(s) + 1] = page
    <3> HIDE DEF S, s
    <3>1. page \in S
      BY DEF S
    <3> QED BY <2>2, <3>1, AppendProperties
  <2>4. DOMAIN s = 1..Len(s) /\ DOMAIN t = 1..(Len(s) + 1) /\ Len(s) \in Nat
    BY <2>2, <2>3
  <2> QED BY <2>3, <2>4 DEF Last
<1>3. Grow
  <2> SUFFICES ASSUME NEW q \in Projects, NEW g \in Harps, NEW n \in DOMAIN streams[q][g]
               PROVE  n \in DOMAIN streams'[q][g] /\ streams'[q][g][n] = streams[q][g][n]
    BY DEF Grow
  <2>1. CASE q = p /\ g = h
    BY <1>1, <1>2, <2>1
  <2>2. CASE ~(q = p /\ g = h)
    BY <1>1, <2>2
  <2> QED BY <2>1, <2>2
<1>4. ASSUME p \in Projects, h \in Harps
      PROVE  LET t == streams'[p][h] IN Len(t) \in DOMAIN t /\ t[Len(t)] = page
  <2> DEFINE t == Append(streams[p][h], page)
  <2>1. Len(t) \in DOMAIN t /\ t[Len(t)] = page
    BY <1>2, <1>4
  <2>2. streams'[p][h] = t
    BY <1>1, <1>4
  <2> HIDE DEF t
  <2> QED BY <2>1, <2>2
<1>5. ASSUME NEW q \in Projects, NEW g \in Harps, Len(streams'[q][g]) > Len(streams[q][g])
      PROVE  q = p /\ g = h /\ Last(streams'[q][g]) = page
  <2>1. CASE q = p /\ g = h
    BY <1>1, <1>2, <2>1
  <2>2. CASE ~(q = p /\ g = h)
    <3> DEFINE s == streams[q][g]
               S == {s[n] : n \in DOMAIN s}
    <3>1. streams'[q][g] = s
      BY <1>1, <2>2
    <3>2. s \in Seq(S)
      BY DEF IInv, StreamsSound, IsStream
    <3> HIDE DEF S
    <3>3. Len(s) \in Nat
      BY <3>2
    <3>4. ~(Len(s) > Len(s))
      BY <3>3
    <3>5. Len(s) > Len(s)
      BY <1>5, <3>1
    <3> QED BY <3>4, <3>5
  <2> QED BY <2>1, <2>2
<1>6. Alone(p, h, page)
  BY <1>5 DEF Alone
<1> QED BY <1>3, <1>4, <1>6

\* What is held stays.
LEMMA HeldStays ==
  ASSUME Grow, NEW p \in Projects, NEW r \in LogRecords, Held(p, streams, r)
  PROVE  Held(p, streams', r)
<1>1. r.task \in Harps
  BY DEF LogRecords
<1> QED BY <1>1 DEF Held, Grow

LEMMA HandledStays ==
  ASSUME Grow, NEW p \in Projects, NEW report, report.records \in Seq(LogRecords),
         NEW n \in Nat, n <= Len(report.records), Handled(report, p, streams, n)
  PROVE  Handled(report, p, streams', n)
<1>1. \A j \in 1..n : report.records[j] \in LogRecords
  <2> DEFINE R == LogRecords
  <2>1. report.records \in Seq(R)
    OBVIOUS
  <2> HIDE DEF R
  <2>2. \A j \in 1..n : report.records[j] \in R
    BY <2>1
  <2> QED BY <2>2 DEF R
<1> QED BY <1>1, HeldStays DEF Handled

LEMMA RecordOf ==
  ASSUME NEW records \in Seq(LogRecords), NEW n \in 1..Len(records)
  PROVE  records[n] \in LogRecords /\ records[n].task \in Harps /\ records[n].op \in Ops
<1> DEFINE R == LogRecords
<1>1. records[n] \in R
  <2>1. records \in Seq(R)
    OBVIOUS
  <2> HIDE DEF R
  <2> QED BY <2>1
<1> QED BY <1>1 DEF LogRecords

\* An import goes on knowing what it knew, the streams grown.
LEMMA ReadingStays ==
  ASSUME Grow, NEW k, NEW texts, Reading(k, streams, texts)
  PROVE  Reading(k, streams', texts)
<1>1. ASSUME k.left # <<>> PROVE Head(k.left) \in Projects
  BY <1>1 DEF Reading
<1>2. ASSUME k.pc \in {"step", "run"}
      PROVE  Handled(k.report, Head(k.left), streams', k.at - 1)
  <2>1. /\ k.left # <<>> /\ k.report.records \in Seq(LogRecords)
        /\ k.at \in 1..Len(k.report.records)
        /\ Handled(k.report, Head(k.left), streams, k.at - 1)
    BY <1>2 DEF Reading, OfLog
  <2>2. Head(k.left) \in Projects
    BY <1>1, <2>1
  <2>3. Len(k.report.records) \in Nat
    BY <2>1
  <2>4. k.at - 1 \in Nat /\ k.at - 1 <= Len(k.report.records)
    BY <2>1, <2>3
  <2> QED BY <2>1, <2>2, <2>4, HandledStays
<1>3. ASSUME k.pc = "done", k.left # <<>>, ~k.report.failed
      PROVE  Handled(k.report, Head(k.left), streams', Len(k.report.records))
  <2>1. /\ k.report.records \in Seq(LogRecords)
        /\ Handled(k.report, Head(k.left), streams, Len(k.report.records))
    BY <1>3 DEF Reading, OfLog
  <2>2. Len(k.report.records) \in Nat
    BY <2>1
  <2> QED BY <1>1, <1>3, <2>1, <2>2, HandledStays
<1> QED BY <1>2, <1>3 DEF Reading

LEMMA ReportedStays ==
  ASSUME Grow, ReportedHeld(reported, streams, logs)
  PROVE  ReportedHeld(reported, streams', logs)
BY HeldStays DEF ReportedHeld, FromLog

\* An import moves, and knows of itself what it should.
LEMMA ReadMoves ==
  ASSUME ReadInv, IInv', UNCHANGED <<logs, written>>, Grow,
         NEW i \in Importers, NEW k, importer' = [importer EXCEPT ![i] = k],
         Reading(k, streams', logs), ReportedHeld(reported', streams', logs)
  PROVE  ReadInv'
<1>1. \A j \in Importers : importer'[j] = IF j = i THEN k ELSE importer[j]
  BY DEF ReadInv, IInv
<1>2. \A j \in Importers : Reading(importer[j], streams', logs)
  BY ReadingStays DEF ReadInv
<1>3. \A j \in Importers : Reading(importer'[j], streams', logs')
  BY <1>1, <1>2
<1>4. LogsKept'
  BY DEF ReadInv, LogsKept
<1> QED BY <1>3, <1>4 DEF ReadInv

\* On to the next project, of this one having said what there is to say.
LEMMA NextProjectReads ==
  ASSUME ReadInv, IInv', UNCHANGED <<logs, written>>, Grow,
         NEW i \in Importers, importer[i].left # <<>>, NEW report, NextProject(i, report),
         ReportedHeld(reported', streams', logs), OfLog(report, logs[Project(i)]),
         report.failed \/ Handled(report, Project(i), streams', Len(report.records))
  PROVE  ReadInv'
<1> DEFINE left == IF Len(importer[i].left) = 1 THEN <<Project(i)>> ELSE Tail(importer[i].left)
           pc == IF Len(importer[i].left) = 1 THEN "done" ELSE "read"
           whole == importer[i].whole /\ Complete(report)
           k == [Idle EXCEPT !.left = left, !.pc = pc, !.report = report, !.whole = whole]
<1>1. importer' = [importer EXCEPT ![i] = k]
  BY DEF NextProject
<1>2. importer[i].left \in Seq(Projects) /\ Project(i) \in Projects
  BY DEF ReadInv, Reading, Project
<1>3. left \in Seq(Projects)
  BY <1>2
<1>4. pc = "read" \/ (pc = "done" /\ left # <<>> /\ Head(left) = Project(i))
  OBVIOUS
<1> HIDE DEF left, pc, whole
<1>5. k.left = left /\ k.pc = pc /\ k.report = report
  BY DEF Idle
<1> HIDE DEF k
<1>6. Reading(k, streams', logs)
  BY <1>3, <1>4, <1>5 DEF Reading
<1> QED BY <1>1, <1>6, ReadMoves

\* On to the next record, of this one having said what there is to say.
LEMMA OnwardReads ==
  ASSUME ReadInv, IInv', UNCHANGED <<logs, written>>, Grow,
         NEW i \in Importers, importer[i].pc \in {"step", "run"},
         NEW fold, NEW report, Onward(i, fold, report),
         report.records = importer[i].report.records,
         importer[i].report.lost \subseteq report.lost,
         ReportedHeld(reported', streams', logs),
         Record(i).op = "add" =>
           \/ report.lost # {}
           \/ Held(Project(i), streams', Record(i))
           \/ AnomalyKey(Record(i)) \in RepairedBy(report.records)
  PROVE  ReadInv'
<1> DEFINE at == importer[i].at
           records == importer[i].report.records
           p == Project(i)
<1>1. /\ Reading(importer[i], streams', logs) /\ Reading(importer[i], streams, logs)
  BY ReadingStays DEF ReadInv
<1>2. /\ importer[i].left # <<>> /\ importer[i].left \in Seq(Projects)
      /\ OfLog(importer[i].report, logs[p])
      /\ at \in 1..Len(records)
      /\ Handled(importer[i].report, p, streams', at - 1)
  BY <1>1 DEF Reading, Project
<1>3. records \in Seq(LogRecords) /\ Len(records) \in Nat
  BY <1>2 DEF OfLog
<1>4. OfLog(report, logs[p])
  BY <1>2 DEF OfLog
<1>5. Handled(report, p, streams', at)
  <2> SUFFICES ASSUME NEW j \in 1..at, records[j].op = "add"
               PROVE  \/ report.lost # {} \/ Held(p, streams', records[j])
                      \/ AnomalyKey(records[j]) \in RepairedBy(report.records)
    BY DEF Handled
  <2>1. CASE j = at
    BY <2>1 DEF Record
  <2>2. CASE j # at
    <3>1. j \in 1..(at - 1)
      BY <1>2, <1>3, <2>2
    <3> QED BY <1>2, <3>1 DEF Handled
  <2> QED BY <2>1, <2>2
<1>6. CASE at = Len(records)
  <2>1. NextProject(i, report)
    BY <1>6 DEF Onward
  <2>2. Handled(report, p, streams', Len(report.records))
    BY <1>5, <1>6
  <2> QED BY <1>2, <1>4, <2>1, <2>2, NextProjectReads
<1>7. CASE at # Len(records)
  <2> DEFINE k == [importer[i] EXCEPT !.pc = "step", !.at = @ + 1, !.fold = fold,
                                      !.report = report]
  <2>1. importer' = [importer EXCEPT ![i] = k]
    BY <1>7 DEF Onward
  <2>2. IsImport(importer[i])
    BY DEF ReadInv, IInv, ImportSound
  <2>3. k.pc = "step" /\ k.left = importer[i].left /\ k.report = report /\ k.at = at + 1
    BY <2>2 DEF IsImport
  <2> HIDE DEF k
  <2>4. at + 1 \in 1..Len(records) /\ (at + 1) - 1 = at
    BY <1>2, <1>3, <1>7
  <2>5. Reading(k, streams', logs)
    BY <1>2, <1>4, <1>5, <2>3, <2>4 DEF Reading, Project
  <2> QED BY <2>1, <2>5, ReadMoves
<1> QED BY <1>6, <1>7

\* Streams as they were.
LEMMA GrowNone == ASSUME streams' = streams PROVE Grow
BY DEF Grow

LEMMA InitReads == Init => ReadInv
<1> SUFFICES ASSUME Init PROVE ReadInv
  OBVIOUS
<1>1. LogsKept
  <2>1. PICK first \in LogsAtFirst :
          /\ logs = [p \in Projects |-> first[p].lines]
          /\ written = [p \in Projects |-> first[p].written]
    BY DEF Init
  <2>2. first \in [Projects -> [lines: Seq(LogRecords \cup {Malformed, BlankLine}) \cup {NoLog},
                                written: Nat]]
    BY LogsAssumption
  <2>3. \A p \in Projects : first[p].written \in Nat /\ first[p].written <= Len(first[p].lines)
    BY <2>2, LogsAssumption
  <2> QED BY <2>1, <2>3 DEF LogsKept
<1>2. ReportedHeld(reported, streams, logs)
  BY DEF Init, ReportedHeld
<1>3. Reading(Idle, streams, logs)
  BY DEF Idle, Reading
<1>4. \A i \in Importers : importer[i] = Idle
  BY DEF Init
<1> QED BY <1>1, <1>2, <1>3, <1>4, InitSound DEF ReadInv

LEMMA AppendLineReads == ASSUME ReadInv, IInv', NEW p \in Projects, AppendLine(p) PROVE ReadInv'
<1>1. /\ logs' = logs /\ streams' = streams /\ importer' = importer /\ reported' = reported
      /\ written' = [written EXCEPT ![p] = @ + 1] /\ written[p] < Len(logs[p])
  BY DEF AppendLine
<1>2. LogsKept'
  <2>1. \A q \in Projects : written'[q] = IF q = p THEN written[q] + 1 ELSE written[q]
    BY <1>1 DEF ReadInv, LogsKept
  <2>2. written' = [q \in Projects |-> written'[q]]
    BY <1>1 DEF ReadInv, LogsKept
  <2>3. ASSUME NEW q \in Projects PROVE Len(logs[q]) \in Nat
    <3>1. PICK first \in LogsAtFirst : \A r \in Projects : logs[r] = first[r].lines
      BY DEF ReadInv, LogsKept
    <3>2. logs[q] \in Seq(Lines) \cup {NoLog}
      BY <3>1, LogsAssumption DEF Lines
    <3>3. CASE logs[q] = NoLog
      BY <3>3 DEF NoLog
    <3>4. CASE logs[q] \in Seq(Lines)
      <4> DEFINE L == Lines
      <4> HIDE DEF L
      <4>1. logs[q] \in Seq(L)
        BY <3>4 DEF L
      <4> QED BY <4>1
    <3> QED BY <3>2, <3>3, <3>4
  <2>4. \A q \in Projects : written'[q] \in Nat /\ written'[q] <= Len(logs[q])
    BY <1>1, <2>1, <2>3 DEF ReadInv, LogsKept
  <2> QED BY <1>1, <2>2, <2>4 DEF ReadInv, LogsKept
<1> QED BY <1>1, <1>2 DEF ReadInv

LEMMA UseReads == ASSUME ReadInv, IInv', Use PROVE ReadInv'
<1>1. PICK u \in UserCommands :
        /\ \E event : streams' = [streams EXCEPT ![u.project][u.harp] =
                                   Append(@, [event |-> event, id |-> User, at |-> UserAt])]
        /\ UNCHANGED <<logs, written, importer, reported>>
  BY DEF Use
<1>0. PICK event : streams' = [streams EXCEPT ![u.project][u.harp] =
                                 Append(@, [event |-> event, id |-> User, at |-> UserAt])]
  BY <1>1
<1> DEFINE page == [event |-> event, id |-> User, at |-> UserAt]
<1>2. streams' = [streams EXCEPT ![u.project][u.harp] = Append(@, page)]
  BY <1>0
<1> HIDE DEF page
<1>3. Grow
  BY <1>2, PageAppended DEF ReadInv
<1>4. ReportedHeld(reported, streams', logs)
  BY <1>3, ReportedStays DEF ReadInv
<1>5. \A j \in Importers : Reading(importer[j], streams', logs)
  BY <1>3, ReadingStays DEF ReadInv
<1>6. LogsKept'
  BY <1>1 DEF ReadInv, LogsKept
<1> QED BY <1>1, <1>4, <1>5, <1>6 DEF ReadInv

LEMMA StartImportReads ==
  ASSUME ReadInv, IInv', NEW i \in Importers, StartImport(i) PROVE ReadInv'
<1>1. PICK asked \in Projects \cup {Every} :
        importer' = [importer EXCEPT ![i] =
          [Idle EXCEPT !.pc = "read",
                       !.left = IF asked = Every THEN WithLogs ELSE <<asked>>]]
  BY DEF StartImport
<1> DEFINE left == IF asked = Every THEN WithLogs ELSE <<asked>>
           k == [Idle EXCEPT !.pc = "read", !.left = left]
<1>2. left \in Seq(Projects)
  BY WithLogsIs
<1> HIDE DEF left
<1>3. Reading(k, streams', logs)
  BY <1>2 DEF Idle, Reading
<1>4. UNCHANGED <<logs, written>> /\ streams' = streams /\ reported' = reported
  BY DEF StartImport
<1>5. importer' = [importer EXCEPT ![i] = k]
  BY <1>1 DEF left
<1> HIDE DEF k
<1> QED BY <1>3, <1>4, <1>5, GrowNone, ReadMoves DEF ReadInv

\* Lines of a log are lines.
LEMMA LogIs ==
  ASSUME LogsKept, NEW p \in Projects, logs[p] # NoLog
  PROVE  /\ Log(p) \in Seq(Lines)
         /\ \A n \in 1..Len(Log(p)) : n \in 1..Len(logs[p]) /\ Log(p)[n] = logs[p][n]
<1> DEFINE L == Lines
<1>1. logs[p] \in Seq(L)
  <2>1. PICK first \in LogsAtFirst : \A r \in Projects : logs[r] = first[r].lines
    BY DEF LogsKept
  <2> QED BY <2>1, LogsAssumption DEF Lines
<1>2. written[p] \in Nat /\ written[p] <= Len(logs[p])
  BY DEF LogsKept
<1> HIDE DEF L
<1>3. /\ Log(p) \in Seq(L) /\ Len(Log(p)) = written[p] /\ Len(logs[p]) \in Nat
      /\ \A n \in 1..written[p] : Log(p)[n] = logs[p][n]
  BY <1>1, <1>2 DEF Log
<1> QED BY <1>2, <1>3 DEF L

LEMMA ReadLogReads ==
  ASSUME ReadInv, IInv', NEW i \in Importers, ReadLog(i) PROVE ReadInv'
<1> DEFINE p == Project(i)
<1>1. UNCHANGED <<logs, written>> /\ streams' = streams /\ reported' = reported
  BY DEF ReadLog
<1>2. Grow /\ ReportedHeld(reported', streams', logs)
  BY <1>1, GrowNone DEF ReadInv
<1>3. Reading(importer[i], streams', logs) /\ importer[i].left \in Seq(Projects)
  BY <1>1 DEF ReadInv, Reading
<1>4. OfLog(NewReport, logs[p]) /\ OfLog([NewReport EXCEPT !.failed = TRUE], logs[p])
  BY DEF OfLog, NewReport
<1>5. Handled(NewReport, p, streams', Len(NewReport.records))
  BY DEF Handled, NewReport
<1>6. CASE importer[i].left = <<>> /\ importer' = [importer EXCEPT ![i].pc = "done"]
  <2> DEFINE k == [importer[i] EXCEPT !.pc = "done"]
  <2>1. importer' = [importer EXCEPT ![i] = k]
    BY <1>6
  <2>2. IsImport(importer[i])
    BY DEF ReadInv, IInv, ImportSound
  <2>3. k.pc = "done" /\ k.left = <<>>
    BY <1>6, <2>2 DEF IsImport
  <2> HIDE DEF k
  <2>4. Reading(k, streams', logs)
    BY <2>3 DEF Reading
  <2> QED BY <1>1, <1>2, <2>1, <2>4, ReadMoves
<1>7. CASE importer[i].left # <<>> /\ NextProject(i, [NewReport EXCEPT !.failed = TRUE])
  <2>1. [NewReport EXCEPT !.failed = TRUE].failed
    BY DEF NewReport
  <2> HIDE DEF p
  <2> QED BY <1>1, <1>2, <1>4, <1>7, <2>1, NextProjectReads DEF p
<1>8. CASE importer[i].left # <<>> /\ NextProject(i, NewReport)
  BY <1>1, <1>2, <1>4, <1>5, <1>8, NextProjectReads
<1>9. CASE /\ importer[i].left # <<>>
           /\ logs[p] # NoLog /\ Readable(Log(p)) /\ Replayed(p) # <<>>
           /\ importer' = [importer EXCEPT
                ![i].pc = "step", ![i].at = 1, ![i].fold = NewFold,
                ![i].report = [NewReport EXCEPT !.records = Replayed(p)]]
  <2> DEFINE report == [NewReport EXCEPT !.records = Replayed(p)]
             k == [importer[i] EXCEPT !.pc = "step", !.at = 1, !.fold = NewFold,
                                      !.report = report]
  <2>1. importer' = [importer EXCEPT ![i] = k]
    BY <1>9
  <2>2. IsImport(importer[i])
    BY DEF ReadInv, IInv, ImportSound
  <2>3. p \in Projects
    BY <1>3, <1>9 DEF Project
  <2>4. /\ Log(p) \in Seq(Lines)
        /\ \A n \in 1..Len(Log(p)) : n \in 1..Len(logs[p]) /\ Log(p)[n] = logs[p][n]
    BY <1>9, <2>3, LogIs DEF ReadInv
  <2>5. /\ Replayed(p) \in Seq(LogRecords)
        /\ \A n \in 1..Len(Replayed(p)) : \E m \in 1..Len(Log(p)) : Replayed(p)[n] = Log(p)[m]
    BY <1>9, <2>4, ReplayIs DEF Replayed
  <2>6. report.records = Replayed(p)
    BY DEF NewReport
  <2>7. OfLog(report, logs[p])
    <3> SUFFICES ASSUME NEW n \in 1..Len(Replayed(p)) PROVE FromLog(logs[p], Replayed(p)[n])
      BY <2>5, <2>6 DEF OfLog
    <3>1. Replayed(p)[n] \in LogRecords
      BY <2>5, RecordOf
    <3>2. PICK m \in 1..Len(Log(p)) : Replayed(p)[n] = Log(p)[m]
      BY <2>5
    <3> QED BY <2>4, <3>1, <3>2 DEF FromLog
  <2>8. 1 \in 1..Len(report.records)
    <3> DEFINE R == LogRecords
    <3>1. Replayed(p) \in Seq(R)
      BY <2>5
    <3> HIDE DEF R
    <3>2. Len(Replayed(p)) \in Nat /\ Len(Replayed(p)) # 0
      BY <1>9, <3>1, EmptySeq
    <3> QED BY <2>6, <3>2
  <2>9. Handled(report, p, streams', 1 - 1)
    BY DEF Handled
  <2> HIDE DEF report
  <2>10. k.pc = "step" /\ k.left = importer[i].left /\ k.report = report /\ k.at = 1
    BY <2>2 DEF IsImport
  <2> HIDE DEF k
  <2>11. Reading(k, streams', logs)
    BY <1>3, <1>9, <2>7, <2>8, <2>9, <2>10 DEF Reading, Project
  <2> QED BY <1>1, <1>2, <2>1, <2>11, ReadMoves
<1> QED BY <1>6, <1>7, <1>8, <1>9 DEF ReadLog

\* What a record's step is, and what its command comes to.
LEMMA AddStep ==
  ASSUME NEW f, NEW repaired, NEW r, r.op = "add"
  PROVE  LET st == Stepped(f, repaired, r).step IN
         /\ st.kind \in {"run", "repaired", "lost"}
         /\ st.kind = "repaired" => AnomalyKey(r) \in repaired
BY DEF Stepped, AddStepped, Stepping, Run, Lost

LEMMA SentRecords ==
  ASSUME NEW f, NEW repaired, NEW r \in LogRecords, ~Retag(r),
         Stepped(f, repaired, r).step.kind = "run",
         NEW held, NEW taken \in BOOLEAN,
         Decide(held, taken, Stepped(f, repaired, r).step.command).refusal = Sound
  PROVE  Records(Decide(held, taken, Stepped(f, repaired, r).step.command))
<1>0. PICK c : c = Stepped(f, repaired, r).step.command
  OBVIOUS
<1> SUFFICES Records(Decide(held, taken, c))
  BY <1>0
<1>5. Decide(held, taken, c).refusal = Sound
  BY <1>0
<1>1. CASE r.op = "add"
  <2>1. c.type = "AddTask"
    BY <1>0, <1>1 DEF Stepped, AddStepped, Stepping, Run, Lost
  <2> QED BY <1>5, <2>1, AddDecided
<1>2. CASE r.op # "add"
  <2> DEFINE unless == CASE r.op \in {"tag", "untag"} -> RetagStepped(f, r)
                        [] r.op = "status" -> StatusStepped(f, r)
                        [] r.op = "text"   ->
                             Stepping(f, Run([type |-> "EditText", text |-> r.text]), {})
                        [] OTHER -> RemoveStepped(f, r)
  <2>1. r.task \in f.live /\ Stepped(f, repaired, r) = UnlessMissing(unless, r)
    BY <1>2 DEF Stepped, Stepping
  <2> HIDE DEF unless
  <2>2. c = unless.step.command
    BY <1>0, <2>1 DEF UnlessMissing, Stepping, Lost
  <2>3. CASE r.op = "status"
    <3>1. unless = StatusStepped(f, r)
      BY <2>3 DEF unless
    <3>2. c.type = "SetStatus" /\ c.trigger # Empty
      BY <2>2, <3>1
      DEF StatusStepped, Stepping, Run, DeferringOn, LeftOut, Absent, Empty
    <3>3. Decide(held, taken, c) = DecideSetStatus(held, c)
      BY <3>2 DEF Decide
    <3> QED BY <1>5, <3>2, <3>3
        DEF DecideSetStatus, Moved, Refused, Recorded, Records, Resting, Deferring, NoEvent, Sound
  <2>4. CASE r.op = "text"
    <3>1. unless = Stepping(f, Run([type |-> "EditText", text |-> r.text]), {})
      BY <2>4 DEF unless
    <3>2. c.type = "EditText"
      BY <2>2, <3>1 DEF Stepping, Run
    <3>3. Decide(held, taken, c) = DecideEdit(held, c)
      BY <3>2 DEF Decide
    <3> QED BY <1>5, <3>3 DEF DecideEdit, Refused, Recorded, Records, NoEvent, Sound
  <2>5. CASE r.op \notin {"status", "text", "tag", "untag"}
    <3>1. unless = RemoveStepped(f, r)
      BY <2>5 DEF unless
    <3>2. c.type = "RemoveTask"
      BY <2>2, <3>1 DEF RemoveStepped, Stepping, Run
    <3>3. Decide(held, taken, c) = DecideRemove(held, c)
      BY <3>2 DEF Decide
    <3> QED BY <1>5, <3>3 DEF DecideRemove, Refused, Recorded, Records, NoEvent, Sound
  <2> QED BY <2>3, <2>4, <2>5 DEF Retag
<1> QED BY <1>1, <1>2

\* What an import knows of the record it is at.
LEMMA AtLine ==
  ASSUME ReadInv, NEW i \in Importers, importer[i].pc \in {"step", "run"}
  PROVE  /\ importer[i].left # <<>>
         /\ Project(i) \in Projects
         /\ OfLog(importer[i].report, logs[Project(i)])
         /\ Record(i) \in LogRecords /\ Record(i).task \in Harps
         /\ FromLog(logs[Project(i)], Record(i))
<1>1. Reading(importer[i], streams, logs)
  BY DEF ReadInv
<1>2. /\ importer[i].left # <<>> /\ importer[i].left \in Seq(Projects)
      /\ OfLog(importer[i].report, logs[Project(i)])
      /\ importer[i].at \in 1..Len(importer[i].report.records)
  BY <1>1 DEF Reading, Project
<1>3. Project(i) \in Projects
  BY <1>2 DEF Project
<1>4. Record(i) \in LogRecords /\ Record(i).task \in Harps
  BY <1>2, RecordOf DEF OfLog, Record
<1>5. FromLog(logs[Project(i)], Record(i))
  BY <1>2 DEF OfLog, Record
<1> QED BY <1>2, <1>3, <1>4, <1>5

\* A record reported, in its stream but for a retag.
LEMMA Reports ==
  ASSUME NEW all, ReportedHeld(reported, all, logs), NEW p \in Projects, NEW r,
         FromLog(logs[p], r), ~Retag(r) => Held(p, all, r),
         reported' = [reported EXCEPT ![p] = @ \cup {r}]
  PROVE  ReportedHeld(reported', all, logs)
<1>1. \A q \in Projects : reported'[q] = IF q = p THEN reported[p] \cup {r} ELSE reported[q]
  BY DEF ReportedHeld
<1>2. reported' = [q \in Projects |-> reported'[q]]
  BY DEF ReportedHeld
<1>3. ASSUME NEW q \in Projects, NEW s \in reported'[q]
      PROVE  FromLog(logs[q], s) /\ (~Retag(s) => Held(q, all, s))
  <2>1. CASE s \in reported[q]
    BY <2>1 DEF ReportedHeld
  <2>2. CASE s \notin reported[q]
    <3>1. q = p /\ s = r
      BY <1>1, <1>3, <2>2
    <3> QED BY <3>1
  <2> QED BY <2>1, <2>2
<1> QED BY <1>2, <1>3 DEF ReportedHeld

LEMMA StepRecordReads ==
  ASSUME ReadInv, IInv', NEW i \in Importers, StepRecord(i) PROVE ReadInv'
<1>1. PICK p, r, step, repaired :
        /\ p = Project(i) /\ r = Record(i) /\ step = Step(i)
        /\ repaired = RepairedBy(importer[i].report.records)
  OBVIOUS
<1>2. PICK report : report = [importer[i].report EXCEPT !.lost = @ \cup LostTags(r, step.refused)]
  OBVIOUS
<1>3. /\ importer[i].pc = "step" /\ UNCHANGED <<logs, written>> /\ streams' = streams
      /\ Grow
  BY GrowNone DEF StepRecord
<1>4. /\ IInv /\ p \in Projects /\ FromLog(logs[p], r)
      /\ IsReport(importer[i].report) /\ importer[i].left # <<>>
      /\ OfLog(importer[i].report, logs[p])
      /\ ReportedHeld(reported, streams', logs)
  BY <1>1, <1>3, AtLine, AtRecord DEF ReadInv
<1>5. /\ IsReport(report) /\ report.records = importer[i].report.records
      /\ importer[i].report.lost \subseteq report.lost
  BY <1>2, <1>4 DEF IsReport
<1>6. r.op = "add" => /\ step.step.kind \in {"run", "repaired", "lost"}
                      /\ step.step.kind = "repaired" => AnomalyKey(r) \in repaired
  BY <1>1, AddStep DEF Step
\* The command is sent.
<1>7. CASE /\ importer' = [importer EXCEPT ![i].pc = "run", ![i].report = report]
           /\ reported' = reported
  <2> DEFINE k == [importer[i] EXCEPT !.pc = "run", !.report = report]
  <2>1. importer' = [importer EXCEPT ![i] = k]
    BY <1>7
  <2>2. IsImport(importer[i])
    BY DEF ReadInv, IInv, ImportSound
  <2>3. /\ k.pc = "run" /\ k.left = importer[i].left /\ k.report = report
        /\ k.at = importer[i].at
    BY <2>2 DEF IsImport
  <2> HIDE DEF k
  <2>4. Reading(importer[i], streams', logs)
    BY <1>3 DEF ReadInv
  <2>5. Reading(k, streams', logs)
    <3>1. /\ importer[i].left # <<>> /\ importer[i].left \in Seq(Projects)
          /\ OfLog(importer[i].report, logs[Head(importer[i].left)])
          /\ importer[i].at \in 1..Len(importer[i].report.records)
          /\ Handled(importer[i].report, Head(importer[i].left), streams', importer[i].at - 1)
      BY <1>3, <2>4 DEF Reading
    <3>2. OfLog(report, logs[Head(importer[i].left)])
      BY <1>5, <3>1 DEF OfLog
    <3>3. Handled(report, Head(importer[i].left), streams', importer[i].at - 1)
      BY <1>5, <3>1 DEF Handled
    <3> QED BY <1>5, <2>3, <3>1, <3>2, <3>3 DEF Reading
  <2> QED BY <1>3, <1>4, <1>7, <2>1, <2>5, ReadMoves
\* Or the record is done with.
<1>8. ASSUME NEW next, Onward(i, step.fold, next), next.records = report.records,
             report.lost \subseteq next.lost, ReportedHeld(reported', streams', logs),
             r.op = "add" => \/ next.lost # {} \/ Held(p, streams', r)
                             \/ AnomalyKey(r) \in repaired
      PROVE  ReadInv'
  <2>1. /\ next.records = importer[i].report.records
        /\ importer[i].report.lost \subseteq next.lost
    BY <1>5, <1>8
  <2>2. Record(i).op = "add" => \/ next.lost # {} \/ Held(Project(i), streams', Record(i))
                                \/ AnomalyKey(Record(i)) \in RepairedBy(next.records)
    BY <1>1, <1>8, <2>1
  <2> QED BY <1>1, <1>3, <1>8, <2>1, <2>2, OnwardReads
<1>9. CASE /\ Found(p, r)
           /\ Onward(i, step.fold, [report EXCEPT !.already = @ \cup {r}])
           /\ reported' = [reported EXCEPT ![p] = @ \cup {r}]
  <2> DEFINE next == [report EXCEPT !.already = @ \cup {r}]
  <2>1. next.records = report.records /\ next.lost = report.lost
    BY <1>5 DEF IsReport
  <2>2. Held(p, streams', r)
    BY <1>3, <1>9 DEF Found, Held
  <2>3. ReportedHeld(reported', streams', logs)
    BY <1>4, <1>9, <2>2, Reports
  <2> HIDE DEF next
  <2> QED BY <1>8, <1>9, <2>1, <2>2, <2>3 DEF next
<1>10. CASE /\ step.step.kind \in {"unchanged", "ignored", "nothing left"}
            /\ Onward(i, step.fold, [report EXCEPT !.passed = @ \cup {r}])
            /\ reported' = reported
  <2> DEFINE next == [report EXCEPT !.passed = @ \cup {r}]
  <2>1. next.records = report.records /\ next.lost = report.lost
    BY <1>5 DEF IsReport
  <2>2. r.op # "add"
    BY <1>6, <1>10
  <2> HIDE DEF next
  <2> QED BY <1>4, <1>8, <1>10, <2>1, <2>2 DEF next
<1>11. CASE /\ step.step.kind = "repaired"
            /\ Onward(i, step.fold, [report EXCEPT !.repaired = @ \cup {r}])
            /\ reported' = reported
  <2> DEFINE next == [report EXCEPT !.repaired = @ \cup {r}]
  <2>1. next.records = report.records /\ next.lost = report.lost
    BY <1>5 DEF IsReport
  <2> HIDE DEF next
  <2> QED BY <1>4, <1>6, <1>8, <1>11, <2>1 DEF next
<1>12. CASE /\ step.step.kind = "lost"
            /\ Onward(i, step.fold,
                 [report EXCEPT !.lost = @ \cup {[record |-> r, why |-> step.step.why]}])
            /\ reported' = reported
  <2> DEFINE new == [record |-> r, why |-> step.step.why]
             next == [report EXCEPT !.lost = @ \cup {new}]
  <2> HIDE DEF new
  <2>1. next.records = report.records /\ next.lost = report.lost \cup {new}
    BY <1>5 DEF IsReport
  <2> HIDE DEF next
  <2>2. Onward(i, step.fold, next)
    BY <1>12 DEF new, next
  <2> QED BY <1>4, <1>8, <1>12, <2>1, <2>2
<1>13. \/ /\ importer' = [importer EXCEPT ![i].pc = "run", ![i].report = report]
          /\ reported' = reported
       \/ /\ Found(p, r)
          /\ Onward(i, step.fold, [report EXCEPT !.already = @ \cup {r}])
          /\ reported' = [reported EXCEPT ![p] = @ \cup {r}]
       \/ /\ step.step.kind \in {"unchanged", "ignored", "nothing left"}
          /\ Onward(i, step.fold, [report EXCEPT !.passed = @ \cup {r}])
          /\ reported' = reported
       \/ /\ step.step.kind = "repaired"
          /\ Onward(i, step.fold, [report EXCEPT !.repaired = @ \cup {r}])
          /\ reported' = reported
       \/ /\ step.step.kind = "lost"
          /\ Onward(i, step.fold,
               [report EXCEPT !.lost = @ \cup {[record |-> r, why |-> step.step.why]}])
          /\ reported' = reported
  BY <1>1, <1>2 DEF StepRecord
<1> QED BY <1>7, <1>9, <1>10, <1>11, <1>12, <1>13

LEMMA RunRecordReads ==
  ASSUME ReadInv, IInv', NEW i \in Importers, RunRecord(i) PROVE ReadInv'
<1>1. PICK p, r, h, step, command, report :
        /\ p = Project(i) /\ r = Record(i) /\ h = r.task /\ step = Step(i)
        /\ command = step.step.command /\ report = importer[i].report
  OBVIOUS
<1>2. PICK taken \in BOOLEAN : taken <=> (streams[p][h] # <<>>)
  OBVIOUS
<1>3. PICK decision : decision = Decide(Task(p, h), taken, command)
  OBVIOUS
<1>4. PICK page : page = [event |-> decision.event, id |-> IdOf(r), at |-> At(r)]
  OBVIOUS
<1>5. /\ importer[i].pc = "run" /\ UNCHANGED <<logs, written>>
      /\ IInv /\ p \in Projects /\ h \in Harps /\ FromLog(logs[p], r) /\ r \in LogRecords
      /\ IsReport(report) /\ importer[i].left # <<>>
      /\ ReportedHeld(reported, streams, logs)
  BY <1>1, AtLine, AtRecord DEF RunRecord, ReadInv
<1>6. step.step.kind = "run" /\ step = Stepped(importer[i].fold, RepairedBy(report.records), r)
  BY <1>1, <1>5, AtRecord DEF ImportSound, IInv
<1>7. Decide(Task(p, h), streams[p][h] # <<>>, command) = decision
  <2>1. taken = (streams[p][h] # <<>>)
    BY <1>2, Zenon
  <2> QED BY <1>3, <2>1
<1>8. /\ streams' = [streams EXCEPT ![p][h] =
                       IF ~Found(p, r) /\ Records(decision) THEN Append(@, page) ELSE @]
      /\ \/ /\ Found(p, r) \/ decision.refusal = Sound
            /\ Onward(i, step.fold, [report EXCEPT !.applied = @ \cup {r}])
            /\ reported' = [reported EXCEPT ![p] = @ \cup {r}]
         \/ /\ ~(Found(p, r) \/ decision.refusal = Sound)
            /\ \E fold, why :
                 Onward(i, fold, [report EXCEPT !.lost = @ \cup {[record |-> r, why |-> why]}])
            /\ reported' = reported
  BY <1>1, <1>4, <1>7 DEF RunRecord
\* What was found stays, and what is recorded is found.
<1>16. /\ ~Found(p, r) /\ Records(decision) =>
            streams' = [streams EXCEPT ![p][h] = Append(@, page)]
       /\ ~(~Found(p, r) /\ Records(decision)) => streams' = [streams EXCEPT ![p][h] = @]
  BY <1>8, Zenon
<1>9. Grow /\ (~Found(p, r) /\ Records(decision) => Held(p, streams', r))
  <2>1. CASE ~Found(p, r) /\ Records(decision)
    <3>1. streams' = [streams EXCEPT ![p][h] = Append(@, page)]
      BY <1>16, <2>1
    <3> IInv /\ p \in Projects /\ h \in Harps
      BY <1>5
    <3>4. Grow
      BY <3>1, PageAppended
    <3>5. LET t == streams'[p][h] IN Len(t) \in DOMAIN t /\ t[Len(t)] = page
      BY <3>1, PageAppended
    <3>6. page.id = IdOf(r)
      BY <1>4
    <3>7. Held(p, streams', r)
      BY <1>1, <3>5, <3>6 DEF Held
    <3> QED BY <3>4, <3>7
  <2>2. CASE ~(~Found(p, r) /\ Records(decision))
    <3>1. streams' = [streams EXCEPT ![p][h] = @]
      BY <1>16, <2>2
    <3>2. streams = [q \in Projects |-> [g \in Harps |-> streams[q][g]]]
      BY <1>5 DEF IInv, StreamsSound
    <3>3. Grow
      <4>1. \A q \in Projects, g \in Harps : streams'[q][g] = streams[q][g]
        BY <3>1, <3>2
      <4> QED BY <4>1 DEF Grow
    <3> QED BY <2>2, <3>3
  <2> QED BY <2>1, <2>2
<1>10. Found(p, r) => Held(p, streams', r)
  BY <1>5, <1>9, HeldStays DEF Found, Held
<1>11. ReportedHeld(reported, streams', logs)
  BY <1>5, <1>9, ReportedStays
<1>12. ASSUME decision.refusal = Sound, ~Retag(r) PROVE Records(decision)
  BY <1>1, <1>3, <1>5, <1>6, <1>12, SentRecords
<1>13. ASSUME NEW fold, NEW next, Onward(i, fold, next), next.records = report.records,
              report.lost \subseteq next.lost, ReportedHeld(reported', streams', logs),
              r.op = "add" => next.lost # {} \/ Held(p, streams', r)
       PROVE  ReadInv'
  BY <1>1, <1>5, <1>9, <1>13, OnwardReads
<1>14. CASE /\ Found(p, r) \/ decision.refusal = Sound
            /\ Onward(i, step.fold, [report EXCEPT !.applied = @ \cup {r}])
            /\ reported' = [reported EXCEPT ![p] = @ \cup {r}]
  <2> DEFINE next == [report EXCEPT !.applied = @ \cup {r}]
  <2>1. next.records = report.records /\ next.lost = report.lost
    BY <1>5 DEF IsReport
  <2>2. ~Retag(r) => Held(p, streams', r)
    BY <1>9, <1>10, <1>12, <1>14
  <2>3. ReportedHeld(reported', streams', logs)
    BY <1>5, <1>11, <1>14, <2>2, Reports
  <2>4. r.op = "add" => Held(p, streams', r)
    BY <2>2 DEF Retag
  <2> HIDE DEF next
  <2> QED BY <1>13, <1>14, <2>1, <2>3, <2>4 DEF next
<1>15. CASE /\ \E fold, why :
                 Onward(i, fold, [report EXCEPT !.lost = @ \cup {[record |-> r, why |-> why]}])
            /\ reported' = reported
  <2>1. PICK fold, why :
          Onward(i, fold, [report EXCEPT !.lost = @ \cup {[record |-> r, why |-> why]}])
    BY <1>15
  <2> DEFINE new == [record |-> r, why |-> why]
             next == [report EXCEPT !.lost = @ \cup {new}]
  <2> HIDE DEF new
  <2>2. next.records = report.records /\ next.lost = report.lost \cup {new}
    BY <1>5 DEF IsReport
  <2> HIDE DEF next
  <2>3. Onward(i, fold, next)
    BY <2>1 DEF new, next
  <2>4. report.lost \subseteq next.lost /\ next.lost # {}
    BY <2>2
  <2>5. ReportedHeld(reported', streams', logs)
    BY <1>11, <1>15
  <2> QED BY <1>13, <2>2, <2>3, <2>4, <2>5
<1> QED BY <1>8, <1>14, <1>15

LEMMA StopReads ==
  ASSUME ReadInv, IInv', NEW i \in Importers, ProjectFails(i) \/ Crash(i) PROVE ReadInv'
<1>1. UNCHANGED <<logs, written>> /\ streams' = streams /\ reported' = reported
  BY DEF ProjectFails, Crash
<1>2. Grow /\ ReportedHeld(reported', streams', logs)
  BY <1>1, GrowNone DEF ReadInv
<1>3. CASE ProjectFails(i)
  <2> DEFINE report == [importer[i].report EXCEPT !.failed = TRUE]
  <2>1. importer[i].pc \in {"step", "run"} /\ NextProject(i, report)
    BY <1>3 DEF ProjectFails
  <2>2. /\ IsReport(importer[i].report) /\ importer[i].left # <<>>
        /\ OfLog(importer[i].report, logs[Project(i)])
    BY <2>1, AtLine, AtRecord DEF ReadInv
  <2>3. report.failed /\ report.records = importer[i].report.records
    BY <2>2 DEF IsReport
  <2> HIDE DEF report
  <2>4. OfLog(report, logs[Project(i)])
    BY <2>2, <2>3 DEF OfLog
  <2> QED BY <1>1, <1>2, <2>1, <2>2, <2>3, <2>4, NextProjectReads
<1>4. CASE Crash(i)
  <2>1. importer' = [importer EXCEPT ![i] = Idle]
    BY <1>4 DEF Crash
  <2>2. Reading(Idle, streams', logs)
    BY DEF Idle, Reading
  <2> QED BY <1>1, <1>2, <2>1, <2>2, ReadMoves
<1> QED BY <1>3, <1>4

LEMMA NextReads == ReadInv /\ [Next]_vars => ReadInv'
<1> SUFFICES ASSUME ReadInv, [Next]_vars PROVE ReadInv'
  OBVIOUS
<1>0. IInv'
  BY NextSound DEF ReadInv
<1>1. ASSUME NEW p \in Projects, AppendLine(p) PROVE ReadInv'
  BY <1>0, <1>1, AppendLineReads
<1>2. CASE Use
  BY <1>0, <1>2, UseReads
<1>3. ASSUME NEW i \in Importers,
             StartImport(i) \/ ReadLog(i) \/ StepRecord(i) \/ RunRecord(i)
               \/ ProjectFails(i) \/ Crash(i)
      PROVE  ReadInv'
  BY <1>0, <1>3, StartImportReads, ReadLogReads, StepRecordReads, RunRecordReads, StopReads
<1>4. CASE UNCHANGED vars
  BY <1>0, <1>4 DEF vars, ReadInv, LogsKept
<1> QED BY <1>1, <1>2, <1>3, <1>4 DEF Next

LEMMA SpecReads == Spec => []ReadInv
<1> QED BY InitReads, NextReads, PTL DEF Spec

------------------------------------------------------------------------------
(* What it comes to.                                                        *)

\* Whatever appends a page under a record's id ran the record's command.
LEMMA AppendedBy ==
  ASSUME ReadInv, [Next]_vars, NEW q \in Projects, NEW g \in Harps,
         Len(streams'[q][g]) > Len(streams[q][g]),
         NEW r, Last(streams'[q][g]).id = IdOf(r)
  PROVE  FromLog(logs[q], r) /\ ~Held(q, streams, r)
<1>1. PICK page, p, h :
        /\ streams' = [streams EXCEPT ![p][h] = Append(@, page)]
        /\ \/ page.id = User
           \/ \E i \in Importers : /\ importer[i].pc \in {"step", "run"}
                                   /\ p = Project(i) /\ page.id = IdOf(Record(i))
                                   /\ ~Found(p, Record(i))
  <2>1. streams' # streams
    <3> SUFFICES ASSUME streams' = streams PROVE FALSE
      OBVIOUS
    <3> DEFINE s == streams[q][g]
               S == {s[n] : n \in DOMAIN s}
    <3>1. s \in Seq(S)
      BY DEF ReadInv, IInv, StreamsSound, IsStream
    <3> HIDE DEF S
    <3>2. ~(Len(s) > Len(s))
      BY <3>1
    <3> QED BY <3>2
  <2>2. CASE Use
    <3>0. PICK u \in UserCommands : \E event :
            streams' = [streams EXCEPT ![u.project][u.harp] =
                          Append(@, [event |-> event, id |-> User, at |-> UserAt])]
      BY <2>2 DEF Use
    <3>1. PICK event :
            streams' = [streams EXCEPT ![u.project][u.harp] =
                          Append(@, [event |-> event, id |-> User, at |-> UserAt])]
      BY <3>0
    <3>2. PICK page, p, h : /\ page = [event |-> event, id |-> User, at |-> UserAt]
                            /\ p = u.project /\ h = u.harp
      OBVIOUS
    <3>3. streams' = [streams EXCEPT ![p][h] = Append(@, page)] /\ page.id = User
      BY <3>1, <3>2
    <3> QED BY <3>3
  <2>3. ASSUME NEW i \in Importers, RunRecord(i)
        PROVE  \E page, p, h :
                 /\ streams' = [streams EXCEPT ![p][h] = Append(@, page)]
                 /\ importer[i].pc = "run" /\ p = Project(i) /\ page.id = IdOf(Record(i))
                 /\ ~Found(p, Record(i))
    <3>1. PICK p, h, decision, page :
            /\ p = Project(i) /\ h = Record(i).task
            /\ decision = Decide(Task(Project(i), Record(i).task),
                                 streams[Project(i)][Record(i).task] # <<>>, Step(i).step.command)
            /\ page = [event |-> decision.event, id |-> IdOf(Record(i)), at |-> At(Record(i))]
      OBVIOUS
    <3>2. /\ importer[i].pc = "run"
          /\ streams' = [streams EXCEPT ![p][h] =
               IF ~Found(p, Record(i)) /\ Records(decision) THEN Append(@, page) ELSE @]
      BY <2>3, <3>1 DEF RunRecord
    <3>3. ~Found(p, Record(i)) /\ Records(decision)
      <4> SUFFICES ASSUME ~(~Found(p, Record(i)) /\ Records(decision)) PROVE streams' = streams
        BY <2>1
      <4>1. streams' = [streams EXCEPT ![p][h] = @]
        BY <3>2, Zenon
      <4>2. streams = [a \in Projects |-> [b \in Harps |-> streams[a][b]]]
        BY DEF ReadInv, IInv, StreamsSound
      <4> QED BY <4>1, <4>2
    <3>4. streams' = [streams EXCEPT ![p][h] = Append(@, page)]
      BY <3>2, <3>3, Zenon
    <3>5. page.id = IdOf(Record(i))
      BY <3>1
    <3>6. p = Project(i)
      BY <3>1
    <3> QED BY <3>2, <3>3, <3>4, <3>5, <3>6, Zenon
  <2>4. ASSUME \/ \E p \in Projects : AppendLine(p)
               \/ \E i \in Importers : StartImport(i) \/ ReadLog(i) \/ StepRecord(i)
                                         \/ ProjectFails(i) \/ Crash(i)
               \/ UNCHANGED vars
        PROVE  FALSE
    BY <2>1, <2>4 DEF AppendLine, StartImport, ReadLog, StepRecord, ProjectFails, Crash, vars
  <2>5. CASE \E i \in Importers : RunRecord(i)
    <3>1. PICK i \in Importers : RunRecord(i)
      BY <2>5
    <3>2. PICK page, p, h :
                 /\ streams' = [streams EXCEPT ![p][h] = Append(@, page)]
                 /\ importer[i].pc = "run" /\ p = Project(i) /\ page.id = IdOf(Record(i))
                 /\ ~Found(p, Record(i))
      BY <2>3, <3>1
    <3> QED BY <3>2
  <2> QED BY <2>2, <2>4, <2>5 DEF Next
<1>2. q = p /\ g = h /\ Last(streams'[q][g]) = page
  <2>1. IInv
    BY DEF ReadInv
  <2>2. streams' = [streams EXCEPT ![p][h] = Append(@, page)]
    BY <1>1
  <2>3. Alone(p, h, page)
    BY <2>1, <2>2, PageAppended
  <2> QED BY <2>3 DEF Alone
<1>3. page.id # User
  <2>1. IdOf(r) # User
    BY DEF IdOf, User
  <2> QED BY <1>2, <2>1
<1>4. PICK i \in Importers : /\ importer[i].pc \in {"step", "run"}
                             /\ p = Project(i) /\ page.id = IdOf(Record(i))
                             /\ ~Found(p, Record(i))
  BY <1>1, <1>3
<1>5. r = Record(i)
  BY <1>2, <1>4 DEF IdOf
<1> QED BY <1>2, <1>4, <1>5, AtLine DEF Found, Held

\* A record reported imported, and recorded by an import again, is a tag or an
\* untag.
OnlyRetagsComeAgain ==
  [][\A p \in Projects, h \in Harps :
       Len(streams'[p][h]) > Len(streams[p][h]) =>
         \A r \in reported[p] : Last(streams'[p][h]).id = IdOf(r) => Retag(r)]_vars

\* Whatever the logs hold and users do, an import run again, raced or stopped
\* records nothing anew of what was reported imported, but for a tag or untag
\* that changed nothing of a task a user had retagged (import.rs: a record's
\* command id derives from its line, and one found is skipped).
THEOREM OnlyRetagsAgain == Spec => OnlyRetagsComeAgain
<1>1. ASSUME ReadInv, [Next]_vars, NEW p \in Projects, NEW h \in Harps,
             Len(streams'[p][h]) > Len(streams[p][h]),
             NEW r \in reported[p], Last(streams'[p][h]).id = IdOf(r)
      PROVE  Retag(r)
  <2>1. ~Held(p, streams, r)
    BY <1>1, AppendedBy
  <2>2. ~Retag(r) => Held(p, streams, r)
    BY <1>1 DEF ReadInv, ReportedHeld
  <2> QED BY <2>1, <2>2
<1>2. ReadInv /\ [Next]_vars =>
        [\A p \in Projects, h \in Harps :
           Len(streams'[p][h]) > Len(streams[p][h]) =>
             \A r \in reported[p] : Last(streams'[p][h]).id = IdOf(r) => Retag(r)]_vars
  BY <1>1
<1> QED BY <1>2, SpecReads, PTL DEF Spec, OnlyRetagsComeAgain

\* No log tags or untags a task.
NoRetags ==
  \A first \in LogsAtFirst, p \in Projects : \A r :
    FromLog(first[p].lines, r) => ~Retag(r)

\* Of logs that retag nothing, a record is imported once, whatever races, stops
\* and is run again.
THEOREM ImportsOnce == ASSUME NoRetags PROVE Spec => ImportedOnce
<1>1. ASSUME ReadInv, [Next]_vars, NEW p \in Projects, NEW h \in Harps,
             Len(streams'[p][h]) > Len(streams[p][h]), NEW r \in reported[p]
      PROVE  Last(streams'[p][h]).id # IdOf(r)
  <2> SUFFICES ASSUME Last(streams'[p][h]).id = IdOf(r) PROVE FALSE
    OBVIOUS
  <2>1. ~Held(p, streams, r)
    BY <1>1, AppendedBy
  <2>2. FromLog(logs[p], r) /\ (~Retag(r) => Held(p, streams, r))
    BY <1>1 DEF ReadInv, ReportedHeld
  <2>3. ~Retag(r)
    BY <1>1, <2>2 DEF ReadInv, LogsKept, NoRetags
  <2> QED BY <2>1, <2>2, <2>3
<1>2. ReadInv /\ [Next]_vars =>
        [\A p \in Projects, h \in Harps :
           Len(streams'[p][h]) > Len(streams[p][h]) =>
             \A r \in reported[p] : Last(streams'[p][h]).id # IdOf(r)]_vars
  BY <1>1
<1> QED BY <1>2, SpecReads, PTL DEF Spec, ImportedOnce

\* Of an import over that lost nothing, an add is in its stream, or the log has
\* an add that says it repairs it.
LEMMA AddsAccounted ==
  ASSUME ReadInv, NEW i \in Importers, Over(i), Complete(importer[i].report),
         NEW r \in Range(importer[i].report.records), r.op = "add"
  PROVE  /\ FromLog(logs[Project(i)], r)
         /\ \/ Found(Project(i), r)
            \/ \E s \in Range(importer[i].report.records) :
                 s.op = "add" /\ s.repair_of = AnomalyKey(r) /\ s.repair_of # [task |-> NoKey]
<1>1. Reading(importer[i], streams, logs)
  BY DEF ReadInv
<1>2. /\ OfLog(importer[i].report, logs[Project(i)])
      /\ Handled(importer[i].report, Project(i), streams, Len(importer[i].report.records))
  BY <1>1 DEF Reading, Over, Project
<1> DEFINE records == importer[i].report.records
           R == LogRecords
<1>3. records \in Seq(R)
  BY <1>2 DEF OfLog
<1>4. PICK j \in 1..Len(records) : r = records[j]
  <2> HIDE DEF R, records
  <2>1. DOMAIN records = 1..Len(records)
    BY <1>3
  <2> QED BY <2>1 DEF Range, records
<1>5. FromLog(logs[Project(i)], r)
  BY <1>2, <1>4 DEF OfLog
<1>6. Held(Project(i), streams, r) \/ AnomalyKey(r) \in RepairedBy(records)
  BY <1>2, <1>4 DEF Handled, Complete
<1> QED BY <1>5, <1>6 DEF Held, Found, RepairedBy

\* An add that is repaired repairs none itself.
RepairsStand ==
  \A first \in LogsAtFirst, p \in Projects : \A r, s :
    /\ FromLog(first[p].lines, r) /\ FromLog(first[p].lines, s)
    /\ r.op = "add" /\ s.op = "add" /\ s.repair_of = AnomalyKey(r)
    => r.repair_of = [task |-> NoKey]

\* An import that says it left nothing behind left nothing: each add it read is
\* a page of its stream, or the one that repairs it is (import.rs, complete).
THEOREM NothingIsLeft == ASSUME RepairsStand PROVE Spec => []NothingLeftBehind
<1>1. ASSUME ReadInv, NEW i \in Importers, Over(i), Complete(importer[i].report),
             NEW r \in Range(importer[i].report.records), r.op = "add", ~Found(Project(i), r)
      PROVE  \E s \in Range(importer[i].report.records) :
               s.op = "add" /\ s.repair_of = AnomalyKey(r) /\ Found(Project(i), s)
  <2>1. FromLog(logs[Project(i)], r)
    BY <1>1, AddsAccounted
  <2>2. PICK s \in Range(importer[i].report.records) :
          s.op = "add" /\ s.repair_of = AnomalyKey(r) /\ s.repair_of # [task |-> NoKey]
    BY <1>1, AddsAccounted
  <2>3. FromLog(logs[Project(i)], s)
    BY <1>1, <2>2, AddsAccounted
  <2>4. Found(Project(i), s)
    <3> SUFFICES ASSUME ~Found(Project(i), s) PROVE FALSE
      OBVIOUS
    <3>1. PICK t \in Range(importer[i].report.records) :
            t.op = "add" /\ t.repair_of = AnomalyKey(s) /\ t.repair_of # [task |-> NoKey]
      BY <1>1, <2>2, AddsAccounted
    <3>2. FromLog(logs[Project(i)], t)
      BY <1>1, <3>1, AddsAccounted
    <3>3. Project(i) \in Projects
      BY <1>1 DEF ReadInv, Reading, Over, Project
    <3>4. s.repair_of = [task |-> NoKey]
      BY <1>1, <2>2, <2>3, <3>1, <3>2, <3>3 DEF ReadInv, LogsKept, RepairsStand
    <3> QED BY <2>2, <3>4
  <2> QED BY <2>2, <2>4
<1>2. ReadInv => NothingLeftBehind
  BY <1>1 DEF NothingLeftBehind
<1> QED BY <1>2, SpecReads, PTL
------------------------------------------------------------------------------
(* The stores' types: what an import sends, and a user, leaves each task    *)
(* whole.                                                                   *)

WholeTask(task) == task \in TaskStates /\ DeferralWhole(task) /\ task.harp_id # Empty

\* An event that sets no status, and any: of its type, and whole if it sets one.
PlainEvents == TextEditedEvents \cup RetaggedEvents \cup TaskRemovedEvents
WholeEvent(e) ==
  \/ /\ e \in TaskAddedEvents \cup StatusChangedEvents
     /\ (e.trigger # Empty) <=> (e.status = Defers)
     /\ (e.prior_status # Empty) <=> (e.status = Defers)
     /\ e.prior_status # Defers
  \/ e \in PlainEvents

\* The pages a stream may hold, and a stream of them, its task whole.
TypedPages ==
  [event: TaskEvents, id: {User} \cup {IdOf(r) : r \in LogRecords}, at: Nat]
TypedStream(s) == s \in Seq(TypedPages) /\ (s # <<>> => WholeTask(Folded(s)))

Commands ==
  AddTaskCommands \cup SetStatusCommands \cup EditTextCommands
    \cup RetagCommands \cup RemoveTaskCommands

\* No page, no task.
LEMMA NothingFolded == Folded(<<>>) = NoTask
<1> DEFINE F(f) == f = [n \in 0..Len(<<>>) |->
                          IF n = 0 THEN NoTask
                          ELSE Apply(f[n-1], (<<>>)[n].event, (<<>>)[n].at)]
           after == CHOOSE f : F(f)
<1>1. Len(<<>>) = 0 /\ 0..Len(<<>>) = {0}
  OBVIOUS
<1>2. F([n \in 0..Len(<<>>) |-> NoTask])
  BY <1>1
<1>3. F(after)
  BY <1>2
<1>4. after[0] = NoTask
  BY <1>1, <1>3
<1> QED BY <1>1, <1>4 DEF Folded

\* f[n] is the task the first n of the pages fold to.
Folds(f, pages, m) ==
  f = [n \in 0..m |-> IF n = 0 THEN NoTask
                      ELSE Apply(f[n-1], pages[n].event, pages[n].at)]

LEMMA FoldsExist == ASSUME NEW pages PROVE \A m \in Nat : \E f : Folds(f, pages, m)
<1> DEFINE T == {m \in Nat : \E f : Folds(f, pages, m)}
<1>1. 0 \in T
  <2>1. Folds([n \in 0..0 |-> NoTask], pages, 0)
    BY DEF Folds
  <2> QED BY <2>1
<1>2. ASSUME NEW m \in Nat, m \in T PROVE m + 1 \in T
  <2>1. PICK f : Folds(f, pages, m)
    BY <1>2
  <2> DEFINE on == Apply(f[m], pages[m + 1].event, pages[m + 1].at)
             g == [n \in 0..(m + 1) |-> IF n <= m THEN f[n] ELSE on]
  <2>2. (\A n \in 0..m : g[n] = f[n]) /\ g[m + 1] = on
    OBVIOUS
  <2>3. g = [n \in 0..(m + 1) |-> g[n]]
    OBVIOUS
  <2>4. \A n \in 0..m : f[n] = IF n = 0 THEN NoTask
                               ELSE Apply(f[n-1], pages[n].event, pages[n].at)
    BY <2>1 DEF Folds
  <2> HIDE DEF g
  <2>5. ASSUME NEW n \in 0..(m + 1)
        PROVE  g[n] = IF n = 0 THEN NoTask
                      ELSE Apply(g[n-1], pages[n].event, pages[n].at)
    <3>1. CASE n = m + 1
      <4>1. n # 0 /\ n - 1 = m /\ m \in 0..m
        BY <3>1
      <4> QED BY <2>2, <3>1, <4>1
    <3>2. CASE n \in 0..m
      <4>1. n # 0 => n - 1 \in 0..m
        BY <3>2
      <4> QED BY <2>2, <2>4, <3>2, <4>1
    <3> QED BY <3>1, <3>2
  <2>6. Folds(g, pages, m + 1)
    BY <2>3, <2>5 DEF Folds
  <2> QED BY <2>6
<1>3. Nat \subseteq T
  <2> HIDE DEF T
  <2> QED BY <1>1, <1>2, Induction
<1> QED BY <1>3

LEMMA FoldedIs ==
  ASSUME NEW pages, Len(pages) \in Nat
  PROVE  \E f : Folds(f, pages, Len(pages)) /\ Folded(pages) = f[Len(pages)]
<1>1. \E f : Folds(f, pages, Len(pages))
  BY FoldsExist
<1> QED BY <1>1 DEF Folded, Folds

\* One page more is one event more applied.
LEMMA FoldedAppend ==
  ASSUME NEW S, NEW s \in Seq(S), NEW page \in S
  PROVE  Folded(Append(s, page)) = Apply(Folded(s), page.event, page.at)
<1> DEFINE t == Append(s, page)
           L == Len(s)
<1>1. /\ L \in Nat /\ Len(t) = L + 1 /\ t[L + 1] = page
      /\ \A i \in 1..L : t[i] = s[i]
  BY AppendProperties
<1> HIDE DEF t
<1>2. PICK f : Folds(f, s, L) /\ Folded(s) = f[L]
  BY <1>1, FoldedIs
<1> HIDE DEF L
<1>3. PICK g : Folds(g, t, L + 1) /\ Folded(t) = g[L + 1]
  <2>1. Len(t) \in Nat
    BY <1>1
  <2>2. \E f_2 : Folds(f_2, t, Len(t)) /\ Folded(t) = f_2[Len(t)]
    BY <2>1, FoldedIs
  <2> QED BY <1>1, <2>2
<1>4. \A n \in 0..L : f[n] = IF n = 0 THEN NoTask
                             ELSE Apply(f[n-1], s[n].event, s[n].at)
  BY <1>2 DEF Folds
<1>5. \A n \in 0..(L + 1) : g[n] = IF n = 0 THEN NoTask
                                   ELSE Apply(g[n-1], t[n].event, t[n].at)
  BY <1>3 DEF Folds
<1> DEFINE T == {n \in Nat : n <= L => f[n] = g[n]}
<1>6. 0 \in T
  <2>1. 0 \in 0..L /\ 0 \in 0..(L + 1)
    BY <1>1
  <2>2. f[0] = NoTask /\ g[0] = NoTask
    BY <1>4, <1>5, <2>1
  <2> QED BY <2>2
<1>7. ASSUME NEW n \in Nat, n \in T, n + 1 <= L PROVE f[n + 1] = g[n + 1]
  <2>1. /\ n + 1 \in 0..L /\ n + 1 \in 0..(L + 1) /\ n + 1 # 0 /\ (n + 1) - 1 = n
        /\ n + 1 \in 1..L /\ n <= L
    BY <1>1, <1>7
  <2>2. f[n + 1] = Apply(f[n], s[n + 1].event, s[n + 1].at)
    BY <1>4, <2>1
  <2>3. g[n + 1] = Apply(g[n], t[n + 1].event, t[n + 1].at)
    BY <1>5, <2>1
  <2>4. t[n + 1] = s[n + 1] /\ f[n] = g[n]
    BY <1>1, <1>7, <2>1
  <2> QED BY <2>2, <2>3, <2>4
<1>8. Nat \subseteq T
  <2>1. \A n \in Nat : n \in T => n + 1 \in T
    BY <1>1, <1>7
  <2> HIDE DEF T
  <2> QED BY <1>6, <2>1, Induction
<1>9. f[L] = g[L]
  <2>1. L \in T
    BY <1>1, <1>8
  <2> QED BY <1>1, <2>1
<1>10. g[L + 1] = Apply(g[L], page.event, page.at)
  <2>1. L + 1 \in 0..(L + 1) /\ L + 1 # 0 /\ (L + 1) - 1 = L
    BY <1>1
  <2> QED BY <1>1, <1>5, <2>1
<1> QED BY <1>2, <1>3, <1>9, <1>10 DEF t

\* What an add records.
LEMMA AddWhole ==
  ASSUME NEW a \in AddTaskCommands, AddRefusal(a) = Sound
  PROVE  TaskAddedOf(a) \in TaskAddedEvents /\ WholeEvent(TaskAddedOf(a))
<1>1. a.text \in Texts
  BY DEF AddRefusal, TextRefusal, Sound, AddTaskCommands
<1>2. a.status = Absent \/ a.status \in Statuses
  BY DEF AddRefusal, StatusRefusal, GivenBlank, Sound, AddTaskCommands, Optional
<1>3. a.trigger = Absent \/ a.trigger \in Triggers
  BY DEF AddRefusal, StatusRefusal, GivenBlank, Sound, AddTaskCommands, Optional
<1>4. AddedStatus(a) \in Statuses
  BY <1>2, TaxonomyAssumption DEF AddedStatus
<1>5. (a.trigger # Absent) <=> (AddedStatus(a) = Defers)
  BY DEF AddRefusal, Sound
<1>6. TaskAddedOf(a) \in TaskAddedEvents
  BY <1>1, <1>3, <1>4, TaxonomyAssumption DEF TaskAddedOf, TaskAddedEvents, AddTaskCommands, Never
<1>7. /\ (TaskAddedOf(a).trigger # Empty) <=> (TaskAddedOf(a).status = Defers)
      /\ (TaskAddedOf(a).prior_status # Empty) <=> (TaskAddedOf(a).status = Defers)
      /\ TaskAddedOf(a).prior_status # Defers
  BY <1>3, <1>5, TaxonomyAssumption, NamesAssumption DEF TaskAddedOf
<1> QED BY <1>6, <1>7 DEF WholeEvent

\* A whole task deferred, on a trigger, and one at rest.
LEMMA DeferringWhole ==
  ASSUME NEW held, WholeTask(held), NEW t \in Triggers
  PROVE  WholeEvent(Deferring(held, t))
<1> DEFINE prior == IF held.status = Defers THEN held.prior_status ELSE held.status
<1>1. prior \in Statuses /\ prior # Empty /\ prior # Defers
  BY TaxonomyAssumption DEF WholeTask, TaskStates, DeferralWhole
<1>2. Deferring(held, t) =
        [type |-> "StatusChanged", status |-> Defers, trigger |-> t, at |-> Never,
         deferred_since |-> Never, prior_status |-> prior]
  BY DEF Deferring
<1>3. t # Empty
  BY NamesAssumption
<1> HIDE DEF prior
<1> QED BY <1>1, <1>2, <1>3, TaxonomyAssumption DEF StatusChangedEvents, WholeEvent, Never

LEMMA RestingWhole ==
  ASSUME NEW s \in Statuses, s # Defers PROVE WholeEvent(Resting(s))
BY TaxonomyAssumption, NamesAssumption DEF Resting, StatusChangedEvents, WholeEvent, Never

\* What a change of a whole task records.
LEMMA MovedWhole ==
  ASSUME NEW held, WholeTask(held), NEW a \in SetStatusCommands, ChangeRefusal(a) = Sound,
         Records(Moved(held, a))
  PROVE  WholeEvent(Moved(held, a).event)
<1> DEFINE e == Moved(held, a).event
<1>1. a.status = Absent \/ a.status \in Statuses
  BY DEF ChangeRefusal, StatusRefusal, GivenBlank, Sound, SetStatusCommands, Optional
<1>2. a.trigger \in {Absent, Empty} \cup Triggers
  BY DEF ChangeRefusal, StatusRefusal, Sound, SetStatusCommands, Optional
<1>3. Absent \notin Triggers /\ Empty \notin Triggers /\ Absent # Empty
  BY NamesAssumption DEF Absent, Empty
<1>4. CASE a.trigger \in Triggers
  BY <1>4, DeferringWhole DEF Moved, Recorded
<1>5. CASE a.trigger = Empty
  <2>1. a.status # Absent => a.status \in Statuses /\ a.status # Defers
    BY <1>1, <1>5 DEF ChangeRefusal, Sound
  <2>2. held.trigger # Empty => held.prior_status \in Statuses /\ held.prior_status # Defers
    BY DEF WholeTask, DeferralWhole, TaskStates
  <2>3. /\ a.status # Absent \/ held.trigger # Empty
        /\ e = IF a.status # Absent THEN Resting(a.status) ELSE Resting(held.prior_status)
    BY <1>3, <1>5 DEF Moved, Recorded, Records, Unchanged, NoEvent
  <2> QED BY <2>1, <2>2, <2>3, RestingWhole
<1>6. CASE a.trigger = Absent
  <2>1. a.status \in Statuses
    BY <1>1, <1>6, TaxonomyAssumption DEF ChangeRefusal, Sound
  <2>2. CASE a.status # Defers
    BY <1>3, <1>6, <2>1, <2>2, RestingWhole DEF Moved, Recorded
  <2>3. CASE a.status = Defers
    <3>1. held.trigger \in Triggers /\ e = Deferring(held, held.trigger)
      BY <1>3, <1>6, <2>3 DEF Moved, Recorded, Records, Refused, NoEvent, WholeTask, TaskStates
    <3> QED BY <3>1, DeferringWhole
  <2> QED BY <2>2, <2>3
<1> QED BY <1>2, <1>4, <1>5, <1>6

\* What is decided of a whole task, or of none, is whole, and adds to none only.
LEMMA DecidedWhole ==
  ASSUME NEW s, TypedStream(s), NEW a \in Commands,
         Records(Decide(Folded(s), s # <<>>, a))
  PROVE  LET e == Decide(Folded(s), s # <<>>, a).event IN
         WholeEvent(e) /\ (e.type = "TaskAdded" <=> s = <<>>)
<1> DEFINE taken == s # <<>>
           held == Folded(s)
           d == Decide(held, taken, a)
           e == d.event
<1>1. (taken => WholeTask(held)) /\ (~taken => held.harp_id = Empty) /\ Records(d)
  BY NothingFolded DEF TypedStream, NoTask
<1> HIDE DEF held
<1>2. LiveRefusal(held) = Sound => WholeTask(held) /\ taken
  BY <1>1 DEF LiveRefusal, Sound
<1>3. SUFFICES WholeEvent(e) /\ (e.type = "TaskAdded" <=> ~taken)
  BY DEF held
<1> HIDE DEF taken
<1>4. CASE a \in AddTaskCommands
  <2>1. d = DecideAdd(taken, a)
    BY <1>4 DEF Decide, AddTaskCommands
  <2>2. AddRefusal(a) = Sound /\ d = Recorded(TaskAddedOf(a)) /\ ~taken
    BY <1>1, <2>1 DEF DecideAdd, Records, Refused, NoEvent
  <2>3. WholeEvent(TaskAddedOf(a)) /\ TaskAddedOf(a).type = "TaskAdded"
    BY <1>4, <2>2, AddWhole DEF TaskAddedOf
  <2> QED BY <2>2, <2>3 DEF Recorded
<1>5. CASE a \in SetStatusCommands
  <2>1. d = DecideSetStatus(held, a)
    BY <1>5 DEF Decide, SetStatusCommands
  <2>2. d = Moved(held, a) /\ ChangeRefusal(a) = Sound /\ LiveRefusal(held) = Sound
    BY <1>1, <2>1 DEF DecideSetStatus, Records, Refused, NoEvent
  <2>3. WholeEvent(e)
    BY <1>1, <1>2, <1>5, <2>2, MovedWhole
  <2>4. e.type # "TaskAdded"
    BY <2>2 DEF Moved, Recorded, Refused, Unchanged, NoEvent, Deferring, Resting
  <2> QED BY <1>2, <2>2, <2>3, <2>4
<1>6. CASE a \in EditTextCommands
  <2>1. d = DecideEdit(held, a)
    BY <1>6 DEF Decide, EditTextCommands
  <2>2. /\ e = [type |-> "TextEdited", text |-> a.text] /\ TextRefusal(a.text) = Sound
        /\ LiveRefusal(held) = Sound
    BY <1>1, <2>1 DEF DecideEdit, Records, Recorded, Refused, NoEvent
  <2>3. a.text \in Texts
    BY <1>6, <2>2 DEF EditTextCommands, TextRefusal, Sound
  <2> QED BY <1>2, <2>2, <2>3 DEF WholeEvent, PlainEvents, TextEditedEvents
<1>7. CASE a \in RetagCommands
  <2>1. d = DecideRetag(held, a)
    BY <1>7 DEF Decide, RetagCommands
  <2>2. /\ e = [type |-> "Retagged", tags |-> (held.tags \cup a.add) \ a.remove]
        /\ LiveRefusal(held) = Sound
    BY <1>1, <2>1 DEF DecideRetag, Records, Recorded, Refused, Unchanged, NoEvent
  <2>3. (held.tags \cup a.add) \ a.remove \in SUBSET TagNames
    BY <1>2, <1>7, <2>2 DEF WholeTask, TaskStates, RetagCommands
  <2> QED BY <1>2, <2>2, <2>3 DEF WholeEvent, PlainEvents, RetaggedEvents
<1>8. CASE a \in RemoveTaskCommands
  <2>1. d = DecideRemove(held, a)
    BY <1>8 DEF Decide, RemoveTaskCommands
  <2>2. /\ e = [type |-> "TaskRemoved", reason |-> a.reason] /\ LiveRefusal(held) = Sound
    BY <1>1, <2>1 DEF DecideRemove, Records, Recorded, Refused, NoEvent
  <2> QED BY <1>2, <1>8, <2>2 DEF WholeEvent, PlainEvents, TaskRemovedEvents, RemoveTaskCommands
<1> QED BY <1>4, <1>5, <1>6, <1>7, <1>8 DEF Commands

\* A whole event leaves a whole task, on whatever task.
LEMMA AppliedWhole ==
  ASSUME NEW e, WholeEvent(e), NEW at \in Nat, NEW held,
         IF e.type = "TaskAdded" THEN held = NoTask ELSE WholeTask(held)
  PROVE  WholeTask(Apply(held, e, at)) /\ e \in TaskEvents
<1>0. at \in Int /\ at # Never /\ Never \in Int
  BY DEF Never
<1>1. CASE e \in TaskAddedEvents
  <2> DEFINE i == InstantOf(e.at, at)
             d == DeferredSince(e.deferred_since, e.trigger, i, Never)
  <2>1. e.type = "TaskAdded" /\ held = NoTask
    BY <1>1 DEF TaskAddedEvents
  <2>2. i \in Int /\ i # Never
    BY <1>0, <1>1 DEF InstantOf, TaskAddedEvents
  <2>3. d \in Int /\ (e.trigger # Empty => d # Never)
    BY <1>0, <1>1, <2>2 DEF DeferredSince, TaskAddedEvents
  <2>4. Apply(held, e, at) =
          [harp_id |-> e.harp_id, text |-> e.text, status |-> e.status, trigger |-> e.trigger,
           tags |-> e.tags, created_at |-> i, status_set_at |-> i, deferred_since |-> d,
           removed |-> FALSE, prior_status |-> e.prior_status]
    BY <2>1 DEF Apply, ApplyAdded, NoTask
  <2> HIDE DEF i, d
  <2>5. Apply(held, e, at) \in TaskStates
    BY <1>1, <2>2, <2>3, <2>4 DEF TaskStates, TaskAddedEvents
  <2>6. e.status # Empty /\ e.harp_id # Empty
    BY <1>1, NamesAssumption DEF TaskAddedEvents
  <2>7. /\ (e.trigger # Empty) <=> (e.status = Defers)
        /\ (e.prior_status # Empty) <=> (e.status = Defers)
        /\ e.prior_status # Defers
    BY <1>1 DEF WholeEvent, PlainEvents, TextEditedEvents, RetaggedEvents, TaskRemovedEvents,
                 TaskAddedEvents
  <2>8. e \in TaskEvents
    BY <1>1 DEF TaskEvents
  <2> QED BY <2>3, <2>4, <2>5, <2>6, <2>7, <2>8 DEF DeferralWhole, WholeTask
<1>2. CASE e \in StatusChangedEvents
  <2> DEFINE i == InstantOf(e.at, at)
             d == DeferredSince(e.deferred_since, e.trigger, i, held.deferred_since)
  <2>1. e.type = "StatusChanged" /\ WholeTask(held)
    BY <1>2 DEF StatusChangedEvents
  <2>2. i \in Int /\ i # Never
    BY <1>0, <1>2 DEF InstantOf, StatusChangedEvents
  <2>3. d \in Int /\ (e.trigger # Empty => d # Never)
    BY <1>0, <1>2, <2>1, <2>2 DEF DeferredSince, StatusChangedEvents, TaskStates, WholeTask
  <2>4. Apply(held, e, at) =
          [held EXCEPT !.status = e.status, !.trigger = e.trigger, !.status_set_at = i,
                       !.deferred_since = d, !.prior_status = e.prior_status]
    BY <2>1 DEF Apply, ApplyStatusChanged
  <2> HIDE DEF i, d
  <2>5. held \in TaskStates /\ held.harp_id # Empty
    BY <2>1 DEF WholeTask
  <2>6. Apply(held, e, at) \in TaskStates
    BY <1>2, <2>2, <2>3, <2>4, <2>5 DEF TaskStates, StatusChangedEvents
  <2>7. e.status # Empty
    BY <1>2, NamesAssumption DEF StatusChangedEvents
  <2>8. /\ (e.trigger # Empty) <=> (e.status = Defers)
        /\ (e.prior_status # Empty) <=> (e.status = Defers)
        /\ e.prior_status # Defers
    BY <1>2 DEF WholeEvent, PlainEvents, TextEditedEvents, RetaggedEvents, TaskRemovedEvents,
                 StatusChangedEvents
  <2>9. e \in TaskEvents
    BY <1>2 DEF TaskEvents
  <2>10. /\ Apply(held, e, at).harp_id = held.harp_id
         /\ Apply(held, e, at).status = e.status /\ Apply(held, e, at).trigger = e.trigger
         /\ Apply(held, e, at).prior_status = e.prior_status
         /\ Apply(held, e, at).deferred_since = d
    BY <2>4, <2>5 DEF TaskStates
  <2> QED BY <2>3, <2>5, <2>6, <2>7, <2>8, <2>9, <2>10 DEF DeferralWhole, WholeTask
<1>3. CASE e \in PlainEvents
  <2>1. /\ e.type \in {"TextEdited", "Retagged", "TaskRemoved"} /\ WholeTask(held)
        /\ e.type = "TextEdited" => e.text \in Texts
        /\ e.type = "Retagged" => e.tags \in SUBSET TagNames
    BY <1>3 DEF PlainEvents, TextEditedEvents, RetaggedEvents, TaskRemovedEvents
  <2>2. \/ e.type = "TextEdited" /\ Apply(held, e, at) = [held EXCEPT !.text = e.text]
        \/ e.type = "Retagged" /\ Apply(held, e, at) = [held EXCEPT !.tags = e.tags]
        \/ Apply(held, e, at) = [held EXCEPT !.removed = TRUE]
    BY <2>1 DEF Apply
  <2>3. e \in TaskEvents
    BY <1>3 DEF TaskEvents, PlainEvents
  <2> QED BY <2>1, <2>2, <2>3 DEF WholeTask, TaskStates, DeferralWhole
<1> QED BY <1>1, <1>2, <1>3 DEF WholeEvent

\* A page of what was decided of a stream, appended to it.
LEMMA AppendedTyped ==
  ASSUME NEW s, TypedStream(s), NEW a \in Commands, NEW at \in Nat,
         NEW id \in {User} \cup {IdOf(r) : r \in LogRecords},
         Records(Decide(Folded(s), s # <<>>, a))
  PROVE  TypedStream(Append(s, [event |-> Decide(Folded(s), s # <<>>, a).event, id |-> id,
                                at |-> at]))
<1> DEFINE e == Decide(Folded(s), s # <<>>, a).event
           page == [event |-> e, id |-> id, at |-> at]
<1>1. WholeEvent(e) /\ (e.type = "TaskAdded" <=> s = <<>>)
  BY DecidedWhole
<1> HIDE DEF e
<1>2. s \in Seq(TypedPages)
  BY DEF TypedStream
<1>3. IF e.type = "TaskAdded" THEN Folded(s) = NoTask ELSE WholeTask(Folded(s))
  BY <1>1, NothingFolded DEF TypedStream
<1>4. WholeTask(Apply(Folded(s), e, at)) /\ e \in TaskEvents
  BY <1>1, <1>3, AppliedWhole
<1>5. page \in TypedPages /\ page.event = e /\ page.at = at
  BY <1>4 DEF TypedPages
<1> HIDE DEF page
<1> DEFINE P == TypedPages
<1>6. page \in P /\ s \in Seq(P)
  BY <1>2, <1>5
<1> HIDE DEF P
<1>7. /\ Folded(Append(s, page)) = Apply(Folded(s), e, at)
      /\ Append(s, page) \in Seq(P)
  BY <1>5, <1>6, FoldedAppend, AppendProperties
<1>8. TypedStream(Append(s, page))
  BY <1>4, <1>7 DEF TypedStream, P
<1> QED BY <1>8 DEF page, e
------------------------------------------------------------------------------
(* Imports' types.                                                          *)

FoldTyped(f) ==
  /\ f.live \subseteq f.issued
  /\ f.missing \subseteq f.issued
  /\ f.tags \in [Harps -> SUBSET Spellings]
  /\ f.triggers \in [Harps -> Triggers \cup {Empty}]

ImportTyped(k) ==
  /\ k.pc \in {"idle", "open", "step", "run", "read", "done"}
  /\ FoldTyped(k.fold)
  /\ k.whole \in BOOLEAN

StreamsTyped == \A p \in Projects, h \in Harps : TypedStream(streams[p][h])

Uses == [imports: 0..MaxImports, uses: 0..MaxUses, fails: 0..MaxFails]

TypeInv ==
  /\ StreamsTyped
  /\ \A i \in Importers : ImportTyped(importer[i])
  /\ used \in Uses

\* What a record's step leaves of the fold, and the command it sends.
LEMMA StepTyped ==
  ASSUME NEW f, IsFold(f), FoldTyped(f), NEW repaired, NEW r \in LogRecords
  PROVE  LET st == Stepped(f, repaired, r) IN
         /\ FoldTyped(st.fold)
         /\ st.step.kind = "run" => /\ st.step.command \in Commands
                                    /\ r.op = "add" => r.task \in st.fold.issued
<1> DEFINE st == Stepped(f, repaired, r)
<1>1. /\ r.op \in Ops /\ r.task \in Harps /\ r.text \in Texts \cup {Blank}
      /\ r.status \in Statuses \cup {Empty, Blank}
      /\ r.trigger \in Triggers \cup {Empty, Blank} /\ r.tags \in SUBSET Spellings
  BY DEF LogRecords
<1>2. LeftOut(r.status) \in Optional(Statuses \cup ReservedStatuses)
  BY <1>1 DEF LeftOut, Optional
<1>3. Trimmed(r.trigger) \in Triggers \cup {Empty}
  BY <1>1 DEF Trimmed
<1>4. \A held \in Triggers \cup {Empty} :
        DeferringOn(r.status, held) \in Optional(Triggers)
  BY DEF DeferringOn, LeftOut, Optional
<1>5. \A spelled \in SUBSET Spellings : Importable(spelled) \in SUBSET TagNames
  BY LogAssumption DEF Importable
<1>6. CASE r.op = "add"
  <2>1. CASE r.task \in f.issued
    <3>1. st.fold = f /\ st.step.kind # "run"
      BY <1>6, <2>1 DEF Stepped, AddStepped, Stepping, Lost
    <3> QED BY <3>1
  <2>2. CASE r.task \notin f.issued
    <3> DEFINE g == [f EXCEPT !.issued = @ \cup {r.task}, !.live = @ \cup {r.task},
                              !.tags[r.task] = r.tags,
                              !.triggers[r.task] = Trimmed(r.trigger)]
               a == [type |-> "AddTask", harp_id |-> r.task, text |-> r.text,
                     status |-> LeftOut(r.status),
                     trigger |-> DeferringOn(r.status, Trimmed(r.trigger)),
                     tags |-> Importable(r.tags)]
    <3>1. st.fold = g /\ st.step.command = a
      BY <1>6, <2>2 DEF Stepped, AddStepped, Stepping, Run
    <3>2. /\ g.issued = f.issued \cup {r.task} /\ g.live = f.live \cup {r.task}
          /\ g.missing = f.missing
          /\ g.tags = [f.tags EXCEPT ![r.task] = r.tags]
          /\ g.triggers = [f.triggers EXCEPT ![r.task] = Trimmed(r.trigger)]
      BY DEF IsFold
    <3> HIDE DEF g
    <3>3. FoldTyped(g)
      BY <1>1, <1>3, <3>2 DEF FoldTyped
    <3>4. a \in AddTaskCommands
      BY <1>1, <1>2, <1>3, <1>4, <1>5 DEF AddTaskCommands
    <3> HIDE DEF a
    <3> QED BY <3>1, <3>2, <3>3, <3>4 DEF Commands
  <2> QED BY <2>1, <2>2
<1>7. CASE r.op # "add" /\ r.task \notin f.live
  <2>1. st.fold = f /\ st.step.kind # "run"
    BY <1>7 DEF Stepped, Stepping
  <2> QED BY <1>7, <2>1
<1>8. CASE r.op # "add" /\ r.task \in f.live
  <2> DEFINE unless == CASE r.op \in {"tag", "untag"} -> RetagStepped(f, r)
                        [] r.op = "status" -> StatusStepped(f, r)
                        [] r.op = "text"   ->
                             Stepping(f, Run([type |-> "EditText", text |-> r.text]), {})
                        [] OTHER -> RemoveStepped(f, r)
  <2>1. /\ FoldTyped(unless.fold)
        /\ unless.step.kind = "run" => unless.step.command \in Commands
    <3>1. CASE r.op \in {"tag", "untag"}
      <4> DEFINE after == IF r.op = "tag" THEN f.tags[r.task] \cup r.tags
                          ELSE f.tags[r.task] \ r.tags
                 add == Importable(after) \ Importable(f.tags[r.task])
                 remove == Importable(f.tags[r.task]) \ Importable(after)
                 g == [f EXCEPT !.tags[r.task] = after]
      <4>1. after \in SUBSET Spellings /\ f.tags[r.task] \in SUBSET Spellings
        BY <1>1 DEF FoldTyped
      <4>2. add \in SUBSET TagNames /\ remove \in SUBSET TagNames
        BY <1>5, <4>1
      <4>3. /\ unless.fold = g
            /\ unless.step.kind = "run" =>
                 unless.step.command = [type |-> "Retag", add |-> add, remove |-> remove]
        BY <3>1 DEF RetagStepped, Stepping, Run
      <4> HIDE DEF after, add, remove
      <4>4. /\ g.issued = f.issued /\ g.live = f.live /\ g.missing = f.missing
            /\ g.tags = [f.tags EXCEPT ![r.task] = after] /\ g.triggers = f.triggers
        BY DEF IsFold
      <4> HIDE DEF g
      <4>5. FoldTyped(g)
        BY <4>1, <4>4 DEF FoldTyped
      <4> HIDE DEF unless
      <4> QED BY <4>2, <4>3, <4>5 DEF Commands, RetagCommands
    <3>2. CASE r.op = "status"
      <4> DEFINE held == IF r.trigger = Empty THEN f.triggers[r.task] ELSE Trimmed(r.trigger)
                 g == [f EXCEPT !.triggers[r.task] = held]
      <4>1. held \in Triggers \cup {Empty}
        BY <1>1, <1>3 DEF FoldTyped
      <4>2. /\ unless.fold = g
            /\ unless.step.command = [type |-> "SetStatus", status |-> LeftOut(r.status),
                                      trigger |-> DeferringOn(r.status, held)]
        BY <3>2 DEF StatusStepped, Stepping, Run
      <4> HIDE DEF held
      <4>3. /\ g.issued = f.issued /\ g.live = f.live /\ g.missing = f.missing
            /\ g.tags = f.tags /\ g.triggers = [f.triggers EXCEPT ![r.task] = held]
        BY DEF IsFold
      <4> HIDE DEF g
      <4>4. FoldTyped(g)
        BY <4>1, <4>3 DEF FoldTyped
      <4> HIDE DEF unless
      <4> QED BY <1>2, <1>4, <4>1, <4>2, <4>4 DEF Commands, SetStatusCommands
    <3>3. CASE r.op = "text"
      <4>1. unless.fold = f /\ unless.step.command = [type |-> "EditText", text |-> r.text]
        BY <3>3 DEF Stepping, Run
      <4> HIDE DEF unless
      <4> QED BY <1>1, <4>1 DEF Commands, EditTextCommands
    <3>4. CASE r.op \notin {"tag", "untag", "status", "text"}
      <4> DEFINE g == [f EXCEPT !.live = @ \ {r.task}, !.triggers[r.task] = Empty]
      <4>1. /\ unless.fold = g
            /\ unless.step.command = [type |-> "RemoveTask", reason |-> "Removed"]
        BY <3>4 DEF RemoveStepped, Stepping, Run
      <4>2. /\ g.issued = f.issued /\ g.live = f.live \ {r.task} /\ g.missing = f.missing
            /\ g.tags = f.tags /\ g.triggers = [f.triggers EXCEPT ![r.task] = Empty]
        BY DEF IsFold
      <4> HIDE DEF g
      <4>3. FoldTyped(g)
        BY <4>2 DEF FoldTyped
      <4> HIDE DEF unless
      <4> QED BY <4>1, <4>3 DEF Commands, RemoveTaskCommands, Reasons
    <3> QED BY <3>1, <3>2, <3>3, <3>4
  <2>2. st = UnlessMissing(unless, r)
    BY <1>8 DEF Stepped
  <2> HIDE DEF unless, st
  <2>3. FoldTyped(st.fold) /\ (st.step.kind = "run" => st.step.command \in Commands)
    BY <2>1, <2>2 DEF UnlessMissing, Stepping, Lost
  <2> QED BY <1>8, <2>3 DEF st
<1> QED BY <1>6, <1>7, <1>8

\* An import at a record.
LEMMA AtRecordTyped ==
  ASSUME ReadInv, TypeInv, NEW i \in Importers, importer[i].pc \in {"step", "run"}
  PROVE  /\ Record(i) \in LogRecords /\ Project(i) \in Projects
         /\ FoldTyped(Step(i).fold)
         /\ Step(i).step.kind = "run" =>
              /\ Step(i).step.command \in Commands
              /\ Record(i).op = "add" => Record(i).task \in Step(i).fold.issued
<1>1. Reading(importer[i], streams, logs) /\ IInv
  BY DEF ReadInv
<1>2. /\ importer[i].left \in Seq(Projects) /\ importer[i].left # <<>>
      /\ importer[i].report.records \in Seq(LogRecords)
      /\ importer[i].at \in 1..Len(importer[i].report.records)
  BY <1>1 DEF Reading, OfLog
<1>3. Record(i) \in LogRecords
  BY <1>2, RecordOf DEF Record
<1>4. Project(i) \in Projects
  BY <1>2 DEF Project
<1>5. IsFold(importer[i].fold) /\ FoldTyped(importer[i].fold)
  BY <1>1, AtRecord DEF TypeInv, ImportTyped
<1>6. Step(i) = Stepped(importer[i].fold, RepairedBy(importer[i].report.records), Record(i))
  BY DEF Step
<1> QED BY <1>3, <1>4, <1>5, <1>6, StepTyped

LEMMA NewFoldTyped == FoldTyped(NewFold) /\ ImportTyped(Idle)
BY DEF FoldTyped, NewFold, ImportTyped, Idle

LEMMA ImportTypedMoves ==
  ASSUME ReadInv, TypeInv, StreamsTyped', used' \in Uses, NEW i \in Importers, NEW k,
         importer' = [importer EXCEPT ![i] = k], ImportTyped(k)
  PROVE  TypeInv'
<1>1. \A j \in Importers : importer'[j] = IF j = i THEN k ELSE importer[j]
  BY DEF ReadInv, IInv
<1> QED BY <1>1 DEF TypeInv

LEMMA NextProjectTyped ==
  ASSUME ReadInv, TypeInv, StreamsTyped', used' \in Uses, NEW i \in Importers, NEW report,
         NextProject(i, report)
  PROVE  TypeInv'
<1> DEFINE left == IF Len(importer[i].left) = 1 THEN <<Project(i)>> ELSE Tail(importer[i].left)
           pc == IF Len(importer[i].left) = 1 THEN "done" ELSE "read"
           whole == importer[i].whole /\ Complete(report)
           k == [Idle EXCEPT !.left = left, !.pc = pc, !.report = report, !.whole = whole]
<1>1. importer' = [importer EXCEPT ![i] = k]
  BY DEF NextProject
<1>2. pc \in {"read", "done"} /\ whole \in BOOLEAN
  OBVIOUS
<1> HIDE DEF left, pc, whole
<1>3. k.pc = pc /\ k.whole = whole /\ k.fold = NewFold
  BY DEF Idle
<1> HIDE DEF k
<1>4. ImportTyped(k)
  BY <1>2, <1>3, NewFoldTyped DEF ImportTyped
<1> QED BY <1>1, <1>4, ImportTypedMoves

LEMMA OnwardTyped ==
  ASSUME ReadInv, TypeInv, StreamsTyped', used' \in Uses, NEW i \in Importers, NEW fold,
         FoldTyped(fold), NEW report, Onward(i, fold, report)
  PROVE  TypeInv'
<1>1. CASE NextProject(i, report)
  BY <1>1, NextProjectTyped
<1>2. CASE importer' = [importer EXCEPT ![i].pc = "step", ![i].at = @ + 1,
                                        ![i].fold = fold, ![i].report = report]
  <2> DEFINE k == [importer[i] EXCEPT !.pc = "step", !.at = @ + 1, !.fold = fold,
                                      !.report = report]
  <2>1. importer' = [importer EXCEPT ![i] = k]
    BY <1>2
  <2>2. IsImport(importer[i]) /\ ImportTyped(importer[i])
    BY DEF ReadInv, IInv, ImportSound, TypeInv
  <2>3. k.pc = "step" /\ k.fold = fold /\ k.whole = importer[i].whole
    BY <2>2 DEF IsImport
  <2> HIDE DEF k
  <2>4. ImportTyped(k)
    BY <2>2, <2>3 DEF ImportTyped
  <2> QED BY <2>1, <2>4, ImportTypedMoves
<1> QED BY <1>1, <1>2 DEF Onward

LEMMA InitTyped == Init => TypeInv
<1> SUFFICES ASSUME Init PROVE TypeInv
  OBVIOUS
<1>1. StreamsTyped
  BY DEF Init, StreamsTyped, TypedStream
<1>2. \A i \in Importers : ImportTyped(importer[i])
  BY NewFoldTyped DEF Init
<1>3. used \in Uses
  BY ImportAssumption DEF Init, Uses
<1> QED BY <1>1, <1>2, <1>3 DEF TypeInv

LEMMA UseTyped == ASSUME ReadInv, TypeInv, Use PROVE TypeInv'
<1>1. PICK u \in UserCommands :
        LET decision == Decide(Task(u.project, u.harp), streams[u.project][u.harp] # <<>>,
                               u.command) IN
        /\ used.uses < MaxUses
        /\ Records(decision)
        /\ streams' = [streams EXCEPT ![u.project][u.harp] =
                         Append(@, [event |-> decision.event, id |-> User, at |-> UserAt])]
        /\ used' = [used EXCEPT !.uses = @ + 1]
        /\ importer' = importer
  BY DEF Use
<1> DEFINE s == streams[u.project][u.harp]
           page == [event |-> Decide(Folded(s), s # <<>>, u.command).event,
                    id |-> User, at |-> UserAt]
<1>2. u.project \in Projects /\ u.harp \in Harps /\ u.command \in Commands /\ UserAt \in Nat
  BY ImportAssumption DEF Commands
<1>3. TypedStream(s)
  BY <1>2 DEF TypeInv, StreamsTyped
<1>4. Records(Decide(Folded(s), s # <<>>, u.command))
  BY <1>1 DEF Task
<1>5. TypedStream(Append(s, page))
  BY <1>2, <1>3, <1>4, AppendedTyped
<1>6. streams' = [streams EXCEPT ![u.project][u.harp] = Append(@, page)]
  BY <1>1 DEF Task
<1> HIDE DEF page
<1>7. StreamsTyped'
  <2>1. \A p \in Projects, h \in Harps :
          streams'[p][h] = IF p = u.project /\ h = u.harp THEN Append(s, page)
                           ELSE streams[p][h]
    BY <1>6 DEF ReadInv, IInv, StreamsSound
  <2> QED BY <1>5, <2>1 DEF TypeInv, StreamsTyped
<1>8. used' \in Uses
  BY <1>1, ImportAssumption DEF TypeInv, Uses
<1> QED BY <1>1, <1>7, <1>8 DEF TypeInv

LEMMA StreamsTypedStay == ASSUME TypeInv, streams' = streams PROVE StreamsTyped'
BY DEF TypeInv, StreamsTyped

LEMMA ReadLogTyped ==
  ASSUME ReadInv, TypeInv, NEW i \in Importers, StartImport(i) \/ ReadLog(i)
  PROVE  TypeInv'
<1>1. StreamsTyped'
  BY StreamsTypedStay DEF StartImport, ReadLog
<1>2. CASE StartImport(i)
  <2>1. PICK left : importer' = [importer EXCEPT ![i] = [Idle EXCEPT !.pc = "read", !.left = left]]
    BY <1>2 DEF StartImport
  <2>2. ImportTyped([Idle EXCEPT !.pc = "read", !.left = left])
    BY NewFoldTyped DEF ImportTyped, Idle
  <2>3. used.imports < MaxImports /\ used' = [used EXCEPT !.imports = @ + 1]
    BY <1>2 DEF StartImport
  <2>4. used' \in Uses
    BY <2>3, ImportAssumption DEF TypeInv, Uses
  <2> QED BY <1>1, <2>1, <2>2, <2>4, ImportTypedMoves
<1>3. CASE ReadLog(i)
  <2>1. used' \in Uses
    BY <1>3 DEF ReadLog, TypeInv
  <2>2. IsImport(importer[i]) /\ ImportTyped(importer[i])
    BY DEF ReadInv, IInv, ImportSound, TypeInv
  <2>3. CASE importer' = [importer EXCEPT ![i].pc = "done"]
    <3>1. ImportTyped([importer[i] EXCEPT !.pc = "done"])
      BY <2>2 DEF ImportTyped, IsImport
    <3>2. importer' = [importer EXCEPT ![i] = [importer[i] EXCEPT !.pc = "done"]]
      BY <2>3
    <3> QED BY <1>1, <2>1, <3>1, <3>2, ImportTypedMoves
  <2>4. CASE \E report : NextProject(i, report)
    BY <1>1, <2>1, <2>4, NextProjectTyped
  <2>5. CASE importer' = [importer EXCEPT
               ![i].pc = "step", ![i].at = 1, ![i].fold = NewFold,
               ![i].report = [NewReport EXCEPT !.records = Replayed(Project(i))]]
    <3> DEFINE report == [NewReport EXCEPT !.records = Replayed(Project(i))]
               k == [importer[i] EXCEPT !.pc = "step", !.at = 1, !.fold = NewFold,
                                        !.report = report]
    <3>1. importer' = [importer EXCEPT ![i] = k]
      BY <2>5
    <3> HIDE DEF report
    <3>2. k.pc = "step" /\ k.fold = NewFold /\ k.whole = importer[i].whole
      BY <2>2 DEF IsImport
    <3> HIDE DEF k
    <3>3. ImportTyped(k)
      BY <2>2, <3>2, NewFoldTyped DEF ImportTyped
    <3> QED BY <1>1, <2>1, <3>1, <3>3, ImportTypedMoves
  <2> QED BY <1>3, <2>3, <2>4, <2>5 DEF ReadLog
<1> QED BY <1>2, <1>3

LEMMA StepRecordTyped ==
  ASSUME ReadInv, TypeInv, NEW i \in Importers, StepRecord(i) PROVE TypeInv'
<1>1. importer[i].pc = "step" /\ streams' = streams /\ used' = used
  BY DEF StepRecord
<1>2. StreamsTyped' /\ used' \in Uses
  BY <1>1, StreamsTypedStay DEF TypeInv
<1>3. FoldTyped(Step(i).fold)
  BY <1>1, AtRecordTyped
<1>4. CASE \E report : Onward(i, Step(i).fold, report)
  BY <1>2, <1>3, <1>4, OnwardTyped
<1>5. ASSUME NEW report, importer' = [importer EXCEPT ![i].pc = "run", ![i].report = report]
      PROVE  TypeInv'
  <2> DEFINE k == [importer[i] EXCEPT !.pc = "run", !.report = report]
  <2>1. importer' = [importer EXCEPT ![i] = k]
    BY <1>5
  <2>2. IsImport(importer[i]) /\ ImportTyped(importer[i])
    BY DEF ReadInv, IInv, ImportSound, TypeInv
  <2>3. k.pc = "run" /\ k.fold = importer[i].fold /\ k.whole = importer[i].whole
    BY <2>2 DEF IsImport
  <2> HIDE DEF k
  <2>4. ImportTyped(k)
    BY <2>2, <2>3 DEF ImportTyped
  <2> QED BY <1>2, <2>1, <2>4, ImportTypedMoves
<1> QED BY <1>4, <1>5 DEF StepRecord

LEMMA RunRecordTyped ==
  ASSUME ReadInv, TypeInv, NEW i \in Importers, RunRecord(i) PROVE TypeInv'
<1> DEFINE p == Project(i)
           r == Record(i)
           s == streams[p][r.task]
           a == Step(i).step.command
           page == [event |-> Decide(Folded(s), s # <<>>, a).event, id |-> IdOf(r), at |-> At(r)]
<1>1. /\ importer[i].pc = "run" /\ used' = used
      /\ streams' = [streams EXCEPT ![p][r.task] =
           IF ~Found(p, r) /\ Records(Decide(Folded(s), s # <<>>, a)) THEN Append(@, page) ELSE @]
  BY DEF RunRecord, Task
<1>2. /\ r \in LogRecords /\ p \in Projects /\ r.task \in Harps /\ At(r) \in Nat
      /\ FoldTyped(Step(i).fold)
  BY <1>1, AtRecordTyped DEF LogRecords, At, Instants
<1>3. /\ Step(i).step.kind = "run"
      /\ a \in Commands
      /\ r.op = "add" => r.task \in Step(i).fold.issued
  <2>1. Step(i).step.kind = "run"
    BY <1>1, AtRecord DEF ReadInv, IInv, ImportSound
  <2> QED BY <1>1, <2>1, AtRecordTyped
<1>4. TypedStream(s)
  BY <1>2 DEF TypeInv, StreamsTyped
<1>5. Records(Decide(Folded(s), s # <<>>, a)) => TypedStream(Append(s, page))
  BY <1>2, <1>3, <1>4, AppendedTyped
<1>6. StreamsTyped'
  <2> HIDE DEF page, a
  <2>1. \A q \in Projects, h \in Harps :
          streams'[q][h] =
            IF q = p /\ h = r.task
              THEN IF ~Found(p, r) /\ Records(Decide(Folded(s), s # <<>>, a)) THEN Append(s, page)
                   ELSE s
              ELSE streams[q][h]
    BY <1>1 DEF ReadInv, IInv, StreamsSound
  <2> QED BY <1>4, <1>5, <2>1 DEF TypeInv, StreamsTyped
<1>7. used' \in Uses
  BY <1>1 DEF TypeInv
<1>8. FoldTyped(NotImported(Step(i).fold, r))
  <2>1. IsFold(Step(i).fold)
    BY <1>1, AtRecord DEF ReadInv
  <2> QED BY <1>2, <1>3, <2>1 DEF NotImported, FoldTyped, IsFold
<1>9. \E report : \/ Onward(i, Step(i).fold, report)
                  \/ Onward(i, NotImported(Step(i).fold, r), report)
  BY DEF RunRecord
<1> QED BY <1>2, <1>6, <1>7, <1>8, <1>9, OnwardTyped

LEMMA StopTyped ==
  ASSUME ReadInv, TypeInv, NEW i \in Importers, ProjectFails(i) \/ Crash(i) PROVE TypeInv'
<1>1. StreamsTyped' /\ used' \in Uses
  <2>1. used.fails < MaxFails /\ used' = [used EXCEPT !.fails = @ + 1] /\ streams' = streams
    BY DEF ProjectFails, Crash
  <2> QED BY <2>1, StreamsTypedStay, ImportAssumption DEF TypeInv, Uses
<1>2. CASE ProjectFails(i)
  BY <1>1, <1>2, NextProjectTyped DEF ProjectFails
<1>3. CASE Crash(i)
  BY <1>1, <1>3, NewFoldTyped, ImportTypedMoves DEF Crash
<1> QED BY <1>2, <1>3

LEMMA NextImportTyped == ReadInv /\ TypeInv /\ [Next]_vars => TypeInv'
<1> SUFFICES ASSUME ReadInv, TypeInv, [Next]_vars PROVE TypeInv'
  OBVIOUS
<1>1. ASSUME NEW p \in Projects, AppendLine(p) PROVE TypeInv'
  BY <1>1 DEF AppendLine, TypeInv, StreamsTyped
<1>2. ASSUME NEW i \in Importers,
             StartImport(i) \/ ReadLog(i) \/ StepRecord(i) \/ RunRecord(i) \/ ProjectFails(i)
               \/ Crash(i)
      PROVE  TypeInv'
  BY <1>2, ReadLogTyped, StepRecordTyped, RunRecordTyped, StopTyped
<1>3. CASE UNCHANGED vars
  BY <1>3 DEF vars, TypeInv, StreamsTyped
<1> QED BY <1>1, <1>2, <1>3, UseTyped DEF Next

LEMMA TypesHold == ASSUME ReadInv, TypeInv PROVE TypeOK
<1>1. ASSUME NEW p \in Projects PROVE written[p] \in 0..Len(logs[p])
  <2>1. Len(logs[p]) \in Nat
    <3>1. PICK first \in LogsAtFirst : \A q \in Projects : logs[q] = first[q].lines
      BY DEF ReadInv, LogsKept
    <3> DEFINE S == LogRecords \cup {Malformed, BlankLine}
    <3>2. first[p].lines \in Seq(S) \cup {NoLog}
      BY LogsAssumption
    <3>3. Len(NoLog) = 1
      BY DEF NoLog
    <3> HIDE DEF S
    <3> QED BY <3>1, <3>2, <3>3
  <2> QED BY <2>1 DEF ReadInv, LogsKept
<1>2. ASSUME NEW p \in Projects, NEW h \in Harps, NEW n \in DOMAIN streams[p][h]
      PROVE  /\ streams[p][h][n].event \in TaskEvents
             /\ streams[p][h][n].id = User \/ streams[p][h][n].id[1] \in LogRecords
  <2> DEFINE P == TypedPages
  <2>1. streams[p][h] \in Seq(P)
    BY DEF TypeInv, StreamsTyped, TypedStream
  <2> HIDE DEF P
  <2>2. streams[p][h][n] \in P
    BY <2>1
  <2> QED BY <2>2 DEF P, TypedPages, IdOf
<1>3. ASSUME NEW p \in Projects PROVE reported[p] \subseteq LogRecords
  BY DEF ReadInv, ReportedHeld, FromLog
<1>4. \A i \in Importers : ImportTyped(importer[i])
  BY DEF TypeInv
<1>5. /\ used.imports \in 0..MaxImports /\ used.uses \in 0..MaxUses
      /\ used.fails \in 0..MaxFails
  BY DEF TypeInv, Uses
<1> QED BY <1>1, <1>2, <1>3, <1>4, <1>5 DEF TypeOK, ImportTyped, FoldTyped

\* The types of stores and imports: whatever a log says, a page holds an event
\* of its type, recorded from a line or by a user, and a fold misses, and holds
\* live, only what it issued.
THEOREM ImportTypeOK == Spec => []TypeOK
<1> QED BY SpecReads, InitTyped, NextImportTyped, TypesHold, PTL DEF Spec

\* Every task of a store is whole, whatever the logs imported into it say: it
\* has a status, it is deferred exactly while it holds a trigger and a status
\* to return to, and it knows since when (tasks::apply, import).
THEOREM ImportedTasksWhole ==
  Spec => [](\A p \in Projects, h \in Harps : streams[p][h] # <<>> => DeferralWhole(Task(p, h)))
<1>1. TypeInv => \A p \in Projects, h \in Harps :
                   streams[p][h] # <<>> => DeferralWhole(Task(p, h))
  BY DEF TypeInv, StreamsTyped, TypedStream, WholeTask, Task
<1> QED BY <1>1, SpecReads, InitTyped, NextImportTyped, PTL DEF Spec

------------------------------------------------------------------------------
(* What an import makes of its log: the tasks it says.                     *)

Added(R, h, n) == \E a \in 1..n : FirstAdd(R, h, a)
Deferrals(R, h, n) == {m \in Says(R, h, n, {"add", "status"}) : R[m].status = Defers}
About(R, h, n, s) ==
  {m \in Says(R, h, n, {"add", "tag", "untag"}) : R[m].op = "add" \/ s \in R[m].tags}
TagsAt(R, h, n) ==
  {s \in Spellings :
     \E m \in 1..n : IsLast(m, About(R, h, n, s)) /\ R[m].op # "untag" /\ s \in R[m].tags}

\* The trigger they leave it, whatever it came with.
HeldTrigger(R, h, n, v) ==
  /\ \A m \in 1..n : IsLast(m, Triggering(R, h, n)) => v = Trimmed(R[m].trigger)
  /\ Triggering(R, h, n) = {} => v = Empty

\* A record that changes the task as the log has it; one no task takes.
Sends(R, h, n) ==
  /\ Takes(R, h, n)
  /\ Retag(R[n]) => Importable(TagsAt(R, h, n)) # Importable(TagsAt(R, h, n - 1))
Unfit(r) ==
  \/ r.op \in {"add", "text"} /\ r.text = Blank
  \/ r.op \in {"add", "status"} /\ r.status = Blank
  \/ r.op = "status" /\ r.status = Empty
  \/ r.op = "add" /\ r.status = Defers /\ r.trigger \in {Empty, Blank}

\* Of the first n, each is one it can take.
Clean(R, h, n) ==
  \A m \in 1..n : Takes(R, h, m) =>
    ~Unfit(R[m]) /\ (DefersTask(R[m]) => TriggeredAt(R, h, m))

\* Task t is what the first n records say of the task of harp h.
TaskSays(t, R, h, n) ==
  IF ~Added(R, h, n) THEN t = NoTask
  ELSE
  /\ t.harp_id = h
  /\ \A a \in 1..n : FirstAdd(R, h, a) => t.created_at = R[a].ts
  /\ \A m \in 1..n : IsLast(m, Says(R, h, n, {"add", "text"})) => t.text = R[m].text
  /\ \A m \in 1..n : IsLast(m, Says(R, h, n, {"add", "status"})) =>
       /\ t.status = IF R[m].status = Empty THEN Initial ELSE R[m].status
       /\ t.status_set_at = R[m].ts
       /\ R[m].status # Defers => t.trigger = Empty
       /\ R[m].status = Defers => HeldTrigger(R, h, n, t.trigger)
  /\ t.tags = Importable(TagsAt(R, h, n))
  /\ \A m \in 1..n : IsLast(m, Deferrals(R, h, n)) => t.deferred_since = R[m].ts
  /\ Deferrals(R, h, n) = {} => t.deferred_since = Never
  /\ t.removed <=> Says(R, h, n, {"remove"}) # {}

\* A fold of the first n records, of harp h.
FoldSays(f, R, h, n) ==
  /\ h \in f.issued <=> Added(R, h, n)
  /\ h \in f.live <=> Added(R, h, n) /\ Says(R, h, n, {"remove"}) = {}
  /\ h \in f.live => HeldTrigger(R, h, n, f.triggers[h])
  /\ h \in f.issued => f.tags[h] = TagsAt(R, h, n)

\* A stream no user wrote to; a record of it; one past the first n.
Unshared(s) == \A i \in DOMAIN s : s[i].id # User
HasIn(s, r) == \E i \in DOMAIN s : s[i].id = IdOf(r)
Ahead(s, R, n) == \E m \in (n + 1)..Len(R) : HasIn(s, R[m])

\* The stream s of harp h, by the log's records R.
FromRecords(s, R, h) ==
  \A i \in DOMAIN s : s[i].id = User \/ \E n \in 1..Len(R) : R[n].task = h /\ s[i].id = IdOf(R[n])
InTurn(s, R, h) ==
  Unshared(s) =>
    \A n \in 1..Len(R) : HasIn(s, R[n]) =>
      /\ Clean(R, h, n) => Sends(R, h, n)
      /\ \A m \in 1..(n - 1) : Clean(R, h, m) /\ Sends(R, h, m) => HasIn(s, R[m])
      /\ Clean(R, h, n) /\ ~Ahead(s, R, n) => TaskSays(Folded(s), R, h, n)
Fit(s) == \A i \in DOMAIN s : \A r \in LogRecords : s[i].id = IdOf(r) => ~Unfit(r)
NeverDeferred(s, R, h) ==
  Unshared(s) /\ NeverTriggered(R, h) =>
    /\ Folded(s).trigger = Empty
    /\ \A n \in 1..Len(R) : DefersTask(R[n]) /\ Takes(R, h, n) => ~HasIn(s, R[n])
StreamKept(s, R, h) ==
  FromRecords(s, R, h) /\ InTurn(s, R, h) /\ Fit(s) /\ NeverDeferred(s, R, h)

\* What an import that is done with the first n knows of it, and has reported.
Caught(s, R, h, n) ==
  Unshared(s) =>
    /\ \A m \in 1..n : Clean(R, h, m) /\ Sends(R, h, m) => HasIn(s, R[m])
    /\ Clean(R, h, n) => Ahead(s, R, n) \/ TaskSays(Folded(s), R, h, n)
Told(report, s, R, h, n) ==
  \A m \in 1..n :
    Takes(R, h, m) /\ (Unfit(R[m]) \/ (Unshared(s) /\ NeverTriggered(R, h) /\ DefersTask(R[m])))
      => LeftOutOf(report, h) # {}
Knows(report, s, R, h, n) == Caught(s, R, h, n) /\ Told(report, s, R, h, n)

Begins(records, R) ==
  Len(records) <= Len(R) /\ \A n \in 1..Len(records) : records[n] = R[n]

\* The fold of an import at record n, and what it knows.
Midway(k, l, row) ==
  /\ l.lines # NoLog
  /\ Begins(k.report.records, Final(l))
  /\ \A h \in Harps :
       /\ FoldSays(k.fold, Final(l), h, k.at - 1)
       /\ Knows(k.report, row[h], Final(l), h, k.at - 1)
       /\ Unshared(row[h]) /\ Clean(Final(l), h, k.at - 1) => h \notin k.fold.missing

\* What a report on a whole log knows.
Brought(report, l, row) ==
  /\ l.lines # NoLog
  /\ Begins(report.records, Final(l))
  /\ \A h \in Harps : Knows(report, row[h], Final(l), h, Len(report.records))

Follows(k, l, row) ==
  /\ k.pc \in {"step", "run"} => Midway(k, l, row)
  /\ k.pc = "done" /\ k.left # <<>> /\ ~k.report.failed => Brought(k.report, l, row)

\* No one has read what is not written yet.
ReadBy(k, p) ==
  k.pc \in {"step", "run"} /\ Head(k.left) = p => Len(k.report.records) <= Len(Replayed(p))
Within(p, R, row) ==
  logs[p] # NoLog /\ Readable(Log(p)) =>
    /\ Begins(Replayed(p), R)
    /\ \A h \in Harps : \A n \in 1..Len(R) : HasIn(row[h], R[n]) => n <= Len(Replayed(p))
    /\ \A i \in Importers : ReadBy(importer[i], p)

AgreeFor(first, all) ==
  /\ \A p \in Projects : logs[p] = first[p].lines /\ first[p].written <= written[p]
  /\ \A p \in Projects : Within(p, Final(first[p]), all[p])
  /\ \A p \in Projects, h \in Harps : StreamKept(all[p][h], Final(first[p]), h)
  /\ \A i \in Importers :
       Follows(importer[i], first[Head(importer[i].left)], all[Head(importer[i].left)])
AgreeInv == \E first \in LogsAtFirst : AgreeFor(first, streams)

\* Of finitely many numbers, one is the last, and one the first.
LEMMA LastExists ==
  \A n \in Nat : \A S \in SUBSET (1..n) : S # {} => \E m \in 1..n : IsLast(m, S)
<1> DEFINE T == {n \in Nat : \A S \in SUBSET (1..n) : S # {} => \E m \in 1..n : IsLast(m, S)}
<1>1. 0 \in T
  <2>1. 1..0 = {}
    OBVIOUS
  <2> QED BY <2>1
<1>2. ASSUME NEW n \in Nat, n \in T PROVE n + 1 \in T
  <2> SUFFICES ASSUME NEW S \in SUBSET (1..(n + 1)), S # {}
               PROVE  \E m \in 1..(n + 1) : IsLast(m, S)
    OBVIOUS
  <2>1. CASE n + 1 \in S
    <3>1. IsLast(n + 1, S)
      BY <2>1 DEF IsLast
    <3> QED BY <3>1
  <2>2. CASE n + 1 \notin S
    <3>1. S \in SUBSET (1..n)
      BY <2>2
    <3>2. PICK m \in 1..n : IsLast(m, S)
      BY <1>2, <3>1
    <3> QED BY <3>2
  <2> QED BY <2>1, <2>2
<1>3. Nat \subseteq T
  <2> HIDE DEF T
  <2> QED BY <1>1, <1>2, Induction
<1> QED BY <1>3

LEMMA FirstExists ==
  \A n \in Nat : \A S \in SUBSET (1..n) : S # {} => \E m \in S : \A k \in S : m <= k
<1> DEFINE T == {n \in Nat : \A S \in SUBSET (1..n) : S # {} => \E m \in S : \A k \in S : m <= k}
<1>1. 0 \in T
  <2>1. 1..0 = {}
    OBVIOUS
  <2> QED BY <2>1
<1>2. ASSUME NEW n \in Nat, n \in T PROVE n + 1 \in T
  <2> SUFFICES ASSUME NEW S \in SUBSET (1..(n + 1)), S # {}
               PROVE  \E m \in S : \A k \in S : m <= k
    OBVIOUS
  <2>1. CASE S \cap (1..n) = {}
    <3>1. \A k \in S : k = n + 1
      BY <2>1
    <3>2. n + 1 \in S
      BY <3>1
    <3>3. \A k \in S : n + 1 <= k
      BY <3>1
    <3> QED BY <3>2, <3>3
  <2>2. CASE S \cap (1..n) # {}
    <3>1. PICK m \in S \cap (1..n) : \A k \in S \cap (1..n) : m <= k
      BY <1>2, <2>2
    <3>2. \A k \in S : m <= k
      BY <3>1
    <3> QED BY <3>1, <3>2
  <2> QED BY <2>1, <2>2
<1>3. Nat \subseteq T
  <2> HIDE DEF T
  <2> QED BY <1>1, <1>2, Induction
<1> QED BY <1>3

\* One number more, past all of them.
LEMMA LastOfMore ==
  ASSUME NEW n \in Nat, NEW S \in SUBSET (1..n), NEW m
  PROVE  IsLast(m, S \cup {n + 1}) <=> m = n + 1
<1>1. \A k \in S : k \in Int /\ k <= n
  OBVIOUS
<1>2. ASSUME IsLast(m, S \cup {n + 1}) PROVE m = n + 1
  <2>1. n + 1 <= m /\ m \in S \cup {n + 1}
    BY <1>2 DEF IsLast
  <2> QED BY <1>1, <2>1
<1>3. IsLast(n + 1, S \cup {n + 1})
  <2>1. \A k \in S \cup {n + 1} : k <= n + 1
    BY <1>1
  <2> QED BY <2>1 DEF IsLast
<1> QED BY <1>2, <1>3

------------------------------------------------------------------------------
(* What the log's task of a harp takes of its records.                      *)

LEMMA FirstAlone ==
  ASSUME NEW R, NEW h, NEW a, NEW b, FirstAdd(R, h, a), FirstAdd(R, h, b)
  PROVE  a = b
<1>1. a \in Int /\ b \in Int /\ a >= 1 /\ b >= 1
  BY DEF FirstAdd
<1>2. ~(a < b) /\ ~(b < a)
  BY <1>1 DEF FirstAdd
<1> QED BY <1>1, <1>2

LEMMA AddedIs ==
  ASSUME NEW R, NEW h, Len(R) \in Nat, NEW n \in 0..Len(R)
  PROVE  Added(R, h, n) <=> \E b \in 1..n : IsAdd(R[b], h)
<1>1. ASSUME Added(R, h, n) PROVE \E b \in 1..n : IsAdd(R[b], h)
  BY <1>1 DEF Added, FirstAdd
<1>2. ASSUME NEW b \in 1..n, IsAdd(R[b], h) PROVE Added(R, h, n)
  <2> DEFINE S == {k \in 1..n : IsAdd(R[k], h)}
  <2>1. S \in SUBSET (1..n) /\ S # {} /\ n \in Nat
    BY <1>2
  <2>2. PICK a \in S : \A k \in S : a <= k
    <3> HIDE DEF S
    <3> QED BY <2>1, FirstExists
  <2>3. FirstAdd(R, h, a) /\ a \in 1..n
    BY <2>2 DEF FirstAdd
  <2> QED BY <2>3 DEF Added
<1> QED BY <1>1, <1>2

\* It is removed once it takes a removal.
LEMMA RemovedIs ==
  ASSUME NEW R, NEW h, Len(R) \in Nat, NEW n \in 0..Len(R), NEW a \in 1..n, FirstAdd(R, h, a)
  PROVE  Says(R, h, n, {"remove"}) = {}
           <=> \A b \in a..n : ~(R[b].op = "remove" /\ R[b].task = h)
<1> DEFINE S == {b \in a..n : R[b].op = "remove" /\ R[b].task = h}
<1>1. ASSUME S # {} PROVE Says(R, h, n, {"remove"}) # {}
  <2>1. S \in SUBSET (1..n) /\ n \in Nat
    OBVIOUS
  <2>2. PICK b \in S : \A k \in S : b <= k
    <3> HIDE DEF S
    <3> QED BY <1>1, <2>1, FirstExists
  <2>3. /\ b \in 1..n /\ b \in 1..Len(R) /\ R[b].task = h /\ R[b].op = "remove" /\ a \in 1..b
    BY <2>2
  <2>4. \A k \in a..(b - 1) : ~(R[k].op = "remove" /\ R[k].task = h)
    BY <2>2
  <2>5. Takes(R, h, b)
    BY <2>3, <2>4 DEF Takes
  <2> QED BY <2>3, <2>5 DEF Says
<1>2. ASSUME Says(R, h, n, {"remove"}) # {} PROVE S # {}
  <2>1. PICK m \in 1..n : Takes(R, h, m) /\ R[m].op = "remove"
    BY <1>2 DEF Says
  <2>2. PICK c \in 1..m : FirstAdd(R, h, c)
    BY <2>1 DEF Takes
  <2>3. c = a /\ R[m].task = h
    BY <2>1, <2>2, FirstAlone DEF Takes
  <2> QED BY <2>1, <2>2, <2>3
<1> QED BY <1>1, <1>2

\* It takes the next record if that adds it, or it is there.
LEMMA TakesNext ==
  ASSUME NEW R, NEW h, Len(R) \in Nat, NEW n \in 0..Len(R), n + 1 \in 1..Len(R), R[n + 1].task = h
  PROVE  Takes(R, h, n + 1) <=>
           IF R[n + 1].op = "add" THEN ~Added(R, h, n)
           ELSE Added(R, h, n) /\ Says(R, h, n, {"remove"}) = {}
<1>1. CASE R[n + 1].op = "add"
  <2>1. ASSUME Takes(R, h, n + 1), Added(R, h, n) PROVE FALSE
    <3>1. FirstAdd(R, h, n + 1)
      BY <1>1, <2>1 DEF Takes
    <3>2. PICK a \in 1..n : FirstAdd(R, h, a)
      BY <2>1 DEF Added
    <3>3. a = n + 1
      BY <3>1, <3>2, FirstAlone
    <3> QED BY <3>3
  <2>2. ASSUME ~Added(R, h, n) PROVE Takes(R, h, n + 1)
    <3>1. \A b \in 1..n : ~IsAdd(R[b], h)
      BY <2>2, AddedIs
    <3>2. FirstAdd(R, h, n + 1)
      BY <1>1, <3>1 DEF FirstAdd, IsAdd
    <3>3. \A b \in (n + 1)..((n + 1) - 1) : FALSE
      OBVIOUS
    <3> QED BY <3>2, <3>3 DEF Takes
  <2> QED BY <1>1, <2>1, <2>2
<1>2. CASE R[n + 1].op # "add"
  <2>1. ASSUME Takes(R, h, n + 1)
        PROVE  Added(R, h, n) /\ Says(R, h, n, {"remove"}) = {}
    <3>1. PICK a \in 1..(n + 1) :
            /\ FirstAdd(R, h, a)
            /\ \A b \in a..((n + 1) - 1) : ~(R[b].op = "remove" /\ R[b].task = h)
      BY <2>1 DEF Takes
    <3>2. a \in 1..n
      BY <1>2, <3>1 DEF FirstAdd, IsAdd
    <3>3. \A b \in a..n : ~(R[b].op = "remove" /\ R[b].task = h)
      BY <3>1
    <3> QED BY <3>1, <3>2, <3>3, RemovedIs DEF Added
  <2>2. ASSUME Added(R, h, n), Says(R, h, n, {"remove"}) = {} PROVE Takes(R, h, n + 1)
    <3>1. PICK a \in 1..n : FirstAdd(R, h, a)
      BY <2>2 DEF Added
    <3>2. \A b \in a..((n + 1) - 1) : ~(R[b].op = "remove" /\ R[b].task = h)
      BY <2>2, <3>1, RemovedIs
    <3>3. a \in 1..(n + 1)
      OBVIOUS
    <3> QED BY <1>2, <3>1, <3>2, <3>3 DEF Takes
  <2> QED BY <1>2, <2>1, <2>2
<1> QED BY <1>1, <1>2

LEMMA SaysNext ==
  ASSUME NEW R, NEW h, NEW n \in Nat, NEW ops
  PROVE  Says(R, h, n + 1, ops) =
           IF Takes(R, h, n + 1) /\ R[n + 1].op \in ops THEN Says(R, h, n, ops) \cup {n + 1}
           ELSE Says(R, h, n, ops)
BY DEF Says

LEMMA NothingBefore ==
  ASSUME NEW R, NEW h, NEW n \in Nat, ~Added(R, h, n), NEW ops
  PROVE  Says(R, h, n, ops) = {}
<1> SUFFICES ASSUME NEW m \in 1..n, Takes(R, h, m) PROVE FALSE
  BY DEF Says
<1>1. PICK a \in 1..m : FirstAdd(R, h, a)
  BY DEF Takes
<1> QED BY <1>1 DEF Added

LEMMA AboutNext ==
  ASSUME NEW R, NEW h, NEW n \in Nat, NEW s
  PROVE  About(R, h, n + 1, s) =
           IF /\ Takes(R, h, n + 1) /\ R[n + 1].op \in {"add", "tag", "untag"}
              /\ R[n + 1].op = "add" \/ s \in R[n + 1].tags
           THEN About(R, h, n, s) \cup {n + 1} ELSE About(R, h, n, s)
<1>1. PICK before, after : before = Says(R, h, n, {"add", "tag", "untag"}) /\ after = Says(R, h, n + 1, {"add", "tag", "untag"})
  OBVIOUS
<1>2. after = IF Takes(R, h, n + 1) /\ R[n + 1].op \in {"add", "tag", "untag"} THEN before \cup {n + 1}
              ELSE before
  BY <1>1, SaysNext
<1>3. /\ About(R, h, n, s) = {m \in before : R[m].op = "add" \/ s \in R[m].tags}
      /\ About(R, h, n + 1, s) = {m \in after : R[m].op = "add" \/ s \in R[m].tags}
  BY <1>1 DEF About
<1> QED BY <1>2, <1>3

LEMMA TriggeringNext ==
  ASSUME NEW R, NEW h, NEW n \in Nat
  PROVE  Triggering(R, h, n + 1) =
           IF /\ Takes(R, h, n + 1) /\ R[n + 1].op \in {"add", "status"}
              /\ R[n + 1].trigger # Empty
           THEN Triggering(R, h, n) \cup {n + 1} ELSE Triggering(R, h, n)
<1>1. PICK before, after : before = Says(R, h, n, {"add", "status"}) /\ after = Says(R, h, n + 1, {"add", "status"})
  OBVIOUS
<1>2. after = IF Takes(R, h, n + 1) /\ R[n + 1].op \in {"add", "status"} THEN before \cup {n + 1}
              ELSE before
  BY <1>1, SaysNext
<1>3. /\ Triggering(R, h, n) = {m \in before : R[m].trigger # Empty}
      /\ Triggering(R, h, n + 1) = {m \in after : R[m].trigger # Empty}
  BY <1>1 DEF Triggering
<1> QED BY <1>2, <1>3

LEMMA DeferralsNext ==
  ASSUME NEW R, NEW h, NEW n \in Nat
  PROVE  Deferrals(R, h, n + 1) =
           IF /\ Takes(R, h, n + 1) /\ R[n + 1].op \in {"add", "status"}
              /\ R[n + 1].status = Defers
           THEN Deferrals(R, h, n) \cup {n + 1} ELSE Deferrals(R, h, n)
<1>1. PICK before, after : before = Says(R, h, n, {"add", "status"}) /\ after = Says(R, h, n + 1, {"add", "status"})
  OBVIOUS
<1>2. after = IF Takes(R, h, n + 1) /\ R[n + 1].op \in {"add", "status"} THEN before \cup {n + 1}
              ELSE before
  BY <1>1, SaysNext
<1>3. /\ Deferrals(R, h, n) = {m \in before : R[m].status = Defers}
      /\ Deferrals(R, h, n + 1) = {m \in after : R[m].status = Defers}
  BY <1>1 DEF Deferrals
<1> QED BY <1>2, <1>3

\* What they leave it tagged.
LEMMA TagsNext ==
  ASSUME NEW R, NEW h, NEW n \in Nat, R[n + 1].tags \in SUBSET Spellings
  PROVE  LET r == R[n + 1]
             before == TagsAt(R, h, n) IN
         TagsAt(R, h, n + 1) =
           IF ~Takes(R, h, n + 1) THEN before
           ELSE IF r.op = "add" THEN r.tags
           ELSE IF r.op = "tag" THEN before \cup r.tags
           ELSE IF r.op = "untag" THEN before \ r.tags
           ELSE before
<1>1. PICK r : r = R[n + 1]
  OBVIOUS
<1>2. PICK before : before = TagsAt(R, h, n)
  OBVIOUS
<1>3. before \in SUBSET Spellings
  BY <1>2 DEF TagsAt
<1> DEFINE New(s) == /\ Takes(R, h, n + 1) /\ r.op \in {"add", "tag", "untag"}
                     /\ r.op = "add" \/ s \in r.tags
<1>4. ASSUME NEW s \in Spellings, New(s)
      PROVE  s \in TagsAt(R, h, n + 1) <=> r.op # "untag" /\ s \in r.tags
  <2>1. About(R, h, n + 1, s) = About(R, h, n, s) \cup {n + 1}
    BY <1>1, <1>4, AboutNext
  <2>2. About(R, h, n, s) \in SUBSET (1..n)
    BY DEF About, Says
  <2>3. \A m : IsLast(m, About(R, h, n + 1, s)) <=> m = n + 1
    BY <2>1, <2>2, LastOfMore
  <2> QED BY <1>1, <2>3 DEF TagsAt
<1>5. ASSUME NEW s \in Spellings, ~New(s)
      PROVE  s \in TagsAt(R, h, n + 1) <=> s \in before
  <2>1. About(R, h, n + 1, s) = About(R, h, n, s)
    BY <1>1, <1>5, AboutNext
  <2>2. About(R, h, n, s) \in SUBSET (1..n)
    BY DEF About, Says
  <2>3. \A m : IsLast(m, About(R, h, n, s)) => m \in 1..n /\ m \in 1..(n + 1)
    BY <2>2 DEF IsLast
  <2> QED BY <1>2, <2>1, <2>3 DEF TagsAt
<1>6. TagsAt(R, h, n + 1) \in SUBSET Spellings
  BY DEF TagsAt
<1> HIDE DEF New
<1>7. \A s \in Spellings : s \in TagsAt(R, h, n + 1) <=>
        IF New(s) THEN r.op # "untag" /\ s \in r.tags ELSE s \in before
  BY <1>4, <1>5
<1>8. PICK after : after = TagsAt(R, h, n + 1)
  OBVIOUS
<1>9. after \in SUBSET Spellings /\ r.tags \in SUBSET Spellings
  BY <1>1, <1>6, <1>8
<1>10. \A s \in Spellings : s \in after <=>
        IF New(s) THEN r.op # "untag" /\ s \in r.tags ELSE s \in before
  BY <1>7, <1>8
<1>11. CASE ~Takes(R, h, n + 1)
  BY <1>1, <1>2, <1>3, <1>8, <1>9, <1>10, <1>11 DEF New
<1>12. CASE Takes(R, h, n + 1) /\ r.op = "add"
  BY <1>1, <1>2, <1>3, <1>8, <1>9, <1>10, <1>12 DEF New
<1>13. CASE Takes(R, h, n + 1) /\ r.op = "tag"
  BY <1>1, <1>2, <1>3, <1>8, <1>9, <1>10, <1>13 DEF New
<1>14. CASE Takes(R, h, n + 1) /\ r.op = "untag"
  BY <1>1, <1>2, <1>3, <1>8, <1>9, <1>10, <1>14 DEF New
<1>15. CASE Takes(R, h, n + 1) /\ r.op \notin {"add", "tag", "untag"}
  BY <1>1, <1>2, <1>3, <1>8, <1>9, <1>10, <1>15 DEF New
<1> QED BY <1>11, <1>12, <1>13, <1>14, <1>15

\* The trigger they leave it.
LEMMA HeldNext ==
  ASSUME NEW R, NEW h, NEW n \in Nat, NEW v
  PROVE  IF /\ Takes(R, h, n + 1) /\ R[n + 1].op \in {"add", "status"}
            /\ R[n + 1].trigger # Empty
         THEN HeldTrigger(R, h, n + 1, v) <=> v = Trimmed(R[n + 1].trigger)
         ELSE HeldTrigger(R, h, n + 1, v) <=> HeldTrigger(R, h, n, v)
<1>1. Triggering(R, h, n) \in SUBSET (1..n)
  BY DEF Triggering, Says
<1>2. CASE /\ Takes(R, h, n + 1) /\ R[n + 1].op \in {"add", "status"}
           /\ R[n + 1].trigger # Empty
  <2>1. Triggering(R, h, n + 1) = Triggering(R, h, n) \cup {n + 1}
    BY <1>2, TriggeringNext
  <2>2. \A m : IsLast(m, Triggering(R, h, n + 1)) <=> m = n + 1
    <3>1. PICK S : S = Triggering(R, h, n)
      OBVIOUS
    <3>2. S \in SUBSET (1..n)
      BY <1>1, <3>1
    <3>3. \A m : IsLast(m, S \cup {n + 1}) <=> m = n + 1
      BY <3>2, LastOfMore
    <3> QED BY <2>1, <3>1, <3>3
  <2>3. Triggering(R, h, n + 1) # {} /\ n + 1 \in 1..(n + 1)
    BY <2>1
  <2> QED BY <1>2, <2>2, <2>3 DEF HeldTrigger
<1>3. CASE ~(/\ Takes(R, h, n + 1) /\ R[n + 1].op \in {"add", "status"}
             /\ R[n + 1].trigger # Empty)
  <2>1. Triggering(R, h, n + 1) = Triggering(R, h, n)
    BY <1>3, TriggeringNext
  <2>2. \A m : IsLast(m, Triggering(R, h, n)) => m \in 1..n /\ m \in 1..(n + 1)
    BY <1>1 DEF IsLast
  <2> QED BY <1>3, <2>1, <2>2 DEF HeldTrigger
<1> QED BY <1>2, <1>3

------------------------------------------------------------------------------
(* An import's fold of them.                                                *)

\* The fold takes the record.
Taken(f, r) == IF r.op = "add" THEN r.task \notin f.issued ELSE r.task \in f.live

\* Fold g is fold f and record r's harp as it leaves it.
Leaves(f, r, g) ==
  LET h == r.task IN
  /\ \A o \in Harps : o # h =>
       /\ o \in g.issued <=> o \in f.issued
       /\ o \in g.live <=> o \in f.live
       /\ g.tags[o] = f.tags[o] /\ g.triggers[o] = f.triggers[o]
  /\ h \in g.issued
  /\ h \in g.live <=> r.op # "remove"
  /\ g.tags[h] = IF r.op = "add" THEN r.tags
                 ELSE IF r.op = "tag" THEN f.tags[h] \cup r.tags
                 ELSE IF r.op = "untag" THEN f.tags[h] \ r.tags
                 ELSE f.tags[h]
  /\ g.triggers[h] = IF r.op = "add" THEN Trimmed(r.trigger)
                     ELSE IF r.op = "remove" THEN Empty
                     ELSE IF r.op = "status" /\ r.trigger # Empty THEN Trimmed(r.trigger)
                     ELSE f.triggers[h]

LEMMA StepLeaves ==
  ASSUME NEW f, IsFold(f), FoldTyped(f), NEW repaired, NEW r \in LogRecords
  PROVE  LET g == Stepped(f, repaired, r).fold IN
         IF Taken(f, r) THEN Leaves(f, r, g) ELSE g = f
<1> DEFINE st == Stepped(f, repaired, r)
<1>1. r.op \in Ops /\ r.task \in Harps
  BY DEF LogRecords
<1>2. CASE ~Taken(f, r)
  <2>1. CASE r.op = "add"
    BY <1>2, <2>1 DEF Taken, Stepped, AddStepped, Stepping
  <2>2. CASE r.op # "add"
    BY <1>2, <2>2 DEF Taken, Stepped, Stepping
  <2> QED BY <1>2, <2>1, <2>2
<1>3. CASE Taken(f, r) /\ r.op = "add"
  <2> DEFINE g == [f EXCEPT !.issued = @ \cup {r.task}, !.live = @ \cup {r.task},
                            !.tags[r.task] = r.tags,
                            !.triggers[r.task] = Trimmed(r.trigger)]
  <2>1. st.fold = g
    BY <1>3 DEF Taken, Stepped, AddStepped, Stepping
  <2>2. /\ g.issued = f.issued \cup {r.task} /\ g.live = f.live \cup {r.task}
        /\ g.tags = [f.tags EXCEPT ![r.task] = r.tags]
        /\ g.triggers = [f.triggers EXCEPT ![r.task] = Trimmed(r.trigger)]
    BY DEF IsFold
  <2> HIDE DEF g
  <2>3. /\ \A o \in Harps : g.tags[o] = IF o = r.task THEN r.tags ELSE f.tags[o]
        /\ \A o \in Harps :
             g.triggers[o] = IF o = r.task THEN Trimmed(r.trigger) ELSE f.triggers[o]
    BY <2>2 DEF FoldTyped
  <2>4. Leaves(f, r, g)
    BY <1>1, <1>3, <2>2, <2>3 DEF Leaves
  <2> QED BY <1>3, <2>1, <2>4
<1>4. CASE Taken(f, r) /\ r.op # "add"
  <2>1. r.task \in f.live /\ r.task \in f.issued
    BY <1>4 DEF Taken, FoldTyped
  <2> DEFINE unless == CASE r.op \in {"tag", "untag"} -> RetagStepped(f, r)
                        [] r.op = "status" -> StatusStepped(f, r)
                        [] r.op = "text"   ->
                             Stepping(f, Run([type |-> "EditText", text |-> r.text]), {})
                        [] OTHER -> RemoveStepped(f, r)
  <2>2. st = UnlessMissing(unless, r)
    BY <1>4, <2>1 DEF Stepped
  <2>3. CASE r.op \in {"tag", "untag"}
    <3> DEFINE after == IF r.op = "tag" THEN f.tags[r.task] \cup r.tags
                        ELSE f.tags[r.task] \ r.tags
               g == [f EXCEPT !.tags[r.task] = after]
    <3>1. unless.fold = g
      BY <2>3 DEF RetagStepped, Stepping
    <3>2. /\ g.issued = f.issued /\ g.live = f.live
          /\ g.tags = [f.tags EXCEPT ![r.task] = after] /\ g.triggers = f.triggers
      BY DEF IsFold
    <3>3. after = IF r.op = "tag" THEN f.tags[r.task] \cup r.tags ELSE f.tags[r.task] \ r.tags
      OBVIOUS
    <3> HIDE DEF g, after
    <3>4. \A o \in Harps : g.tags[o] = IF o = r.task THEN after ELSE f.tags[o]
      BY <3>2 DEF FoldTyped
    <3>5. Leaves(f, r, g)
      BY <1>1, <1>4, <2>1, <2>3, <3>2, <3>3, <3>4 DEF Leaves
    <3> HIDE DEF unless, st
    <3>6. st.fold = g
      BY <2>2, <3>1 DEF UnlessMissing, Stepping
    <3> QED BY <1>4, <3>5, <3>6 DEF st
  <2>4. CASE r.op = "status"
    <3> DEFINE held == IF r.trigger = Empty THEN f.triggers[r.task] ELSE Trimmed(r.trigger)
               g == [f EXCEPT !.triggers[r.task] = held]
    <3>1. unless.fold = g
      BY <2>4 DEF StatusStepped, Stepping
    <3>2. /\ g.issued = f.issued /\ g.live = f.live
          /\ g.tags = f.tags /\ g.triggers = [f.triggers EXCEPT ![r.task] = held]
      BY DEF IsFold
    <3>3. held = IF r.trigger = Empty THEN f.triggers[r.task] ELSE Trimmed(r.trigger)
      OBVIOUS
    <3> HIDE DEF g, held
    <3>4. \A o \in Harps : g.triggers[o] = IF o = r.task THEN held ELSE f.triggers[o]
      BY <3>2 DEF FoldTyped
    <3>5. Leaves(f, r, g)
      BY <1>1, <1>4, <2>1, <2>4, <3>2, <3>3, <3>4 DEF Leaves
    <3> HIDE DEF unless, st
    <3>6. st.fold = g
      BY <2>2, <3>1 DEF UnlessMissing, Stepping
    <3> QED BY <1>4, <3>5, <3>6 DEF st
  <2>5. CASE r.op = "text"
    <3>1. unless.fold = f
      BY <2>5 DEF Stepping, Run
    <3>2. Leaves(f, r, f)
      BY <1>1, <1>4, <2>1, <2>5 DEF Leaves
    <3> HIDE DEF unless, st
    <3>3. st.fold = f
      BY <2>2, <3>1 DEF UnlessMissing, Stepping
    <3> QED BY <1>4, <3>2, <3>3 DEF st
  <2>6. CASE r.op \notin {"tag", "untag", "status", "text"}
    <3> DEFINE g == [f EXCEPT !.live = @ \ {r.task}, !.triggers[r.task] = Empty]
    <3>1. unless.fold = g
      BY <2>6 DEF RemoveStepped, Stepping
    <3>2. /\ g.issued = f.issued /\ g.live = f.live \ {r.task}
          /\ g.tags = f.tags /\ g.triggers = [f.triggers EXCEPT ![r.task] = Empty]
      BY DEF IsFold
    <3> HIDE DEF g
    <3>3. \A o \in Harps : g.triggers[o] = IF o = r.task THEN Empty ELSE f.triggers[o]
      BY <3>2 DEF FoldTyped
    <3>4. r.op = "remove"
      BY <1>1, <1>4, <2>6 DEF Ops
    <3>5. Leaves(f, r, g)
      BY <1>1, <2>1, <3>2, <3>3, <3>4 DEF Leaves
    <3> HIDE DEF unless, st
    <3>6. st.fold = g
      BY <2>2, <3>1 DEF UnlessMissing, Stepping
    <3> QED BY <1>4, <3>5, <3>6 DEF st
  <2> QED BY <2>3, <2>4, <2>5, <2>6
<1> QED BY <1>2, <1>3, <1>4

\* The fold takes what the log's task does.
LEMMA TakenIs ==
  ASSUME NEW R \in Seq(LogRecords), NEW n \in 0..Len(R), n + 1 \in 1..Len(R),
         NEW f, FoldSays(f, R, R[n + 1].task, n)
  PROVE  Taken(f, R[n + 1]) <=> Takes(R, R[n + 1].task, n + 1)
<1>1. Len(R) \in Nat
  OBVIOUS
<1>2. PICK h : h = R[n + 1].task
  OBVIOUS
<1>3. Takes(R, h, n + 1) <=>
           IF R[n + 1].op = "add" THEN ~Added(R, h, n)
           ELSE Added(R, h, n) /\ Says(R, h, n, {"remove"}) = {}
  BY <1>1, <1>2, TakesNext
<1> QED BY <1>2, <1>3 DEF FoldSays, Taken

LEMMA FoldSaysNext ==
  ASSUME NEW R \in Seq(LogRecords), NEW n \in 0..Len(R), n + 1 \in 1..Len(R),
         NEW f, IsFold(f), FoldTyped(f), NEW repaired,
         \A h \in Harps : FoldSays(f, R, h, n), NEW h \in Harps
  PROVE  FoldSays(Stepped(f, repaired, R[n + 1]).fold, R, h, n + 1)
<1>1. PICK r : r = R[n + 1]
  OBVIOUS
<1>2. r \in LogRecords /\ r.task \in Harps /\ r.op \in Ops /\ r.tags \in SUBSET Spellings
  BY <1>1, RecordOf DEF LogRecords
<1>3. PICK g : g = Stepped(f, repaired, r).fold
  OBVIOUS
<1>4. IF Taken(f, r) THEN Leaves(f, r, g) ELSE g = f
  BY <1>2, <1>3, StepLeaves
<1>5. Taken(f, r) <=> Takes(R, r.task, n + 1)
  BY <1>1, <1>2, TakenIs
<1>6. h # r.task => ~Takes(R, h, n + 1)
  BY <1>1 DEF Takes
<1>7. Len(R) \in Nat /\ n + 1 \in 0..Len(R) /\ n \in Nat
  OBVIOUS
<1>8. Added(R, h, n + 1) <=> Added(R, h, n) \/ (Takes(R, h, n + 1) /\ r.op = "add")
  <2>1. Added(R, h, n) => Added(R, h, n + 1)
    BY DEF Added
  <2>2. ASSUME Takes(R, h, n + 1), r.op = "add" PROVE Added(R, h, n + 1)
    BY <1>1, <2>2 DEF Takes, Added
  <2>3. ASSUME Added(R, h, n + 1), ~Added(R, h, n) PROVE Takes(R, h, n + 1) /\ r.op = "add"
    <3>1. FirstAdd(R, h, n + 1)
      BY <2>3 DEF Added
    <3>2. r.op = "add" /\ R[n + 1].task = h
      BY <1>1, <3>1 DEF FirstAdd, IsAdd
    <3>3. Takes(R, h, n + 1) <=> ~Added(R, h, n)
      <4>1. R[n + 1].task = h /\ R[n + 1].op = "add"
        BY <1>1, <3>2
      <4> QED BY <1>7, <4>1, TakesNext
    <3> QED BY <2>3, <3>2, <3>3
  <2> QED BY <2>1, <2>2, <2>3
<1>9. Says(R, h, n + 1, {"remove"}) =
        IF Takes(R, h, n + 1) /\ r.op = "remove" THEN Says(R, h, n, {"remove"}) \cup {n + 1}
        ELSE Says(R, h, n, {"remove"})
  <2>1. r.op \in {"remove"} <=> r.op = "remove"
    OBVIOUS
  <2>2. \A ops : Says(R, h, n + 1, ops) =
          IF Takes(R, h, n + 1) /\ R[n + 1].op \in ops THEN Says(R, h, n, ops) \cup {n + 1}
          ELSE Says(R, h, n, ops)
    BY <1>7, SaysNext, Zenon
  <2>3. Says(R, h, n + 1, {"remove"}) =
          IF Takes(R, h, n + 1) /\ R[n + 1].op \in {"remove"}
            THEN Says(R, h, n, {"remove"}) \cup {n + 1}
          ELSE Says(R, h, n, {"remove"})
    BY <2>2, Zenon
  <2> QED BY <1>1, <2>1, <2>3
<1>10. FoldSays(f, R, h, n)
  OBVIOUS
<1>11. TagsAt(R, h, n + 1) =
           IF ~Takes(R, h, n + 1) THEN TagsAt(R, h, n)
           ELSE IF r.op = "add" THEN r.tags
           ELSE IF r.op = "tag" THEN TagsAt(R, h, n) \cup r.tags
           ELSE IF r.op = "untag" THEN TagsAt(R, h, n) \ r.tags
           ELSE TagsAt(R, h, n)
  BY <1>1, <1>2, <1>7, TagsNext
<1>12. \A v : IF /\ Takes(R, h, n + 1) /\ r.op \in {"add", "status"} /\ r.trigger # Empty
              THEN HeldTrigger(R, h, n + 1, v) <=> v = Trimmed(r.trigger)
              ELSE HeldTrigger(R, h, n + 1, v) <=> HeldTrigger(R, h, n, v)
  BY <1>1, <1>7, HeldNext
<1>13. CASE ~Takes(R, h, n + 1)
  <2>1. /\ h \in g.issued <=> h \in f.issued
        /\ h \in g.live <=> h \in f.live
        /\ g.tags[h] = f.tags[h] /\ g.triggers[h] = f.triggers[h]
    BY <1>2, <1>4, <1>5, <1>13 DEF Leaves
  <2>2. FoldSays(g, R, h, n + 1)
    BY <1>8, <1>9, <1>10, <1>11, <1>12, <1>13, <2>1 DEF FoldSays
  <2> QED BY <1>1, <1>3, <2>2
<1>14. CASE Takes(R, h, n + 1)
  <2>1. h = r.task /\ Leaves(f, r, g) /\ Taken(f, r)
    BY <1>4, <1>5, <1>6, <1>14
  <2>2. CASE r.op = "add"
    <3>1. ~Added(R, h, n)
      BY <1>10, <2>1, <2>2 DEF FoldSays, Taken
    <3>2. Says(R, h, n, {"remove"}) = {} /\ Triggering(R, h, n) = {}
      BY <1>7, <3>1, NothingBefore DEF Triggering
    <3>3. r.trigger = Empty => HeldTrigger(R, h, n + 1, Trimmed(r.trigger))
      <4>1. HeldTrigger(R, h, n, Empty)
        BY <3>2 DEF HeldTrigger, IsLast
      <4>2. Trimmed(Empty) = Empty
        BY DEF Trimmed
      <4> QED BY <1>12, <4>1, <4>2
    <3>4. HeldTrigger(R, h, n + 1, Trimmed(r.trigger))
      BY <1>12, <1>14, <2>2, <3>3
    <3>5. /\ h \in g.issued /\ h \in g.live /\ g.tags[h] = r.tags
          /\ g.triggers[h] = Trimmed(r.trigger)
      BY <2>1, <2>2 DEF Leaves
    <3>6. FoldSays(g, R, h, n + 1)
      BY <1>8, <1>9, <1>11, <1>14, <2>2, <3>2, <3>4, <3>5 DEF FoldSays
    <3> QED BY <1>1, <1>3, <3>6
  <2>3. CASE r.op # "add"
    <3>1. Added(R, h, n) /\ h \in f.issued /\ h \in f.live /\ Says(R, h, n, {"remove"}) = {}
      BY <1>10, <2>1, <2>3 DEF FoldSays, Taken
    <3>2. /\ h \in g.issued
          /\ h \in g.live <=> r.op # "remove"
      BY <2>1, <2>3 DEF Leaves
    <3>3. g.tags[h] = TagsAt(R, h, n + 1)
      <4>1. f.tags[h] = TagsAt(R, h, n)
        BY <1>10, <3>1 DEF FoldSays
      <4> QED BY <1>11, <1>14, <2>1, <2>3, <4>1 DEF Leaves
    <3>4. h \in g.live => HeldTrigger(R, h, n + 1, g.triggers[h])
      <4>1. HeldTrigger(R, h, n, f.triggers[h])
        BY <1>10, <3>1 DEF FoldSays
      <4>2. CASE r.op = "status" /\ r.trigger # Empty
        <5>1. g.triggers[h] = Trimmed(r.trigger)
          BY <2>1, <4>2 DEF Leaves
        <5> QED BY <1>12, <1>14, <4>2, <5>1
      <4>3. CASE ~(r.op = "status" /\ r.trigger # Empty) /\ r.op # "remove"
        <5>1. g.triggers[h] = f.triggers[h]
          BY <2>1, <2>3, <4>3 DEF Leaves
        <5> QED BY <1>12, <2>3, <4>1, <4>3, <5>1
      <4> QED BY <3>2, <4>2, <4>3
    <3>5. (h \in g.live) <=> Says(R, h, n + 1, {"remove"}) = {}
      BY <1>9, <1>14, <3>1, <3>2
    <3>6. FoldSays(g, R, h, n + 1)
      BY <1>8, <3>1, <3>2, <3>3, <3>4, <3>5 DEF FoldSays
    <3> QED BY <1>1, <1>3, <3>6
  <2> QED BY <2>2, <2>3
<1> QED BY <1>13, <1>14

------------------------------------------------------------------------------
(* What a record comes to.                                                  *)

\* The command the fold makes of the next record, of what they leave of its task.
CommandOf(R, h, n, c) ==
  LET r == R[n] IN
  IF r.op = "add"
    THEN c = [type |-> "AddTask", harp_id |-> h, text |-> r.text, status |-> LeftOut(r.status),
              trigger |-> DeferringOn(r.status, Trimmed(r.trigger)), tags |-> Importable(r.tags)]
  ELSE IF r.op = "status"
    THEN \E v \in Triggers \cup {Empty} :
           /\ HeldTrigger(R, h, n, v)
           /\ c = [type |-> "SetStatus", status |-> LeftOut(r.status),
                   trigger |-> DeferringOn(r.status, v)]
  ELSE IF r.op = "text" THEN c = [type |-> "EditText", text |-> r.text]
  ELSE IF r.op = "remove" THEN c = [type |-> "RemoveTask", reason |-> "Removed"]
  ELSE LET before == Importable(TagsAt(R, h, n - 1))
           after == Importable(TagsAt(R, h, n)) IN
       c = [type |-> "Retag", add |-> after \ before, remove |-> before \ after]

\* The fold sends a record that changes the task, unless its add was not
\* imported, and none else.
LEMMA SentIs ==
  ASSUME NEW R \in Seq(LogRecords), NEW n \in 0..Len(R), n + 1 \in 1..Len(R),
         NEW f, IsFold(f), FoldTyped(f), NEW repaired, \A h \in Harps : FoldSays(f, R, h, n)
  PROVE  LET r == R[n + 1]
             h == r.task
             st == Stepped(f, repaired, r).step IN
         /\ st.kind = "run" <=> Sends(R, h, n + 1) /\ (r.op = "add" \/ h \notin f.missing)
         /\ st.kind = "run" => CommandOf(R, h, n + 1, st.command)
         /\ Takes(R, h, n + 1) /\ r.op # "add" /\ h \in f.missing => st = Lost("TaskNotImported")
<1>1. PICK r : r = R[n + 1]
  OBVIOUS
<1>2. r \in LogRecords /\ r.task \in Harps /\ r.op \in Ops /\ r.tags \in SUBSET Spellings
      /\ r.trigger \in Triggers \cup {Empty, Blank}
  BY <1>1, RecordOf DEF LogRecords
<1>3. PICK h : h = r.task
  OBVIOUS
<1>4. PICK st : st = Stepped(f, repaired, r).step
  OBVIOUS
<1>5. Taken(f, r) <=> Takes(R, h, n + 1)
  BY <1>1, <1>2, <1>3, TakenIs
<1>6. n \in Nat /\ (n + 1) - 1 = n
  OBVIOUS
<1>7. FoldSays(f, R, h, n)
  BY <1>2, <1>3
<1>8. TagsAt(R, h, n + 1) =
           IF ~Takes(R, h, n + 1) THEN TagsAt(R, h, n)
           ELSE IF r.op = "add" THEN r.tags
           ELSE IF r.op = "tag" THEN TagsAt(R, h, n) \cup r.tags
           ELSE IF r.op = "untag" THEN TagsAt(R, h, n) \ r.tags
           ELSE TagsAt(R, h, n)
  BY <1>1, <1>2, <1>6, TagsNext
<1>9. \A v : IF /\ Takes(R, h, n + 1) /\ r.op \in {"add", "status"} /\ r.trigger # Empty
              THEN HeldTrigger(R, h, n + 1, v) <=> v = Trimmed(r.trigger)
              ELSE HeldTrigger(R, h, n + 1, v) <=> HeldTrigger(R, h, n, v)
  BY <1>1, <1>6, HeldNext
<1>10. Sends(R, h, n + 1) <=>
         /\ Takes(R, h, n + 1)
         /\ Retag(r) => Importable(TagsAt(R, h, n + 1)) # Importable(TagsAt(R, h, n))
  BY <1>1, <1>6 DEF Sends
<1> DEFINE Goal == /\ st.kind = "run" <=> Sends(R, h, n + 1) /\ (r.op = "add" \/ h \notin f.missing)
                   /\ st.kind = "run" => CommandOf(R, h, n + 1, st.command)
                   /\ Takes(R, h, n + 1) /\ r.op # "add" /\ h \in f.missing => st = Lost("TaskNotImported")
<1>11. CASE ~Takes(R, h, n + 1)
  <2>1. st.kind # "run"
    BY <1>4, <1>5, <1>11 DEF Taken, Stepped, AddStepped, Stepping, Lost
  <2> QED BY <1>1, <1>3, <1>4, <1>10, <1>11, <2>1
<1>12. CASE Takes(R, h, n + 1) /\ r.op = "add"
  <2>1. st = Run([type |-> "AddTask", harp_id |-> r.task, text |-> r.text, status |-> LeftOut(r.status),
                  trigger |-> DeferringOn(r.status, Trimmed(r.trigger)), tags |-> Importable(r.tags)])
    BY <1>4, <1>5, <1>12 DEF Taken, Stepped, AddStepped, Stepping
  <2>2. st.kind = "run" /\ CommandOf(R, h, n + 1, st.command)
    BY <1>1, <1>3, <1>12, <2>1 DEF Run, CommandOf
  <2>3. Sends(R, h, n + 1)
    BY <1>10, <1>12 DEF Retag
  <2> QED BY <1>1, <1>3, <1>4, <1>12, <2>2, <2>3
<1>13. CASE Takes(R, h, n + 1) /\ r.op # "add" /\ h \in f.missing
  <2>1. h \in f.live /\ h \in f.issued
    BY <1>3, <1>5, <1>13 DEF Taken, FoldTyped
  <2> DEFINE unless == CASE r.op \in {"tag", "untag"} -> RetagStepped(f, r)
                        [] r.op = "status" -> StatusStepped(f, r)
                        [] r.op = "text"   ->
                             Stepping(f, Run([type |-> "EditText", text |-> r.text]), {})
                        [] OTHER -> RemoveStepped(f, r)
  <2>2. Stepped(f, repaired, r) = UnlessMissing(unless, r)
    BY <1>3, <1>13, <2>1 DEF Stepped
  <2>3. unless.fold.missing = f.missing
    BY DEF IsFold, RetagStepped, StatusStepped, RemoveStepped, Stepping
  <2> HIDE DEF unless
  <2>4. st = Lost("TaskNotImported") /\ st.kind # "run"
    BY <1>3, <1>4, <1>13, <2>2, <2>3 DEF UnlessMissing, Stepping, Lost
  <2> QED BY <1>1, <1>3, <1>4, <1>13, <2>4
<1>14. CASE Takes(R, h, n + 1) /\ r.op # "add" /\ h \notin f.missing
  <2>1. h \in f.live /\ h \in f.issued
    BY <1>3, <1>5, <1>14 DEF Taken, FoldTyped
  <2>2. f.tags[h] = TagsAt(R, h, n) /\ HeldTrigger(R, h, n, f.triggers[h])
        /\ f.triggers[h] \in Triggers \cup {Empty}
    BY <1>2, <1>3, <1>7, <2>1 DEF FoldSays, FoldTyped
  <2> DEFINE unless == CASE r.op \in {"tag", "untag"} -> RetagStepped(f, r)
                        [] r.op = "status" -> StatusStepped(f, r)
                        [] r.op = "text"   ->
                             Stepping(f, Run([type |-> "EditText", text |-> r.text]), {})
                        [] OTHER -> RemoveStepped(f, r)
  <2>3. Stepped(f, repaired, r) = UnlessMissing(unless, r)
    BY <1>3, <1>14, <2>1 DEF Stepped
  <2>4. unless.fold.missing = f.missing
    BY DEF IsFold, RetagStepped, StatusStepped, RemoveStepped, Stepping
  <2>5. st = unless.step
    <3> HIDE DEF unless
    <3> QED BY <1>3, <1>4, <1>14, <2>3, <2>4 DEF UnlessMissing
  <2>6. CASE r.op = "status"
    <3> DEFINE v == IF r.trigger = Empty THEN f.triggers[h] ELSE Trimmed(r.trigger)
    <3>1. st = Run([type |-> "SetStatus", status |-> LeftOut(r.status),
                    trigger |-> DeferringOn(r.status, v)])
      BY <1>3, <2>5, <2>6 DEF StatusStepped, Stepping
    <3>2. HeldTrigger(R, h, n + 1, v)
      BY <1>9, <1>14, <2>2, <2>6
    <3>3. v \in Triggers \cup {Empty}
      BY <1>2, <2>2 DEF Trimmed
    <3> HIDE DEF v
    <3>4. st.kind = "run" /\ st.command = [type |-> "SetStatus", status |-> LeftOut(r.status),
                    trigger |-> DeferringOn(r.status, v)]
      BY <3>1 DEF Run
    <3>5. CommandOf(R, h, n + 1, st.command)
      BY <1>1, <2>6, <3>2, <3>3, <3>4 DEF CommandOf
    <3>6. Sends(R, h, n + 1)
      BY <1>10, <1>14, <2>6 DEF Retag
    <3> QED BY <1>1, <1>3, <1>4, <1>14, <3>4, <3>5, <3>6
  <2>7. CASE r.op = "text"
    <3>1. st = Run([type |-> "EditText", text |-> r.text])
      BY <2>5, <2>7 DEF Stepping
    <3>2. st.kind = "run" /\ CommandOf(R, h, n + 1, st.command)
      BY <1>1, <2>7, <3>1 DEF Run, CommandOf
    <3>3. Sends(R, h, n + 1)
      BY <1>10, <1>14, <2>7 DEF Retag
    <3> QED BY <1>1, <1>3, <1>4, <1>14, <3>2, <3>3
  <2>8. CASE r.op = "remove"
    <3>1. st = Run([type |-> "RemoveTask", reason |-> "Removed"])
      BY <2>5, <2>8 DEF RemoveStepped, Stepping
    <3>2. st.kind = "run" /\ CommandOf(R, h, n + 1, st.command)
      BY <1>1, <2>8, <3>1 DEF Run, CommandOf
    <3>3. Sends(R, h, n + 1)
      BY <1>10, <1>14, <2>8 DEF Retag
    <3> QED BY <1>1, <1>3, <1>4, <1>14, <3>2, <3>3
  <2>9. CASE r.op \in {"tag", "untag"}
    <3>0. PICK before, after : before = Importable(TagsAt(R, h, n)) /\ after = Importable(TagsAt(R, h, n + 1))
      OBVIOUS
    <3>10. PICK add, remove, both : add = after \ before /\ remove = before \ after /\ both = add \cup remove
      OBVIOUS
    <3>1. TagsAt(R, h, n + 1) = IF r.op = "tag" THEN f.tags[h] \cup r.tags ELSE f.tags[h] \ r.tags
      BY <1>8, <1>14, <2>2, <2>9
    <3>2. unless.step = IF both # {}
                        THEN Run([type |-> "Retag", add |-> add, remove |-> remove])
                        ELSE IF RefusedOf(r.tags) # {} THEN [kind |-> "nothing left"]
                        ELSE [kind |-> "unchanged"]
      BY <1>3, <2>2, <2>9, <3>0, <3>1, <3>10 DEF RetagStepped, Stepping
    <3> HIDE DEF unless
    <3>3. both # {} <=> after # before
      BY <3>10
    <3>4. Sends(R, h, n + 1) <=> after # before
      BY <1>10, <1>14, <2>9, <3>0 DEF Retag
    <3>5. CASE after # before
      <4>1. st.kind = "run" /\ st.command = [type |-> "Retag", add |-> add, remove |-> remove]
        <5>1. st = Run([type |-> "Retag", add |-> add, remove |-> remove])
          BY <2>5, <3>2, <3>3, <3>5, Zenon
        <5> QED BY <5>1 DEF Run
      <4>2. CommandOf(R, h, n + 1, st.command)
        BY <1>1, <1>6, <2>9, <3>0, <3>10, <4>1 DEF CommandOf
      <4> QED BY <1>1, <1>3, <1>4, <1>14, <3>4, <3>5, <4>1, <4>2
    <3>6. CASE after = before
      <4>1. st.kind # "run"
        <5>1. st = [kind |-> "nothing left"] \/ st = [kind |-> "unchanged"]
          BY <2>5, <3>2, <3>3, <3>6, Zenon
        <5>2. "nothing left" # "run"
          BY Zenon
        <5>3. "unchanged" # "run"
          OBVIOUS
        <5>4. [kind |-> "nothing left"].kind = "nothing left" /\ [kind |-> "unchanged"].kind = "unchanged"
          BY Zenon
        <5> QED BY <5>1, <5>2, <5>3, <5>4, Zenon
      <4> QED BY <1>1, <1>3, <1>4, <1>14, <3>4, <3>6, <4>1
    <3> QED BY <3>5, <3>6
  <2> QED BY <1>2, <1>14, <2>6, <2>7, <2>8, <2>9 DEF Ops
<1> QED BY <1>11, <1>12, <1>13, <1>14

------------------------------------------------------------------------------
(* What the log says of a task, a record on.                                *)

\* Task u is t, by what record n of the task of harp h says.
Becomes(t, u, R, h, n) ==
  LET r == R[n] IN
  /\ u.harp_id = h
  /\ u.created_at = IF r.op = "add" THEN r.ts ELSE t.created_at
  /\ u.text = IF r.op \in {"add", "text"} THEN r.text ELSE t.text
  /\ IF r.op \in {"add", "status"}
       THEN /\ u.status = IF r.status = Empty THEN Initial ELSE r.status
            /\ u.status_set_at = r.ts
            /\ r.status # Defers => u.trigger = Empty
            /\ r.status = Defers => HeldTrigger(R, h, n, u.trigger)
       ELSE /\ u.status = t.status
            /\ u.status_set_at = t.status_set_at
            /\ u.trigger = t.trigger
  /\ u.tags = Importable(TagsAt(R, h, n))
  /\ u.deferred_since = IF r.op \in {"add", "status"} /\ r.status = Defers THEN r.ts
                        ELSE IF r.op = "add" THEN Never ELSE t.deferred_since
  /\ u.removed <=> r.op = "remove"

\* The last of the records that say a thing, a record on.
LEMMA LastSaid ==
  ASSUME NEW R, NEW h, NEW n \in Nat, NEW ops, NEW m
  PROVE  IF Takes(R, h, n + 1) /\ R[n + 1].op \in ops
         THEN IsLast(m, Says(R, h, n + 1, ops)) <=> m = n + 1
         ELSE IsLast(m, Says(R, h, n + 1, ops)) <=> m \in 1..n /\ IsLast(m, Says(R, h, n, ops))
<1>1. PICK S, T : S = Says(R, h, n, ops) /\ T = Says(R, h, n + 1, ops)
  OBVIOUS
<1>2. S \in SUBSET (1..n)
  BY <1>1 DEF Says
<1>3. T = IF Takes(R, h, n + 1) /\ R[n + 1].op \in ops THEN S \cup {n + 1} ELSE S
  BY <1>1, SaysNext
<1>4. IsLast(m, S \cup {n + 1}) <=> m = n + 1
  BY <1>2, LastOfMore
<1>5. IsLast(m, S) => m \in 1..n
  BY <1>2 DEF IsLast
<1> QED BY <1>1, <1>3, <1>4, <1>5

LEMMA LastDeferral ==
  ASSUME NEW R, NEW h, NEW n \in Nat, NEW m
  PROVE  IF Takes(R, h, n + 1) /\ R[n + 1].op \in {"add", "status"} /\ R[n + 1].status = Defers
         THEN IsLast(m, Deferrals(R, h, n + 1)) <=> m = n + 1
         ELSE IsLast(m, Deferrals(R, h, n + 1)) <=> m \in 1..n /\ IsLast(m, Deferrals(R, h, n))
<1>1. PICK S, T : S = Deferrals(R, h, n) /\ T = Deferrals(R, h, n + 1)
  OBVIOUS
<1>2. S \in SUBSET (1..n)
  BY <1>1 DEF Deferrals, Says
<1>3. T = IF Takes(R, h, n + 1) /\ R[n + 1].op \in {"add", "status"} /\ R[n + 1].status = Defers
          THEN S \cup {n + 1} ELSE S
  BY <1>1, DeferralsNext
<1>4. IsLast(m, S \cup {n + 1}) <=> m = n + 1
  BY <1>2, LastOfMore
<1>5. IsLast(m, S) => m \in 1..n
  BY <1>2 DEF IsLast
<1> QED BY <1>1, <1>3, <1>4, <1>5

\* A task the log's record adds, or one already there: added by then, first by one.
LEMMA AddedNext ==
  ASSUME NEW R, NEW h, Len(R) \in Nat, NEW n \in 0..Len(R), n + 1 \in 1..Len(R)
  PROVE  /\ Added(R, h, n + 1) <=> Added(R, h, n) \/ (Takes(R, h, n + 1) /\ R[n + 1].op = "add")
         /\ Takes(R, h, n + 1) /\ R[n + 1].op # "add" =>
              Added(R, h, n) /\ Says(R, h, n, {"remove"}) = {}
         /\ Takes(R, h, n + 1) /\ R[n + 1].op = "add" => ~Added(R, h, n)
         /\ \A a : FirstAdd(R, h, a) /\ a \in 1..(n + 1) =>
              (a \in 1..n <=> Added(R, h, n)) /\ (a = n + 1 <=> ~Added(R, h, n))
<1>1. n \in Nat
  OBVIOUS
<1>2. R[n + 1].task = h =>
        (Takes(R, h, n + 1) <=> IF R[n + 1].op = "add" THEN ~Added(R, h, n)
                                ELSE Added(R, h, n) /\ Says(R, h, n, {"remove"}) = {})
  BY TakesNext
<1>3. Takes(R, h, n + 1) => R[n + 1].task = h
  BY DEF Takes
<1>4. Added(R, h, n) => Added(R, h, n + 1)
  BY DEF Added
<1>5. ASSUME NEW a, FirstAdd(R, h, a), a \in 1..(n + 1)
      PROVE  (a \in 1..n <=> Added(R, h, n)) /\ (a = n + 1 <=> ~Added(R, h, n))
  <2>1. a \in 1..n => Added(R, h, n)
    BY <1>5 DEF Added
  <2>2. ASSUME Added(R, h, n) PROVE a \in 1..n
    <3>1. PICK b \in 1..n : FirstAdd(R, h, b)
      BY <2>2 DEF Added
    <3>2. a = b
      BY <1>5, <3>1, FirstAlone
    <3> QED BY <3>2
  <2> QED BY <1>5, <2>1, <2>2
<1>6. ASSUME Takes(R, h, n + 1), R[n + 1].op = "add" PROVE Added(R, h, n + 1)
  BY <1>6 DEF Takes, Added
<1>7. ASSUME Added(R, h, n + 1), ~Added(R, h, n) PROVE Takes(R, h, n + 1) /\ R[n + 1].op = "add"
  <2>1. FirstAdd(R, h, n + 1)
    BY <1>7 DEF Added
  <2>2. R[n + 1].op = "add" /\ R[n + 1].task = h
    BY <2>1 DEF FirstAdd, IsAdd
  <2> QED BY <1>2, <1>7, <2>2
<1> QED BY <1>2, <1>3, <1>4, <1>5, <1>6, <1>7

LEMMA TaskSaysOn ==
  ASSUME NEW R \in Seq(LogRecords), NEW n \in 0..Len(R), n + 1 \in 1..Len(R), NEW h,
         NEW t, TaskSays(t, R, h, n), Takes(R, h, n + 1), NEW u, Becomes(t, u, R, h, n + 1)
  PROVE  TaskSays(u, R, h, n + 1)
<1>1. PICK r : r = R[n + 1]
  OBVIOUS
<1>2. Len(R) \in Nat /\ n \in Nat
  OBVIOUS
<1>3. /\ Added(R, h, n + 1)
      /\ r.op # "add" => Added(R, h, n) /\ Says(R, h, n, {"remove"}) = {}
      /\ r.op = "add" => ~Added(R, h, n)
      /\ \A a : FirstAdd(R, h, a) /\ a \in 1..(n + 1) =>
              (a \in 1..n <=> Added(R, h, n)) /\ (a = n + 1 <=> ~Added(R, h, n))
  <2>1. /\ Added(R, h, n + 1) <=> Added(R, h, n) \/ (Takes(R, h, n + 1) /\ R[n + 1].op = "add")
        /\ Takes(R, h, n + 1) /\ R[n + 1].op # "add" =>
             Added(R, h, n) /\ Says(R, h, n, {"remove"}) = {}
        /\ Takes(R, h, n + 1) /\ R[n + 1].op = "add" => ~Added(R, h, n)
        /\ \A a : FirstAdd(R, h, a) /\ a \in 1..(n + 1) =>
             (a \in 1..n <=> Added(R, h, n)) /\ (a = n + 1 <=> ~Added(R, h, n))
    BY <1>2, AddedNext
  <2> QED BY <1>1, <2>1
<1>4. r.op # "add" =>
        /\ \A a \in 1..n : FirstAdd(R, h, a) => t.created_at = R[a].ts
        /\ \A m \in 1..n : IsLast(m, Says(R, h, n, {"add", "text"})) => t.text = R[m].text
        /\ \A m \in 1..n : IsLast(m, Says(R, h, n, {"add", "status"})) =>
             /\ t.status = IF R[m].status = Empty THEN Initial ELSE R[m].status
             /\ t.status_set_at = R[m].ts
             /\ R[m].status # Defers => t.trigger = Empty
             /\ R[m].status = Defers => HeldTrigger(R, h, n, t.trigger)
        /\ \A m \in 1..n : IsLast(m, Deferrals(R, h, n)) => t.deferred_since = R[m].ts
        /\ Deferrals(R, h, n) = {} => t.deferred_since = Never
  BY <1>3 DEF TaskSays
<1>5. /\ u.harp_id = h
      /\ u.created_at = IF r.op = "add" THEN r.ts ELSE t.created_at
      /\ u.text = IF r.op \in {"add", "text"} THEN r.text ELSE t.text
      /\ r.op \in {"add", "status"} =>
            /\ u.status = IF r.status = Empty THEN Initial ELSE r.status
            /\ u.status_set_at = r.ts
            /\ r.status # Defers => u.trigger = Empty
            /\ r.status = Defers => HeldTrigger(R, h, n + 1, u.trigger)
      /\ r.op \notin {"add", "status"} =>
            /\ u.status = t.status
            /\ u.status_set_at = t.status_set_at
            /\ u.trigger = t.trigger
      /\ u.tags = Importable(TagsAt(R, h, n + 1))
      /\ u.deferred_since = IF r.op \in {"add", "status"} /\ r.status = Defers THEN r.ts
                            ELSE IF r.op = "add" THEN Never ELSE t.deferred_since
      /\ u.removed <=> r.op = "remove"
  BY <1>1 DEF Becomes
<1>6. \A a \in 1..(n + 1) : FirstAdd(R, h, a) => u.created_at = R[a].ts
  BY <1>1, <1>3, <1>4, <1>5
<1>7. \A m \in 1..(n + 1) : IsLast(m, Says(R, h, n + 1, {"add", "text"})) => u.text = R[m].text
  <2>1. \A m : IF r.op \in {"add", "text"}
         THEN IsLast(m, Says(R, h, n + 1, {"add", "text"})) <=> m = n + 1
         ELSE IsLast(m, Says(R, h, n + 1, {"add", "text"}))
                <=> m \in 1..n /\ IsLast(m, Says(R, h, n, {"add", "text"}))
    BY <1>1, <1>2, LastSaid
  <2> QED BY <1>1, <1>4, <1>5, <2>1
<1>8. \A m \in 1..(n + 1) : IsLast(m, Says(R, h, n + 1, {"add", "status"})) =>
       /\ u.status = IF R[m].status = Empty THEN Initial ELSE R[m].status
       /\ u.status_set_at = R[m].ts
       /\ R[m].status # Defers => u.trigger = Empty
       /\ R[m].status = Defers => HeldTrigger(R, h, n + 1, u.trigger)
  <2>1. \A m : IF r.op \in {"add", "status"}
         THEN IsLast(m, Says(R, h, n + 1, {"add", "status"})) <=> m = n + 1
         ELSE IsLast(m, Says(R, h, n + 1, {"add", "status"}))
                <=> m \in 1..n /\ IsLast(m, Says(R, h, n, {"add", "status"}))
    BY <1>1, <1>2, LastSaid
  <2>2. \A v : IF r.op \in {"add", "status"} /\ r.trigger # Empty
               THEN HeldTrigger(R, h, n + 1, v) <=> v = Trimmed(r.trigger)
               ELSE HeldTrigger(R, h, n + 1, v) <=> HeldTrigger(R, h, n, v)
    BY <1>1, <1>2, HeldNext
  <2>3. CASE r.op \in {"add", "status"}
    BY <1>1, <1>5, <2>1, <2>3
  <2>4. CASE r.op \notin {"add", "status"}
    BY <1>4, <1>5, <2>1, <2>2, <2>4
  <2> QED BY <2>3, <2>4
<1>9. /\ \A m \in 1..(n + 1) : IsLast(m, Deferrals(R, h, n + 1)) => u.deferred_since = R[m].ts
      /\ Deferrals(R, h, n + 1) = {} => u.deferred_since = Never
  <2>1. \A m : IF r.op \in {"add", "status"} /\ r.status = Defers
         THEN IsLast(m, Deferrals(R, h, n + 1)) <=> m = n + 1
         ELSE IsLast(m, Deferrals(R, h, n + 1)) <=> m \in 1..n /\ IsLast(m, Deferrals(R, h, n))
    BY <1>1, <1>2, LastDeferral
  <2>2. PICK S, T : S = Deferrals(R, h, n) /\ T = Deferrals(R, h, n + 1)
    OBVIOUS
  <2>3. T = IF r.op \in {"add", "status"} /\ r.status = Defers THEN S \cup {n + 1} ELSE S
    BY <1>1, <1>2, <2>2, DeferralsNext
  <2>4. CASE r.op \in {"add", "status"} /\ r.status = Defers
    <3>1. T # {}
      BY <2>3, <2>4
    <3> QED BY <1>1, <1>5, <2>1, <2>2, <2>4, <3>1
  <2>5. CASE ~(r.op \in {"add", "status"} /\ r.status = Defers) /\ r.op # "add"
    BY <1>4, <1>5, <2>1, <2>2, <2>3, <2>5
  <2>6. CASE ~(r.op \in {"add", "status"} /\ r.status = Defers) /\ r.op = "add"
    <3>1. Says(R, h, n, {"add", "status"}) = {}
      BY <1>2, <1>3, <2>6, NothingBefore
    <3>2. \A m : ~IsLast(m, S)
      BY <2>2, <3>1 DEF Deferrals, IsLast
    <3>3. u.deferred_since = Never
      BY <1>5, <2>6
    <3> QED BY <2>1, <2>2, <2>6, <3>2, <3>3
  <2> QED BY <2>4, <2>5, <2>6
<1>10. u.removed <=> Says(R, h, n + 1, {"remove"}) # {}
  <2>1. \A ops : Says(R, h, n + 1, ops) =
          IF Takes(R, h, n + 1) /\ R[n + 1].op \in ops THEN Says(R, h, n, ops) \cup {n + 1}
          ELSE Says(R, h, n, ops)
    BY <1>2, SaysNext, Zenon
  <2>2. Says(R, h, n + 1, {"remove"}) =
          IF Takes(R, h, n + 1) /\ R[n + 1].op \in {"remove"}
            THEN Says(R, h, n, {"remove"}) \cup {n + 1}
          ELSE Says(R, h, n, {"remove"})
    BY <2>1, Zenon
  <2>3. Says(R, h, n, {"remove"}) = {}
    BY <1>2, <1>3, NothingBefore
  <2>4. r.op \in {"remove"} <=> r.op = "remove"
    OBVIOUS
  <2>5. Says(R, h, n + 1, {"remove"}) = IF r.op = "remove" THEN {n + 1} ELSE {}
    BY <1>1, <2>2, <2>3, <2>4
  <2> QED BY <1>5, <2>5
<1> QED BY <1>3, <1>5, <1>6, <1>7, <1>8, <1>9, <1>10 DEF TaskSays

LEMMA TaskSaysStays ==
  ASSUME NEW R \in Seq(LogRecords), NEW n \in 0..Len(R), n + 1 \in 1..Len(R), NEW h,
         NEW t, TaskSays(t, R, h, n), ~Sends(R, h, n + 1)
  PROVE  TaskSays(t, R, h, n + 1)
<1>0. Len(R) \in Nat /\ n \in Nat /\ (n + 1) - 1 = n
  OBVIOUS
<1>1. CASE Takes(R, h, n + 1)
  <2>1. Retag(R[n + 1]) /\ Importable(TagsAt(R, h, n + 1)) = Importable(TagsAt(R, h, n))
    BY <1>0, <1>1 DEF Sends
  <2>2. R[n + 1].op # "add" /\ R[n + 1].op # "text" /\ R[n + 1].op # "status"
        /\ R[n + 1].op # "remove"
    BY <2>1 DEF Retag
  <2>3. Added(R, h, n) /\ Says(R, h, n, {"remove"}) = {}
    BY <1>0, <1>1, <2>2, AddedNext
  <2>4. /\ t.harp_id = h /\ t.tags = Importable(TagsAt(R, h, n))
        /\ t.removed <=> Says(R, h, n, {"remove"}) # {}
    BY <2>3 DEF TaskSays
  <2>5. Becomes(t, t, R, h, n + 1)
    BY <2>1, <2>2, <2>3, <2>4 DEF Becomes
  <2> QED BY <1>1, <2>5, TaskSaysOn
<1>2. CASE ~Takes(R, h, n + 1)
  <2>1. ASSUME NEW ops PROVE Says(R, h, n + 1, ops) = Says(R, h, n, ops)
    <3>1. Says(R, h, n + 1, ops) =
           IF Takes(R, h, n + 1) /\ R[n + 1].op \in ops THEN Says(R, h, n, ops) \cup {n + 1}
           ELSE Says(R, h, n, ops)
      <4>1. n \in Nat
        BY <1>0
      <4> QED BY ONLY <4>1, SaysNext, Zenon
    <3> QED BY <1>2, <3>1
  <2>2. Added(R, h, n + 1) <=> Added(R, h, n)
    BY <1>0, <1>2, AddedNext
  <2>3. Deferrals(R, h, n + 1) = Deferrals(R, h, n)
    BY <1>0, <1>2, DeferralsNext
  <2>4. \A v : HeldTrigger(R, h, n + 1, v) <=> HeldTrigger(R, h, n, v)
    BY <1>0, <1>2, HeldNext
  <2>5. TagsAt(R, h, n + 1) = TagsAt(R, h, n)
    <3>1. R[n + 1].tags \in SUBSET Spellings
      BY RecordOf DEF LogRecords
    <3> QED BY <1>0, <1>2, <3>1, TagsNext
  <2>6. CASE ~Added(R, h, n)
    BY <2>2, <2>6 DEF TaskSays
  <2>7. CASE Added(R, h, n)
    <3>1. /\ t.harp_id = h
          /\ \A a \in 1..n : FirstAdd(R, h, a) => t.created_at = R[a].ts
          /\ \A m \in 1..n : IsLast(m, Says(R, h, n, {"add", "text"})) => t.text = R[m].text
          /\ \A m \in 1..n : IsLast(m, Says(R, h, n, {"add", "status"})) =>
               /\ t.status = IF R[m].status = Empty THEN Initial ELSE R[m].status
               /\ t.status_set_at = R[m].ts
               /\ R[m].status # Defers => t.trigger = Empty
               /\ R[m].status = Defers => HeldTrigger(R, h, n, t.trigger)
          /\ t.tags = Importable(TagsAt(R, h, n))
          /\ \A m \in 1..n : IsLast(m, Deferrals(R, h, n)) => t.deferred_since = R[m].ts
          /\ Deferrals(R, h, n) = {} => t.deferred_since = Never
          /\ t.removed <=> Says(R, h, n, {"remove"}) # {}
      BY <2>7 DEF TaskSays
    <3>2. \A a \in 1..(n + 1) : FirstAdd(R, h, a) => a \in 1..n
      BY <1>0, <2>7, AddedNext
    <3>3. \A m \in 1..(n + 1) : \A ops : IsLast(m, Says(R, h, n, ops)) => m \in 1..n
      BY DEF IsLast, Says
    <3>4. \A m \in 1..(n + 1) : IsLast(m, Deferrals(R, h, n)) => m \in 1..n
      BY DEF IsLast, Says, Deferrals
    <3>5. /\ Says(R, h, n + 1, {"add", "text"}) = Says(R, h, n, {"add", "text"})
          /\ Says(R, h, n + 1, {"add", "status"}) = Says(R, h, n, {"add", "status"})
          /\ Says(R, h, n + 1, {"remove"}) = Says(R, h, n, {"remove"})
      BY <2>1, Zenon
    <3>6. /\ \A a \in 1..(n + 1) : FirstAdd(R, h, a) => t.created_at = R[a].ts
          /\ \A m \in 1..(n + 1) : IsLast(m, Says(R, h, n + 1, {"add", "text"})) => t.text = R[m].text
          /\ \A m \in 1..(n + 1) : IsLast(m, Deferrals(R, h, n + 1)) => t.deferred_since = R[m].ts
          /\ Deferrals(R, h, n + 1) = {} => t.deferred_since = Never
          /\ t.tags = Importable(TagsAt(R, h, n + 1))
      BY <2>3, <2>5, <3>1, <3>2, <3>3, <3>4, <3>5
    <3>7. \A m \in 1..(n + 1) : IsLast(m, Says(R, h, n + 1, {"add", "status"})) =>
               /\ t.status = IF R[m].status = Empty THEN Initial ELSE R[m].status
               /\ t.status_set_at = R[m].ts
               /\ R[m].status # Defers => t.trigger = Empty
               /\ R[m].status = Defers => HeldTrigger(R, h, n + 1, t.trigger)
      <4> SUFFICES ASSUME NEW m \in 1..(n + 1), IsLast(m, Says(R, h, n + 1, {"add", "status"}))
                   PROVE  /\ t.status = IF R[m].status = Empty THEN Initial ELSE R[m].status
                          /\ t.status_set_at = R[m].ts
                          /\ R[m].status # Defers => t.trigger = Empty
                          /\ R[m].status = Defers => HeldTrigger(R, h, n + 1, t.trigger)
        OBVIOUS
      <4>1. IsLast(m, Says(R, h, n, {"add", "status"}))
        BY <3>5
      <4>2. m \in 1..n
        BY <3>3, <4>1
      <4> QED BY <2>4, <3>1, <4>1, <4>2
    <3> QED BY <2>2, <2>7, <3>1, <3>5, <3>6, <3>7 DEF TaskSays
  <2> QED BY <2>6, <2>7
<1> QED BY <1>1, <1>2

\* A record it can take, decided on the task as the log has it: recorded, and
\* it becomes what the log says.
LEMMA DecidedAsLogged ==
  ASSUME NEW R \in Seq(LogRecords), NEW n \in 0..Len(R), n + 1 \in 1..Len(R), NEW h \in Harps,
         NEW t \in TaskStates, TaskSays(t, R, h, n), NEW taken \in BOOLEAN, taken => Added(R, h, n),
         Clean(R, h, n + 1), Sends(R, h, n + 1), NEW c, CommandOf(R, h, n + 1, c)
  PROVE  \E e : /\ Decide(t, taken, c) = Recorded(e) /\ Records(Recorded(e))
                /\ Becomes(t, Apply(t, e, R[n + 1].ts), R, h, n + 1)
<1>1. PICK r : r = R[n + 1]
  OBVIOUS
<1>2. /\ r.op \in Ops /\ r.text \in Texts \cup {Blank}
      /\ r.status \in Statuses \cup {Empty, Blank}
      /\ r.trigger \in Triggers \cup {Empty, Blank}
  BY <1>1, RecordOf DEF LogRecords
<1>3. Takes(R, h, n + 1) /\ ~Unfit(r) /\ (DefersTask(r) => TriggeredAt(R, h, n + 1))
  <2>1. n + 1 \in 1..(n + 1)
    OBVIOUS
  <2>2. Takes(R, h, n + 1)
    BY DEF Sends
  <2>3. ~Unfit(R[n + 1]) /\ (DefersTask(R[n + 1]) => TriggeredAt(R, h, n + 1))
    BY <2>1, <2>2 DEF Clean
  <2> QED BY <1>1, <2>2, <2>3
<1>4. Len(R) \in Nat /\ n \in Nat /\ (n + 1) - 1 = n
  OBVIOUS
<1>5. /\ r.op # "add" => Added(R, h, n) /\ Says(R, h, n, {"remove"}) = {}
      /\ r.op = "add" => ~Added(R, h, n)
  BY <1>1, <1>3, <1>4, AddedNext
<1>6. r.op # "add" => t.harp_id = h /\ ~t.removed /\ t.tags = Importable(TagsAt(R, h, n))
  BY <1>5 DEF TaskSays
<1>7. r.op # "add" => LiveRefusal(t) = Sound
  BY <1>6, NamesAssumption DEF LiveRefusal
<1>8. \A x \in Statuses : x # Absent /\ x # Empty /\ x # Blank /\ x \notin ReservedStatuses
  BY NamesAssumption
<1>9. \A x \in Triggers : x # Absent /\ x # Empty /\ x # Blank
  BY NamesAssumption
<1>10. Defers \in Statuses /\ Initial \in Statuses /\ Defers # Initial
  BY TaxonomyAssumption
<1>11. Absent # Empty /\ Absent # Blank /\ Empty # Blank /\ Absent \notin ReservedStatuses
  BY NamesAssumption DEF Absent, Empty, Blank
<1>12. ASSUME NEW v, HeldTrigger(R, h, n + 1, v), DefersTask(r) PROVE v # Empty
  <2>1. PICK m \in 1..(n + 1) : IsLast(m, Triggering(R, h, n + 1)) /\ R[m].trigger # Blank
    BY <1>3, <1>12 DEF TriggeredAt
  <2>2. v = Trimmed(R[m].trigger) /\ R[m].trigger # Empty
    BY <1>12, <2>1 DEF HeldTrigger, IsLast, Triggering
  <2> QED BY <2>1, <2>2 DEF Trimmed
<1>13. TagsAt(R, h, n + 1) =
           IF r.op = "add" THEN r.tags
           ELSE IF r.op = "tag" THEN TagsAt(R, h, n) \cup r.tags
           ELSE IF r.op = "untag" THEN TagsAt(R, h, n) \ r.tags
           ELSE TagsAt(R, h, n)
  <2>1. R[n + 1].tags \in SUBSET Spellings
    BY RecordOf DEF LogRecords
  <2> QED BY <1>1, <1>3, <1>4, <2>1, TagsNext
<1>14. CASE r.op = "add"
  <2>1. c = [type |-> "AddTask", harp_id |-> h, text |-> r.text, status |-> LeftOut(r.status),
             trigger |-> DeferringOn(r.status, Trimmed(r.trigger)), tags |-> Importable(r.tags)]
    BY <1>1, <1>14 DEF CommandOf
  <2>2. r.text # Blank /\ r.status # Blank /\ (r.status = Defers => r.trigger \in Triggers)
    BY <1>2, <1>3, <1>14 DEF Unfit
  <2>3. c.type = "AddTask" /\ c.text = r.text /\ c.harp_id = h /\ c.tags = Importable(r.tags)
        /\ c.status = LeftOut(r.status) /\ c.trigger = DeferringOn(r.status, Trimmed(r.trigger))
    BY <2>1
  <2>4. AddedStatus(c) = IF r.status = Empty THEN Initial ELSE r.status
    BY <1>2, <1>8, <1>10, <1>11, <2>2, <2>3 DEF AddedStatus, LeftOut, DeferringOn
  <2>5. c.trigger = IF r.status = Defers THEN r.trigger ELSE Absent
    BY <1>9, <2>2, <2>3 DEF DeferringOn, LeftOut, Trimmed
  <2>6. c.status = Absent \/ c.status \in Statuses
    BY <1>2, <2>2, <2>3 DEF LeftOut
  <2>7. AddRefusal(c) = Sound
    <3>1. TextRefusal(c.text) = Sound /\ StatusRefusal(c.status) = Sound
      BY <1>8, <1>11, <2>2, <2>3, <2>6 DEF TextRefusal, StatusRefusal, GivenBlank
    <3>2. ~GivenBlank(c.trigger)
      BY <1>9, <1>11, <2>2, <2>5 DEF GivenBlank
    <3>3. (c.trigger # Absent <=> AddedStatus(c) = Defers)
      BY <1>8, <1>9, <1>10, <1>11, <2>2, <2>4, <2>5
    <3> QED BY <3>1, <3>2, <3>3 DEF AddRefusal
  <2>8. ~taken
    BY <1>5, <1>14
  <2> DEFINE e == TaskAddedOf(c)
  <2>9. Decide(t, taken, c) = Recorded(e)
    BY <2>3, <2>7, <2>8 DEF Decide, DecideAdd
  <2>10. /\ e.type = "TaskAdded" /\ e.harp_id = h /\ e.text = r.text /\ e.status = AddedStatus(c)
         /\ e.trigger = IF r.status = Defers THEN r.trigger ELSE Empty
         /\ e.tags = Importable(r.tags) /\ e.at = Never /\ e.deferred_since = Never
    BY <1>9, <2>2, <2>3, <2>5 DEF TaskAddedOf
  <2> HIDE DEF e
  <2>11. Records(Recorded(e))
    BY <2>10 DEF Records, Recorded
  <2> DEFINE u == Apply(t, e, r.ts)
  <2>12. u = ApplyAdded(t, e, r.ts)
    BY <2>10 DEF Apply
  <2>13. t = NoTask
    BY <1>5, <1>14 DEF TaskSays
  <2>14. /\ u.harp_id = h /\ u.text = r.text /\ u.status = e.status /\ u.trigger = e.trigger
         /\ u.tags = e.tags /\ u.created_at = r.ts /\ u.status_set_at = r.ts /\ u.removed = FALSE
         /\ u.deferred_since = DeferredSince(Never, e.trigger, r.ts, Never)
    BY <2>10, <2>12, <2>13 DEF ApplyAdded, InstantOf, NoTask
  <2> HIDE DEF u
  <2>15. u.deferred_since = IF r.status = Defers THEN r.ts ELSE Never
    BY <1>9, <2>2, <2>10, <2>14 DEF DeferredSince
  <2>16. r.status = Defers => HeldTrigger(R, h, n + 1, u.trigger)
    <3>1. ASSUME r.status = Defers PROVE HeldTrigger(R, h, n + 1, u.trigger)
      <4>1. r.trigger # Empty /\ Trimmed(r.trigger) = r.trigger
        BY <1>9, <2>2, <3>1 DEF Trimmed
      <4>2. HeldTrigger(R, h, n + 1, u.trigger) <=> u.trigger = Trimmed(r.trigger)
        BY <1>1, <1>3, <1>4, <1>14, <4>1, HeldNext
      <4> QED BY <2>10, <2>14, <3>1, <4>1, <4>2
    <3> QED BY <3>1
  <2>17. Becomes(t, u, R, h, n + 1)
    BY <1>1, <1>13, <1>14, <2>4, <2>10, <2>14, <2>15, <2>16 DEF Becomes
  <2> QED BY <1>1, <2>9, <2>11, <2>17 DEF u
<1>15. CASE r.op = "status"
  <2>1. PICK v \in Triggers \cup {Empty} :
          /\ HeldTrigger(R, h, n + 1, v)
          /\ c = [type |-> "SetStatus", status |-> LeftOut(r.status),
                  trigger |-> DeferringOn(r.status, v)]
    BY <1>1, <1>15 DEF CommandOf
  <2>2. r.status \in Statuses
    BY <1>2, <1>3, <1>15 DEF Unfit
  <2>3. c.type = "SetStatus" /\ c.status = r.status
        /\ c.trigger = IF r.status = Defers THEN v ELSE Absent
    <3>1. r.status = Defers => v # Empty
      BY <1>12, <1>15, <2>1 DEF DefersTask
    <3> QED BY <1>8, <2>1, <2>2, <3>1 DEF LeftOut, DeferringOn
  <2>4. r.status = Defers => v \in Triggers
    BY <1>12, <1>15, <2>1 DEF DefersTask
  <2>5. ChangeRefusal(c) = Sound
    <3>1. StatusRefusal(c.status) = Sound
      BY <1>8, <2>2, <2>3 DEF StatusRefusal, GivenBlank
    <3> QED BY <1>8, <1>9, <1>11, <2>2, <2>3, <2>4, <3>1 DEF ChangeRefusal
  <2> DEFINE e == IF r.status = Defers THEN Deferring(t, v) ELSE Resting(r.status)
  <2>6. Moved(t, c) = Recorded(e)
    BY <1>9, <1>11, <2>3, <2>4 DEF Moved
  <2>7. Decide(t, taken, c) = Recorded(e)
    BY <1>7, <1>15, <2>3, <2>5, <2>6 DEF Decide, DecideSetStatus
  <2>8. /\ e.type = "StatusChanged" /\ e.status = r.status /\ e.at = Never
        /\ e.deferred_since = Never /\ e.trigger = IF r.status = Defers THEN v ELSE Empty
    BY DEF Deferring, Resting
  <2> HIDE DEF e
  <2>9. Records(Recorded(e))
    BY <2>8 DEF Records, Recorded
  <2> DEFINE u == Apply(t, e, r.ts)
  <2>10. u = ApplyStatusChanged(t, e, r.ts)
    BY <2>8 DEF Apply
  <2>11. /\ u.harp_id = t.harp_id /\ u.text = t.text /\ u.status = e.status /\ u.trigger = e.trigger
         /\ u.tags = t.tags /\ u.created_at = t.created_at /\ u.status_set_at = r.ts
         /\ u.removed = t.removed
         /\ u.deferred_since = DeferredSince(Never, e.trigger, r.ts, t.deferred_since)
    BY <2>8, <2>10 DEF ApplyStatusChanged, InstantOf, TaskStates
  <2> HIDE DEF u
  <2>12. u.deferred_since = IF r.status = Defers THEN r.ts ELSE t.deferred_since
    BY <1>9, <2>4, <2>8, <2>11 DEF DeferredSince
  <2>13. Becomes(t, u, R, h, n + 1)
    <3>1. r.status # Empty
      BY <1>8, <2>2
    <3> QED BY <1>1, <1>6, <1>13, <1>15, <2>1, <2>8, <2>11, <2>12, <3>1 DEF Becomes
  <2> QED BY <1>1, <2>7, <2>9, <2>13 DEF u
<1>16. CASE r.op = "text"
  <2>1. c.type = "EditText" /\ c.text = r.text
    BY <1>1, <1>16 DEF CommandOf
  <2>2. r.text # Blank
    BY <1>3, <1>16 DEF Unfit
  <2> DEFINE e == [type |-> "TextEdited", text |-> c.text]
             u == Apply(t, e, r.ts)
  <2>3. Decide(t, taken, c) = Recorded(e)
    BY <1>7, <1>16, <2>1, <2>2 DEF Decide, DecideEdit, TextRefusal
  <2>4. Records(Recorded(e))
    BY DEF Records, Recorded
  <2>5. u = [t EXCEPT !.text = r.text]
    BY <2>1 DEF Apply
  <2>6. /\ u.harp_id = t.harp_id /\ u.text = r.text /\ u.status = t.status /\ u.trigger = t.trigger
        /\ u.tags = t.tags /\ u.created_at = t.created_at /\ u.status_set_at = t.status_set_at
        /\ u.removed = t.removed /\ u.deferred_since = t.deferred_since
    BY <2>5 DEF TaskStates
  <2> HIDE DEF u
  <2>7. Becomes(t, u, R, h, n + 1)
    BY <1>1, <1>6, <1>13, <1>16, <2>6 DEF Becomes
  <2> QED BY <1>1, <2>3, <2>4, <2>7 DEF u
<1>17. CASE r.op = "remove"
  <2>1. c.type = "RemoveTask" /\ c.reason = "Removed"
    BY <1>1, <1>17 DEF CommandOf
  <2> DEFINE e == [type |-> "TaskRemoved", reason |-> c.reason]
             u == Apply(t, e, r.ts)
  <2>3. Decide(t, taken, c) = Recorded(e)
    BY <1>7, <1>17, <2>1 DEF Decide, DecideRemove
  <2>4. Records(Recorded(e))
    BY DEF Records, Recorded
  <2>5. u = [t EXCEPT !.removed = TRUE]
    BY DEF Apply
  <2>6. /\ u.harp_id = t.harp_id /\ u.text = t.text /\ u.status = t.status /\ u.trigger = t.trigger
        /\ u.tags = t.tags /\ u.created_at = t.created_at /\ u.status_set_at = t.status_set_at
        /\ u.removed = TRUE /\ u.deferred_since = t.deferred_since
    BY <2>5 DEF TaskStates
  <2> HIDE DEF u
  <2>7. Becomes(t, u, R, h, n + 1)
    BY <1>1, <1>6, <1>13, <1>17, <2>6 DEF Becomes
  <2> QED BY <1>1, <2>3, <2>4, <2>7 DEF u
<1>18. CASE Retag(r)
  <2>0. PICK before, after : before = Importable(TagsAt(R, h, n)) /\ after = Importable(TagsAt(R, h, n + 1))
    OBVIOUS
  <2>1. c = [type |-> "Retag", add |-> after \ before, remove |-> before \ after]
    BY <1>1, <1>4, <1>18, <2>0 DEF CommandOf, Retag
  <2>2. after # before /\ t.tags = before
    BY <1>1, <1>4, <1>6, <1>18, <2>0 DEF Sends, Retag
  <2>3. c.type = "Retag" /\ c.add = after \ before /\ c.remove = before \ after
    BY <2>1
  <2>4. (t.tags \cup c.add) \ c.remove = after
    BY <2>2, <2>3
  <2>5. RetagRefusal(c) = Sound
    BY <2>2, <2>3 DEF RetagRefusal
  <2> DEFINE e == [type |-> "Retagged", tags |-> after]
             u == Apply(t, e, r.ts)
  <2>6. Decide(t, taken, c) = Recorded(e)
    <3>1. Decide(t, taken, c) = DecideRetag(t, c)
      BY <2>3 DEF Decide
    <3>2. LiveRefusal(t) = Sound
      BY <1>7, <1>18 DEF Retag
    <3> QED BY <2>2, <2>4, <2>5, <3>1, <3>2 DEF DecideRetag
  <2>7. Records(Recorded(e))
    BY DEF Records, Recorded
  <2>8. u = [t EXCEPT !.tags = after]
    BY DEF Apply
  <2>9. /\ u.harp_id = t.harp_id /\ u.text = t.text /\ u.status = t.status /\ u.trigger = t.trigger
        /\ u.tags = after /\ u.created_at = t.created_at /\ u.status_set_at = t.status_set_at
        /\ u.removed = t.removed /\ u.deferred_since = t.deferred_since
    BY <2>8 DEF TaskStates
  <2> HIDE DEF u
  <2>10. Becomes(t, u, R, h, n + 1)
    BY <1>1, <1>6, <1>18, <2>0, <2>9 DEF Becomes, Retag
  <2> QED BY <1>1, <2>6, <2>7, <2>10 DEF u
<1> QED BY <1>2, <1>14, <1>15, <1>16, <1>17, <1>18 DEF Ops, Retag

\* No trigger is held of a task that none was logged of.
LEMMA NoneHeld ==
  ASSUME NEW R, NEW h, NEW n \in Nat, NEW v, HeldTrigger(R, h, n, v), ~TriggeredAt(R, h, n)
  PROVE  v = Empty
<1>1. CASE Triggering(R, h, n) = {}
  BY <1>1 DEF HeldTrigger
<1>2. CASE Triggering(R, h, n) # {}
  <2>1. Triggering(R, h, n) \in SUBSET (1..n)
    BY DEF Triggering, Says
  <2>2. PICK m \in 1..n : IsLast(m, Triggering(R, h, n))
    <3>1. PICK S : S = Triggering(R, h, n)
      OBVIOUS
    <3>2. S \in SUBSET (1..n) /\ S # {}
      BY <1>2, <2>1, <3>1
    <3>3. \E m \in 1..n : IsLast(m, S)
      BY <3>2, LastExists
    <3> QED BY <3>1, <3>3
  <2>3. v = Trimmed(R[m].trigger) /\ R[m].trigger = Blank
    BY <2>2 DEF HeldTrigger, TriggeredAt
  <2> QED BY <2>3 DEF Trimmed
<1> QED BY <1>1, <1>2

\* A record no task takes, or one that defers a task with no trigger, is refused.
Declined(d) == ~Records(d) /\ d.refusal \notin {Sound, "Displaced", "Tag", "TaskExists"}
LEMMA UnfitRefused ==
  ASSUME NEW R \in Seq(LogRecords), NEW n \in 0..Len(R), n + 1 \in 1..Len(R), NEW h \in Harps,
         NEW t \in TaskStates, NEW taken \in BOOLEAN, NEW c, CommandOf(R, h, n + 1, c),
         Takes(R, h, n + 1),
         Unfit(R[n + 1])
           \/ (DefersTask(R[n + 1]) /\ ~TriggeredAt(R, h, n + 1) /\ t.trigger = Empty)
  PROVE  Declined(Decide(t, taken, c)) \/ Decide(t, taken, c) = Refused("TaskExists")
<1>1. PICK r : r = R[n + 1]
  OBVIOUS
<1>2. /\ r.op \in Ops /\ r.text \in Texts \cup {Blank}
      /\ r.status \in Statuses \cup {Empty, Blank}
      /\ r.trigger \in Triggers \cup {Empty, Blank}
  BY <1>1, RecordOf DEF LogRecords
<1>3. /\ \A x \in Statuses : x # Absent /\ x # Empty /\ x # Blank /\ x \notin ReservedStatuses
      /\ \A x \in Triggers : x # Absent /\ x # Empty /\ x # Blank
      /\ Defers \in Statuses /\ Initial \in Statuses /\ Defers # Initial
      /\ Absent # Empty /\ Absent # Blank /\ Empty # Blank /\ Absent \notin ReservedStatuses
  BY NamesAssumption, TaxonomyAssumption DEF Absent, Empty, Blank
<1>4. n \in Nat
  OBVIOUS
<1>5. \A why : Declined(Refused(why)) <=> why \notin {Sound, "Displaced", "Tag", "TaskExists"}
  BY DEF Declined, Refused, Records, NoEvent
<1>6. PICK codes : codes = {"NoTask", "Removed", "TextRequired", "Blank", "StatusReserved",
                            "TriggerWithStatus", "TriggerRequired", "StatusRequired"}
  OBVIOUS
<1>7. \A why \in codes : Declined(Refused(why))
  <2>1. \A why \in codes : why \notin {Sound, "Displaced", "Tag", "TaskExists"}
    BY <1>6 DEF Sound
  <2> QED BY <1>5, <2>1
<1>8. LiveRefusal(t) \in codes \cup {Sound}
  BY <1>6 DEF LiveRefusal
<1>9. CASE r.op = "add"
  <2>1. c = [type |-> "AddTask", harp_id |-> h, text |-> r.text, status |-> LeftOut(r.status),
             trigger |-> DeferringOn(r.status, Trimmed(r.trigger)), tags |-> Importable(r.tags)]
    BY <1>1, <1>9 DEF CommandOf
  <2>2. c.type = "AddTask" /\ c.text = r.text /\ c.status = LeftOut(r.status)
        /\ c.trigger = DeferringOn(r.status, Trimmed(r.trigger))
    BY <2>1
  <2>3. Unfit(r)
    <3>1. CASE DefersTask(r) /\ ~TriggeredAt(R, h, n + 1)
      <4>1. CASE r.trigger = Empty
        BY <1>9, <3>1, <4>1 DEF Unfit, DefersTask
      <4>2. CASE r.trigger # Empty
        <5>1. Triggering(R, h, n + 1) = Triggering(R, h, n) \cup {n + 1}
          BY <1>1, <1>4, <1>9, <4>2, TriggeringNext
        <5>2. PICK S : S = Triggering(R, h, n)
          OBVIOUS
        <5>3. S \in SUBSET (1..n)
          BY <5>2 DEF Triggering, Says
        <5>4. \A m : IsLast(m, S \cup {n + 1}) <=> m = n + 1
          BY <1>4, <5>3, LastOfMore
        <5>5. n + 1 \in 1..(n + 1) /\ IsLast(n + 1, Triggering(R, h, n + 1))
          <6>1. n + 1 \in 1..(n + 1)
            BY <1>4
          <6>2. IsLast(n + 1, S \cup {n + 1})
            BY <5>4, Zenon
          <6>3. Triggering(R, h, n + 1) = S \cup {n + 1}
            BY <5>1, <5>2, Zenon
          <6> QED BY <6>1, <6>2, <6>3, Zenon
        <5>6. r.trigger = Blank
          BY <1>1, <3>1, <5>5 DEF TriggeredAt
        <5> QED BY <1>9, <3>1, <5>6 DEF Unfit, DefersTask
      <4> QED BY <4>1, <4>2
    <3> QED BY <1>1, <3>1
  <2>4. AddRefusal(c) \in codes
    <3>1. CASE r.text = Blank
      BY <1>6, <2>2, <3>1 DEF AddRefusal, TextRefusal, Sound
    <3>2. CASE r.text # Blank /\ r.status = Blank
      <4>1. TextRefusal(c.text) = Sound /\ c.status = Blank
        BY <1>3, <2>2, <3>2 DEF TextRefusal, LeftOut
      <4>2. StatusRefusal(c.status) = "Blank"
        BY <4>1 DEF StatusRefusal, GivenBlank
      <4> QED BY <1>6, <4>1, <4>2 DEF AddRefusal, Sound
    <3>3. CASE r.text # Blank /\ r.status # Blank /\ r.status = Defers /\ r.trigger \in {Empty, Blank}
      <4>1. TextRefusal(c.text) = Sound /\ c.status = Defers /\ c.trigger = Absent
        BY <1>3, <2>2, <3>3 DEF TextRefusal, LeftOut, DeferringOn, Trimmed
      <4>2. StatusRefusal(c.status) = Sound
        BY <1>3, <4>1 DEF StatusRefusal, GivenBlank
      <4>3. ~GivenBlank(c.trigger) /\ AddedStatus(c) = Defers
        BY <1>3, <4>1 DEF GivenBlank, AddedStatus
      <4> QED BY <1>6, <4>1, <4>2, <4>3 DEF AddRefusal
    <3> QED BY <1>9, <2>3, <3>1, <3>2, <3>3 DEF Unfit
  <2>5. AddRefusal(c) # Sound
    BY <1>6, <2>4 DEF Sound
  <2>6. Decide(t, taken, c) \in {Refused("TaskExists"), Refused(AddRefusal(c))}
    BY <2>2, <2>5 DEF Decide, DecideAdd
  <2> QED BY <1>7, <2>4, <2>6
<1>10. CASE r.op = "status"
  <2>1. PICK v \in Triggers \cup {Empty} :
          /\ HeldTrigger(R, h, n + 1, v)
          /\ c = [type |-> "SetStatus", status |-> LeftOut(r.status),
                  trigger |-> DeferringOn(r.status, v)]
    BY <1>1, <1>10 DEF CommandOf
  <2>2. c.type = "SetStatus" /\ c.status = LeftOut(r.status) /\ c.trigger = DeferringOn(r.status, v)
    BY <2>1
  <2>3. Decide(t, taken, c) = DecideSetStatus(t, c)
    BY <2>2 DEF Decide
  <2>4. CASE LiveRefusal(t) # Sound
    BY <1>7, <1>8, <2>3, <2>4 DEF DecideSetStatus
  <2>5. CASE LiveRefusal(t) = Sound /\ Unfit(r)
    <3>1. r.status \in {Empty, Blank}
      BY <1>10, <2>5 DEF Unfit
    <3>2. c.trigger = Absent /\ c.status \in {Absent, Blank}
      BY <1>3, <2>2, <3>1 DEF DeferringOn, LeftOut
    <3>3. ChangeRefusal(c) \in {"Blank", "StatusRequired"}
      BY <1>3, <3>2 DEF ChangeRefusal, StatusRefusal, GivenBlank, Sound
    <3>4. Decide(t, taken, c) = Refused(ChangeRefusal(c))
      BY <2>3, <2>5, <3>3 DEF DecideSetStatus, Sound
    <3> QED BY <1>6, <1>7, <3>3, <3>4
  <2>6. CASE LiveRefusal(t) = Sound /\ DefersTask(r) /\ ~TriggeredAt(R, h, n + 1) /\ t.trigger = Empty
    <3>1. v = Empty
      BY <1>4, <2>1, <2>6, NoneHeld
    <3>2. c.trigger = Absent /\ c.status = Defers
      BY <1>3, <2>2, <2>6, <3>1 DEF DeferringOn, LeftOut, DefersTask
    <3>3. Moved(t, c) = Refused("TriggerRequired")
      BY <1>3, <2>6, <3>2 DEF Moved
    <3>4. ChangeRefusal(c) = Sound
      BY <1>3, <3>2 DEF ChangeRefusal, StatusRefusal, GivenBlank
    <3>5. Decide(t, taken, c) = Refused("TriggerRequired")
      BY <2>3, <2>6, <3>3, <3>4 DEF DecideSetStatus
    <3> QED BY <1>6, <1>7, <3>5
  <2> QED BY <1>1, <2>4, <2>5, <2>6
<1>11. CASE r.op = "text"
  <2>1. c.type = "EditText" /\ c.text = r.text
    BY <1>1, <1>11 DEF CommandOf
  <2>2. r.text = Blank
    BY <1>1, <1>11 DEF Unfit, DefersTask
  <2>3. Decide(t, taken, c) = DecideEdit(t, c) /\ TextRefusal(c.text) = "TextRequired"
    BY <2>1, <2>2 DEF Decide, TextRefusal
  <2>4. Decide(t, taken, c) \in {Refused(LiveRefusal(t)), Refused("TextRequired")}
        /\ (Decide(t, taken, c) = Refused("TextRequired") \/ LiveRefusal(t) # Sound)
    BY <2>3 DEF DecideEdit, Sound
  <2> QED BY <1>6, <1>7, <1>8, <2>3, <2>4 DEF DecideEdit
<1> QED BY <1>1, <1>9, <1>10, <1>11 DEF Unfit, DefersTask

\* A record that does not defer it leaves a task with no trigger with none.
LEMMA StaysUntriggered ==
  ASSUME NEW R \in Seq(LogRecords), NEW n \in 0..Len(R), n + 1 \in 1..Len(R), NEW h \in Harps,
         NEW t \in TaskStates, NEW taken \in BOOLEAN, NEW c, CommandOf(R, h, n + 1, c),
         ~DefersTask(R[n + 1]), t.trigger = Empty, Records(Decide(t, taken, c)), NEW at
  PROVE  Apply(t, Decide(t, taken, c).event, at).trigger = Empty
<1>1. PICK r : r = R[n + 1]
  OBVIOUS
<1>2. r.op \in Ops /\ r.status \in Statuses \cup {Empty, Blank}
  BY <1>1, RecordOf DEF LogRecords
<1>3. /\ \A x \in Statuses : x # Absent /\ x # Empty /\ x # Blank
      /\ \A x \in Triggers : x # Absent /\ x # Empty /\ x # Blank
      /\ Defers \in Statuses
      /\ Absent # Empty /\ Absent # Blank /\ Empty # Blank
  BY NamesAssumption, TaxonomyAssumption DEF Absent, Empty, Blank
<1>4. \A why : ~Records(Refused(why)) /\ ~Records(Unchanged)
  BY DEF Records, Refused, Unchanged, NoEvent
<1>5. PICK d : d = Decide(t, taken, c)
  OBVIOUS
<1>6. CASE r.op = "add"
  <2>1. c = [type |-> "AddTask", harp_id |-> h, text |-> r.text, status |-> LeftOut(r.status),
             trigger |-> DeferringOn(r.status, Trimmed(r.trigger)), tags |-> Importable(r.tags)]
    BY <1>1, <1>6 DEF CommandOf
  <2>2. c.type = "AddTask" /\ c.trigger = DeferringOn(r.status, Trimmed(r.trigger))
    BY <2>1
  <2>3. c.trigger = Absent
    BY <1>1, <1>6, <2>2 DEF DeferringOn, DefersTask
  <2>4. d = Recorded(TaskAddedOf(c))
    BY <1>4, <1>5, <2>2 DEF Decide, DecideAdd
  <2>5. PICK e : e = d.event
    OBVIOUS
  <2>6. e.type = "TaskAdded" /\ e.trigger = Empty
    BY <2>3, <2>4, <2>5 DEF TaskAddedOf, Recorded
  <2>7. Apply(t, e, at) = ApplyAdded(t, e, at)
    BY <2>6 DEF Apply
  <2>8. ApplyAdded(t, e, at).trigger = Empty
    BY <2>6 DEF ApplyAdded, TaskStates
  <2> QED BY <1>5, <2>5, <2>7, <2>8
<1>7. CASE r.op = "status"
  <2>1. PICK v \in Triggers \cup {Empty} :
          c = [type |-> "SetStatus", status |-> LeftOut(r.status),
                  trigger |-> DeferringOn(r.status, v)]
    BY <1>1, <1>7 DEF CommandOf
  <2>2. c.type = "SetStatus" /\ c.status = LeftOut(r.status) /\ c.trigger = Absent
    BY <1>1, <1>7, <2>1 DEF DeferringOn, DefersTask
  <2>3. c.status # Defers
    BY <1>1, <1>3, <1>7, <2>2 DEF LeftOut, DefersTask
  <2>4. Moved(t, c) = Recorded(Resting(c.status))
    BY <1>3, <2>2, <2>3 DEF Moved
  <2>5. d = Recorded(Resting(c.status))
    BY <1>4, <1>5, <2>2, <2>4 DEF Decide, DecideSetStatus
  <2>6. PICK e : e = d.event
    OBVIOUS
  <2>7. e.type = "StatusChanged" /\ e.trigger = Empty
    BY <2>5, <2>6 DEF Resting, Recorded
  <2>8. Apply(t, e, at) = ApplyStatusChanged(t, e, at)
    BY <2>7 DEF Apply
  <2>9. ApplyStatusChanged(t, e, at).trigger = Empty
    BY <2>7 DEF ApplyStatusChanged, TaskStates
  <2> QED BY <1>5, <2>6, <2>8, <2>9
<1>8. CASE r.op = "text"
  <2>1. c.type = "EditText"
    BY <1>1, <1>8 DEF CommandOf
  <2>2. d = Recorded([type |-> "TextEdited", text |-> c.text])
    BY <1>4, <1>5, <2>1 DEF Decide, DecideEdit
  <2>3. PICK e : e = d.event
    OBVIOUS
  <2>4. e = [type |-> "TextEdited", text |-> c.text]
    BY <2>2, <2>3 DEF Recorded
  <2>5. Apply(t, e, at) = [t EXCEPT !.text = c.text]
    BY <2>4 DEF Apply
  <2>6. [t EXCEPT !.text = c.text].trigger = Empty
    BY DEF TaskStates
  <2> QED BY <1>5, <2>3, <2>5, <2>6
<1>9. CASE r.op = "remove"
  <2>1. c.type = "RemoveTask"
    BY <1>1, <1>9 DEF CommandOf
  <2>2. d = Recorded([type |-> "TaskRemoved", reason |-> c.reason])
    BY <1>4, <1>5, <2>1 DEF Decide, DecideRemove
  <2>3. PICK e : e = d.event
    OBVIOUS
  <2>4. e = [type |-> "TaskRemoved", reason |-> c.reason]
    BY <2>2, <2>3 DEF Recorded
  <2>5. Apply(t, e, at) = [t EXCEPT !.removed = TRUE]
    BY <2>4 DEF Apply
  <2>6. [t EXCEPT !.removed = TRUE].trigger = Empty
    BY DEF TaskStates
  <2> QED BY <1>5, <2>3, <2>5, <2>6
<1>10. CASE Retag(r)
  <2>1. c.type = "Retag"
    BY <1>1, <1>10 DEF CommandOf, Retag
  <2>2. PICK after : after = (t.tags \cup c.add) \ c.remove
    OBVIOUS
  <2>3. d = Recorded([type |-> "Retagged", tags |-> after])
    BY <1>4, <1>5, <2>1, <2>2 DEF Decide, DecideRetag
  <2>4. PICK e : e = d.event
    OBVIOUS
  <2>5. e = [type |-> "Retagged", tags |-> after]
    BY <2>3, <2>4 DEF Recorded
  <2>6. Apply(t, e, at) = [t EXCEPT !.tags = after]
    BY <2>5 DEF Apply
  <2>7. [t EXCEPT !.tags = after].trigger = Empty
    BY DEF TaskStates
  <2> QED BY <1>5, <2>4, <2>6, <2>7
<1> QED BY <1>2, <1>6, <1>7, <1>8, <1>9, <1>10 DEF Ops, Retag

------------------------------------------------------------------------------
(* What of a log is replayed, while it is written.                          *)

\* A log's lines before others are replayed before them, and as they were.
LEMMA ReplayGrows ==
  ASSUME NEW lines \in Seq(Lines), NEW w \in 0..Len(lines), NEW v \in w..Len(lines),
         Readable(SubSeq(lines, 1, v)),
         \A j \in (w + 1)..Len(lines), i \in 1..Len(lines) :
           i < j /\ {lines[i], lines[j]} \subseteq LogRecords => lines[i].ts <= lines[j].ts
  PROVE  /\ Readable(SubSeq(lines, 1, w))
         /\ Begins(ReplayOrder(SubSeq(lines, 1, w)), ReplayOrder(SubSeq(lines, 1, v)))
<1> DEFINE X == Lines
<1>0. lines \in Seq(X) /\ Len(lines) \in Nat /\ w \in Nat /\ v \in Nat
  OBVIOUS
<1> HIDE DEF X
<1>1. PICK a, b : a = SubSeq(lines, 1, w) /\ b = SubSeq(lines, 1, v)
  OBVIOUS
<1>2. /\ a \in Seq(X) /\ Len(a) = w /\ \A i \in 1..w : a[i] = lines[i]
      /\ b \in Seq(X) /\ Len(b) = v /\ \A i \in 1..v : b[i] = lines[i]
      /\ DOMAIN a = 1..w /\ DOMAIN b = 1..v
  BY <1>0, <1>1
<1>3. Readable(b)
  BY <1>1
<1>4. Readable(a)
  BY <1>2, <1>3 DEF Readable
<1>5. a \in Seq(Lines) /\ b \in Seq(Lines)
  BY <1>2 DEF X
<1>6. \A i \in 1..w : i \in Distinct(a) <=> i \in Distinct(b)
  BY <1>2 DEF Distinct, Parsed
<1>7. Distinct(a) \subseteq 1..w /\ Distinct(b) \subseteq 1..v
      /\ \A i \in Distinct(b) : b[i] \in LogRecords /\ b[i].ts \in Int
  BY <1>2, <1>3, <1>4, <1>5, ReplayAt
<1>8. ASSUME NEW i \in Distinct(a) PROVE ReplaysBefore(a, i) = ReplaysBefore(b, i)
  <2>1. i \in 1..w /\ i \in Distinct(b) /\ a[i] = b[i] /\ b[i] = lines[i]
    BY <1>2, <1>6, <1>7
  <2>2. ASSUME NEW j \in Distinct(b), j \notin 1..w
        PROVE  ~(b[j].ts < b[i].ts \/ (b[j].ts = b[i].ts /\ j < i))
    <3>1. j \in (w + 1)..Len(lines) /\ i < j /\ i \in 1..Len(lines)
      BY <1>0, <1>7, <2>1, <2>2
    <3>2. b[j] = lines[j]
      BY <1>2, <1>7, <2>2
    <3>3. {lines[i], lines[j]} \subseteq LogRecords
      BY <1>7, <2>1, <2>2, <3>2
    <3>4. lines[i].ts <= lines[j].ts
      BY <3>1, <3>3
    <3> QED BY <1>7, <2>1, <2>2, <3>1, <3>2, <3>4
  <2>3. \A j \in 1..w : a[j] = b[j]
    BY <1>0, <1>2
  <2>4. ReplaysBefore(b, i) \subseteq ReplaysBefore(a, i)
    BY <1>6, <2>1, <2>2, <2>3 DEF ReplaysBefore
  <2>5. ReplaysBefore(a, i) \subseteq ReplaysBefore(b, i)
    BY <1>6, <1>7, <2>1, <2>3 DEF ReplaysBefore
  <2> QED BY <2>4, <2>5
<1>9. PICK ra, rb : ra = ReplayOrder(a) /\ rb = ReplayOrder(b)
  OBVIOUS
<1>10. /\ Len(ra) \in Nat /\ Len(rb) \in Nat
       /\ \A n \in 1..Len(ra) : \E i \in Distinct(a) :
            Cardinality(ReplaysBefore(a, i)) = n - 1
       /\ \A i \in Distinct(a) :
            LET n == Cardinality(ReplaysBefore(a, i)) + 1 IN
            n \in 1..Len(ra) /\ ra[n] = a[i]
       /\ \A i \in Distinct(b) :
            LET n == Cardinality(ReplaysBefore(b, i)) + 1 IN
            n \in 1..Len(rb) /\ rb[n] = b[i]
  <2>1. ra \in Seq(LogRecords) /\ rb \in Seq(LogRecords)
    BY <1>3, <1>4, <1>5, <1>9, ReplayAt
  <2>2. Len(ra) \in Nat /\ Len(rb) \in Nat
    BY <2>1
  <2> QED BY <1>3, <1>4, <1>5, <1>9, <2>2, ReplayAt
<1>11. ASSUME NEW n \in 1..Len(ra) PROVE n \in 1..Len(rb) /\ ra[n] = rb[n]
  <2>1. PICK i \in Distinct(a) : Cardinality(ReplaysBefore(a, i)) = n - 1
    BY <1>10
  <2>2. PICK m : m = Cardinality(ReplaysBefore(a, i)) + 1
    OBVIOUS
  <2>3. m = n
    BY <2>1, <2>2
  <2>4. m \in 1..Len(ra) /\ ra[m] = a[i]
    BY <1>10, <2>2
  <2>5. i \in Distinct(b) /\ i \in 1..w
    BY <1>6, <1>7
  <2>6. m = Cardinality(ReplaysBefore(b, i)) + 1
    BY <1>8, <2>2
  <2>7. m \in 1..Len(rb) /\ rb[m] = b[i]
    BY <1>10, <2>5, <2>6
  <2>8. a[i] = b[i]
    BY <1>0, <1>2, <2>5
  <2> QED BY <2>3, <2>4, <2>7, <2>8
<1>12. Len(ra) <= Len(rb)
  <2>1. CASE Len(ra) = 0
    BY <1>10, <2>1
  <2>2. CASE Len(ra) # 0
    <3>1. Len(ra) \in 1..Len(ra)
      BY <1>10, <2>2
    <3>2. Len(ra) \in 1..Len(rb)
      BY <1>11, <3>1
    <3> QED BY <1>10, <3>2
  <2> QED BY <2>1, <2>2
<1>13. Begins(ra, rb)
  BY <1>11, <1>12 DEF Begins
<1> QED BY <1>1, <1>4, <1>9, <1>13

\* No record is replayed twice.
LEMMA ReplaysOnce ==
  ASSUME NEW log \in Seq(Lines), Readable(log)
  PROVE  \A m, n \in 1..Len(ReplayOrder(log)) :
           ReplayOrder(log)[m] = ReplayOrder(log)[n] => m = n
<1>1. PICK R : R = ReplayOrder(log)
  OBVIOUS
<1>2. ASSUME NEW n \in 1..Len(R)
      PROVE  \E i \in Distinct(log) : Cardinality(ReplaysBefore(log, i)) = n - 1 /\ R[n] = log[i]
  <2>1. PICK i \in Distinct(log) : Cardinality(ReplaysBefore(log, i)) = n - 1
    BY <1>1, ReplayAt
  <2>2. PICK m : m = Cardinality(ReplaysBefore(log, i)) + 1
    OBVIOUS
  <2>3. R[m] = log[i]
    BY <1>1, <2>2, ReplayAt
  <2>4. n \in Int
    OBVIOUS
  <2>5. m = n
    BY <2>1, <2>2, <2>4
  <2> QED BY <2>1, <2>3, <2>5
<1>3. \A i \in Distinct(log) : i \in Int
  BY ReplayAt
<1>4. \A i, j \in Distinct(log) : log[i] = log[j] => i = j
  BY <1>3 DEF Distinct, Parsed
<1>5. ASSUME NEW m \in 1..Len(R), NEW n \in 1..Len(R), R[m] = R[n] PROVE m = n
  <2>1. PICK i \in Distinct(log) : Cardinality(ReplaysBefore(log, i)) = m - 1 /\ R[m] = log[i]
    BY <1>2
  <2>2. PICK j \in Distinct(log) : Cardinality(ReplaysBefore(log, j)) = n - 1 /\ R[n] = log[j]
    BY <1>2
  <2>3. i = j
    BY <1>4, <1>5, <2>1, <2>2
  <2>4. m \in Int /\ n \in Int
    OBVIOUS
  <2> QED BY <2>1, <2>2, <2>3, <2>4
<1> QED BY <1>1, <1>5

\* What is ever replayed of a log: records, each once, and first what is now.
LEMMA FinalIs ==
  ASSUME LoggedInOrder, NEW first \in LogsAtFirst, NEW p \in Projects
  PROVE  LET l == first[p] IN
         /\ Final(l) \in Seq(LogRecords)
         /\ \A m, n \in 1..Len(Final(l)) : Final(l)[m] = Final(l)[n] => m = n
         /\ \A w \in l.written..Len(l.lines), v \in l.written..Len(l.lines) :
              l.lines # NoLog /\ w <= v /\ Readable(SubSeq(l.lines, 1, v)) =>
                /\ Readable(SubSeq(l.lines, 1, w))
                /\ Begins(ReplayOrder(SubSeq(l.lines, 1, w)), ReplayOrder(SubSeq(l.lines, 1, v)))
         /\ \A w \in l.written..Len(l.lines) :
              l.lines # NoLog /\ Readable(SubSeq(l.lines, 1, w)) =>
                Begins(ReplayOrder(SubSeq(l.lines, 1, w)), Final(l))
<1>1. PICK l : l = first[p]
  OBVIOUS
<1>2. CASE l.lines = NoLog
  <2>1. Final(l) = <<>>
    BY <1>2 DEF Final
  <2>2. <<>> \in Seq(LogRecords) /\ 1..Len(<<>>) = {}
    OBVIOUS
  <2> QED BY <1>1, <1>2, <2>1, <2>2
<1>3. CASE l.lines # NoLog
  <2> DEFINE lines == l.lines
             N == Len(lines)
             S == {n \in 1..N : Readable(SubSeq(lines, 1, n))}
             To(n) == /\ Readable(SubSeq(lines, 1, n))
                      /\ \A m \in (n + 1)..Len(lines) : ~Readable(SubSeq(lines, 1, m))
             to == ReadableTo(lines)
  <2>1. lines \in Seq(Lines) /\ l.written \in Nat /\ l.written <= N
    BY <1>1, <1>3, LogsAssumption DEF Lines
  <2>2. N \in Nat
    BY <2>1
  <2>3. Readable(SubSeq(lines, 1, 0))
    BY <2>1 DEF Readable
  <2>4. \E n \in 0..N : To(n)
    <3>1. CASE S = {}
      <4>1. \A m \in (0 + 1)..N : ~Readable(SubSeq(lines, 1, m))
        BY <3>1
      <4>2. To(0)
        BY <2>3, <4>1
      <4> HIDE DEF To
      <4> QED BY <2>2, <4>2
    <3>2. CASE S # {}
      <4>1. PICK n \in 1..N : IsLast(n, S)
        <5>1. S \in SUBSET (1..N)
          OBVIOUS
        <5> HIDE DEF S
        <5> QED BY <2>2, <3>2, <5>1, LastExists
      <4>2. Readable(SubSeq(lines, 1, n)) /\ n \in 1..N
        BY <4>1 DEF IsLast
      <4>3. ASSUME NEW m \in (n + 1)..N, Readable(SubSeq(lines, 1, m)) PROVE FALSE
        <5>1. m \in S
          BY <2>2, <4>2, <4>3
        <5>2. m <= n
          BY <4>1, <5>1 DEF IsLast
        <5> QED BY <4>2, <4>3, <5>2
      <4>4. To(n)
        BY <4>2, <4>3
      <4> HIDE DEF To
      <4> QED BY <2>2, <4>2, <4>4
    <3> QED BY <3>1, <3>2
  <2>5. to \in 0..N /\ To(to)
    <3>1. to = CHOOSE n \in 0..N : To(n)
      BY DEF ReadableTo
    <3> HIDE DEF to, To
    <3> QED BY <2>4, <3>1
  <2>6. Final(l) = ReplayOrder(SubSeq(lines, 1, to))
    BY <1>3 DEF Final
  <2>7. SubSeq(lines, 1, to) \in Seq(Lines) /\ Readable(SubSeq(lines, 1, to))
    <3> DEFINE X == Lines
    <3>1. lines \in Seq(X)
      BY <2>1
    <3>2. to \in 0..Len(lines)
      BY <2>5
    <3> HIDE DEF X, to, lines
    <3>3. SubSeq(lines, 1, to) \in Seq(X)
      BY <3>1, <3>2
    <3> QED BY <2>5, <3>3 DEF X
  <2>8. \A m, n \in 1..Len(Final(l)) : Final(l)[m] = Final(l)[n] => m = n
    BY <2>6, <2>7, ReplaysOnce
  <2>9. Final(l) \in Seq(LogRecords)
    BY <2>6, <2>7, ReplayAt
  <2>10. ASSUME NEW w \in l.written..N, NEW v \in w..N, Readable(SubSeq(lines, 1, v))
         PROVE  /\ Readable(SubSeq(lines, 1, w))
                /\ Begins(ReplayOrder(SubSeq(lines, 1, w)), ReplayOrder(SubSeq(lines, 1, v)))
    <3>1. w \in 0..N /\ v \in w..Len(lines)
      BY <2>1, <2>2
    <3>2. \A j \in (w + 1)..N, i \in 1..N :
           i < j /\ {lines[i], lines[j]} \subseteq LogRecords => lines[i].ts <= lines[j].ts
      <4>1. \A j \in (l.written + 1)..N, i \in 1..N :
             i < j /\ {lines[i], lines[j]} \subseteq LogRecords => lines[i].ts <= lines[j].ts
        BY <1>1 DEF LoggedInOrder
      <4>2. \A j \in (w + 1)..N : j \in (l.written + 1)..N
        BY <2>1, <2>2
      <4> HIDE DEF lines, N
      <4> QED BY <4>1, <4>2
    <3> HIDE DEF lines, N
    <3> QED BY <2>1, <2>10, <3>1, <3>2, ReplayGrows DEF N
  <2>11. ASSUME NEW w \in l.written..N, Readable(SubSeq(lines, 1, w))
         PROVE  Begins(ReplayOrder(SubSeq(lines, 1, w)), Final(l))
    <3>1. to \in w..N
      <4>1. w \in 0..N
        BY <2>1, <2>2
      <4>2. w \notin (to + 1)..N
        BY <2>5, <2>11
      <4> HIDE DEF to, N
      <4> QED BY <2>2, <2>5, <4>1, <4>2
    <3> HIDE DEF to, lines, N
    <3> QED BY <2>6, <2>7, <2>10, <3>1
  <2>12. ASSUME NEW w \in l.written..N, NEW v \in l.written..N, w <= v, Readable(SubSeq(lines, 1, v))
         PROVE  /\ Readable(SubSeq(lines, 1, w))
                /\ Begins(ReplayOrder(SubSeq(lines, 1, w)), ReplayOrder(SubSeq(lines, 1, v)))
    <3>1. v \in w..N
      BY <2>1, <2>2, <2>12
    <3> HIDE DEF lines, N
    <3> QED BY <2>10, <2>12, <3>1
  <2> HIDE DEF to
  <2> QED BY <1>1, <2>8, <2>9, <2>11, <2>12
<1> QED BY <1>2, <1>3

------------------------------------------------------------------------------
(* A stream, by the records of its log.                                     *)

IsReplay(R) ==
  R \in Seq(LogRecords) /\ \A m, n \in 1..Len(R) : R[m] = R[n] => m = n

LEMMA PageIn ==
  ASSUME NEW s, TypedStream(s), NEW page, NEW s2, s2 = Append(s, page)
  PROVE  /\ \A r : HasIn(s2, r) <=> HasIn(s, r) \/ page.id = IdOf(r)
         /\ Unshared(s2) <=> Unshared(s) /\ page.id # User
         /\ \A i \in DOMAIN s2 : s2[i] = page \/ (i \in DOMAIN s /\ s2[i] = s[i])
         /\ Folded(s2) = Apply(Folded(s), page.event, page.at)
<1> DEFINE S == TypedPages \cup {page}
<1>1. s \in Seq(S) /\ page \in S
  <2>1. s \in Seq(TypedPages)
    BY DEF TypedStream
  <2> HIDE DEF TypedPages
  <2>2. \A i \in 1..Len(s) : s[i] \in S
    BY <2>1
  <2>3. Len(s) \in Nat /\ DOMAIN s = 1..Len(s) /\ s = [i \in 1..Len(s) |-> s[i]]
    BY <2>1
  <2> HIDE DEF S
  <2>4. s \in Seq(S)
    BY <2>2, <2>3, IsASeq
  <2> QED BY <2>4 DEF S
<1> HIDE DEF S
<1>2. /\ Len(s) \in Nat /\ DOMAIN s = 1..Len(s) /\ DOMAIN s2 = 1..(Len(s) + 1)
      /\ \A i \in 1..Len(s) : s2[i] = s[i]
      /\ s2[Len(s) + 1] = page
  BY <1>1, AppendProperties
<1>3. Len(s) + 1 \in DOMAIN s2 /\ \A i \in DOMAIN s : i \in DOMAIN s2
  BY <1>2
<1>4. \A i \in DOMAIN s2 : i \in DOMAIN s \/ i = Len(s) + 1
  BY <1>2
<1>5. Folded(s2) = Apply(Folded(s), page.event, page.at)
  BY <1>1, FoldedAppend
<1>6. ASSUME NEW r PROVE HasIn(s2, r) <=> HasIn(s, r) \/ page.id = IdOf(r)
  <2>1. ASSUME HasIn(s2, r) PROVE HasIn(s, r) \/ page.id = IdOf(r)
    BY <1>2, <1>4, <2>1 DEF HasIn
  <2>2. ASSUME HasIn(s, r) PROVE HasIn(s2, r)
    BY <1>2, <1>3, <2>2 DEF HasIn
  <2>3. ASSUME page.id = IdOf(r) PROVE HasIn(s2, r)
    BY <1>2, <1>3, <2>3 DEF HasIn
  <2> QED BY <2>1, <2>2, <2>3
<1>7. Unshared(s2) <=> Unshared(s) /\ page.id # User
  BY <1>2, <1>3, <1>4 DEF Unshared
<1>8. \A i \in DOMAIN s2 : s2[i] = page \/ (i \in DOMAIN s /\ s2[i] = s[i])
  BY <1>2, <1>4
<1> QED BY <1>5, <1>6, <1>7, <1>8

LEMMA IdsApart ==
  /\ \A r, q : IdOf(r) = IdOf(q) => r = q
  /\ \A r : IdOf(r) # User
<1>1. \A r, q : IdOf(r) = IdOf(q) => r = q
  <2> SUFFICES ASSUME NEW r, NEW q, <<r>> = <<q>> PROVE r = q
    BY DEF IdOf
  <2>1. <<r>>[1] = r /\ <<q>>[1] = q
    OBVIOUS
  <2> QED BY <2>1
<1>2. \A r : IdOf(r) # User
  BY DEF IdOf, User
<1> QED BY <1>1, <1>2

\* An import past record n+1: not sent, held already, or a log of a task that
\* cannot be taken whole.
LEMMA CaughtOn ==
  ASSUME NEW R, IsReplay(R), NEW n \in 0..Len(R), n + 1 \in 1..Len(R), NEW h, NEW s,
         InTurn(s, R, h), Caught(s, R, h, n),
         Unshared(s) => ~Clean(R, h, n + 1) \/ ~Sends(R, h, n + 1) \/ HasIn(s, R[n + 1])
  PROVE  Caught(s, R, h, n + 1)
<1> SUFFICES ASSUME Unshared(s)
             PROVE  /\ \A m \in 1..(n + 1) : Clean(R, h, m) /\ Sends(R, h, m) => HasIn(s, R[m])
                    /\ Clean(R, h, n + 1) => Ahead(s, R, n + 1) \/ TaskSays(Folded(s), R, h, n + 1)
  BY DEF Caught
<1>1. /\ \A m \in 1..n : Clean(R, h, m) /\ Sends(R, h, m) => HasIn(s, R[m])
      /\ Clean(R, h, n) => Ahead(s, R, n) \/ TaskSays(Folded(s), R, h, n)
  BY DEF Caught
<1>2. \A m \in 1..(n + 1) : m \in 1..n \/ m = n + 1
  OBVIOUS
<1>3. \A m \in 1..(n + 1) : Clean(R, h, m) /\ Sends(R, h, m) => HasIn(s, R[m])
  BY <1>1, <1>2
<1>4. ASSUME Clean(R, h, n + 1)
      PROVE  Ahead(s, R, n + 1) \/ TaskSays(Folded(s), R, h, n + 1)
  <2>1. CASE HasIn(s, R[n + 1])
    BY <1>4, <2>1 DEF InTurn
  <2>2. CASE ~HasIn(s, R[n + 1])
    <3>1. ~Sends(R, h, n + 1)
      BY <1>4, <2>2
    <3>2. Clean(R, h, n)
      BY <1>4 DEF Clean
    <3>3. CASE Ahead(s, R, n)
      <4>1. PICK m \in (n + 1)..Len(R) : HasIn(s, R[m])
        BY <3>3 DEF Ahead
      <4>2. m # n + 1
        BY <2>2, <4>1
      <4>3. m \in ((n + 1) + 1)..Len(R)
        BY <4>2
      <4> QED BY <4>1, <4>3 DEF Ahead
    <3>4. CASE TaskSays(Folded(s), R, h, n)
      <4>1. R \in Seq(LogRecords)
        BY DEF IsReplay
      <4>2. TaskSays(Folded(s), R, h, n + 1)
        BY <3>1, <3>4, <4>1, TaskSaysStays
      <4> QED BY <4>2
    <3> QED BY <1>1, <3>2, <3>3, <3>4
  <2> QED BY <2>1, <2>2
<1> QED BY <1>3, <1>4

\* A page appended is no news to one that is past its record, or not there yet.
LEMMA CaughtAppend ==
  ASSUME NEW R, IsReplay(R), NEW n \in 0..Len(R), NEW a \in 1..Len(R), NEW h, NEW s,
         TypedStream(s), NEW page, page.id = IdOf(R[a]), NEW s2, s2 = Append(s, page),
         ~HasIn(s, R[a]), Sends(R, h, a), Caught(s, R, h, n)
  PROVE  Caught(s2, R, h, n)
<1> SUFFICES ASSUME Unshared(s2)
             PROVE  /\ \A m \in 1..n : Clean(R, h, m) /\ Sends(R, h, m) => HasIn(s2, R[m])
                    /\ Clean(R, h, n) => Ahead(s2, R, n) \/ TaskSays(Folded(s2), R, h, n)
  BY DEF Caught
<1>1. Unshared(s) /\ \A r : HasIn(s2, r) <=> HasIn(s, r) \/ page.id = IdOf(r)
  BY PageIn
<1>2. /\ \A m \in 1..n : Clean(R, h, m) /\ Sends(R, h, m) => HasIn(s, R[m])
      /\ Clean(R, h, n) => Ahead(s, R, n) \/ TaskSays(Folded(s), R, h, n)
  BY <1>1 DEF Caught
<1>3. ASSUME Clean(R, h, n) PROVE Ahead(s2, R, n)
  <2>1. a \notin 1..n
    <3>1. a \in 1..n => Clean(R, h, a)
      BY <1>3 DEF Clean
    <3> QED BY <1>2, <3>1
  <2>2. a \in (n + 1)..Len(R)
    BY <2>1
  <2> QED BY <1>1, <2>2 DEF Ahead
<1> QED BY <1>1, <1>2, <1>3

\* A record's command, where the log has come to it: decided as the log goes on.
LEMMA DecidedHere ==
  ASSUME NEW R, IsReplay(R), NEW n \in 0..Len(R), n + 1 \in 1..Len(R), NEW h \in Harps, NEW s,
         TypedStream(s), InTurn(s, R, h), Caught(s, R, h, n), ~HasIn(s, R[n + 1]),
         Unshared(s), Clean(R, h, n + 1), Sends(R, h, n + 1), NEW c, CommandOf(R, h, n + 1, c)
  PROVE  \E e : /\ Decide(Folded(s), s # <<>>, c) = Recorded(e) /\ Records(Recorded(e))
                /\ TaskSays(Apply(Folded(s), e, R[n + 1].ts), R, h, n + 1)
<1>1. Clean(R, h, n)
  BY DEF Clean
<1>2. ~Ahead(s, R, n)
  <2> SUFFICES ASSUME NEW m \in (n + 1)..Len(R), HasIn(s, R[m]) PROVE FALSE
    BY DEF Ahead
  <2>1. m # n + 1
    OBVIOUS
  <2>2. n + 1 \in 1..(m - 1) /\ m \in 1..Len(R)
    BY <2>1
  <2>3. HasIn(s, R[n + 1])
    BY <2>2 DEF InTurn
  <2> QED BY <2>3
<1>3. TaskSays(Folded(s), R, h, n)
  BY <1>1, <1>2 DEF Caught
<1>4. Folded(s) \in TaskStates
  <2>1. CASE s = <<>>
    <3>1. NoTask \in TaskStates
      BY DEF NoTask, TaskStates, Never
    <3>2. Folded(s) = NoTask
      BY <2>1, NothingFolded
    <3> QED BY <3>1, <3>2
  <2>2. CASE s # <<>>
    BY <2>2 DEF TypedStream, WholeTask
  <2> QED BY <2>1, <2>2
<1>5. s # <<>> => Added(R, h, n)
  <2> SUFFICES ASSUME s # <<>>, ~Added(R, h, n) PROVE FALSE
    OBVIOUS
  <2>1. Folded(s) = NoTask
    BY <1>3 DEF TaskSays
  <2>2. Folded(s).harp_id # Empty
    BY DEF TypedStream, WholeTask
  <2> QED BY <2>1, <2>2 DEF NoTask
<1>6. R \in Seq(LogRecords)
  BY DEF IsReplay
<1>7. PICK taken \in BOOLEAN : taken = (s # <<>>)
  OBVIOUS
<1>8. PICK t : t = Folded(s)
  OBVIOUS
<1>9. /\ t \in TaskStates /\ TaskSays(t, R, h, n) /\ (taken => Added(R, h, n))
  BY <1>3, <1>4, <1>5, <1>7, <1>8
<1>10. PICK e : /\ Decide(t, taken, c) = Recorded(e) /\ Records(Recorded(e))
                /\ Becomes(t, Apply(t, e, R[n + 1].ts), R, h, n + 1)
  BY <1>6, <1>9, DecidedAsLogged
<1>11. Takes(R, h, n + 1)
  BY DEF Sends
<1>12. PICK u : u = Apply(t, e, R[n + 1].ts)
  OBVIOUS
<1>13. TaskSays(u, R, h, n + 1)
  BY <1>6, <1>9, <1>10, <1>11, <1>12, TaskSaysOn
<1> QED BY <1>7, <1>8, <1>10, <1>12, <1>13

\* An import at a log's first record.
LEMMA CaughtFirst ==
  ASSUME NEW R, NEW h, NEW s, TypedStream(s), FromRecords(s, R, h)
  PROVE  Caught(s, R, h, 0)
<1>1. \A m \in 1..0 : FALSE
  OBVIOUS
<1> SUFFICES ASSUME Unshared(s) PROVE Ahead(s, R, 0) \/ TaskSays(Folded(s), R, h, 0)
  BY <1>1 DEF Caught
<1>2. CASE s = <<>>
  <2>1. ~Added(R, h, 0)
    BY <1>1 DEF Added
  <2>2. Folded(s) = NoTask
    BY <1>2, NothingFolded
  <2> QED BY <2>1, <2>2 DEF TaskSays
<1>3. CASE s # <<>>
  <2>1. s \in Seq(TypedPages)
    BY DEF TypedStream
  <2>2. 1 \in DOMAIN s
    <3> HIDE DEF TypedPages
    <3> QED BY <1>3, <2>1
  <2>3. PICK n \in 1..Len(R) : s[1].id = IdOf(R[n])
    BY <2>2 DEF FromRecords, Unshared
  <2>4. n \in (0 + 1)..Len(R)
    OBVIOUS
  <2> QED BY <2>2, <2>3, <2>4 DEF Ahead, HasIn
<1> QED BY <1>2, <1>3

LEMMA FoldSaysFirst == ASSUME NEW R, NEW h PROVE FoldSays(NewFold, R, h, 0)
<1>1. ~Added(R, h, 0)
  BY DEF Added
<1>2. NewFold.issued = {} /\ NewFold.live = {}
  BY DEF NewFold
<1> QED BY <1>1, <1>2 DEF FoldSays

\* A record's page, appended where the log has come to it.
LEMMA InTurnAppend ==
  ASSUME NEW R, IsReplay(R), NEW n \in 0..Len(R), n + 1 \in 1..Len(R), NEW h, NEW s,
         TypedStream(s), InTurn(s, R, h), Caught(s, R, h, n), ~HasIn(s, R[n + 1]),
         Sends(R, h, n + 1), NEW page, page.id = IdOf(R[n + 1]), NEW s2, s2 = Append(s, page),
         Unshared(s) /\ Clean(R, h, n + 1) => TaskSays(Folded(s2), R, h, n + 1)
  PROVE  InTurn(s2, R, h)
<1> SUFFICES ASSUME Unshared(s2), NEW m \in 1..Len(R), HasIn(s2, R[m])
             PROVE  /\ Clean(R, h, m) => Sends(R, h, m)
                    /\ \A k \in 1..(m - 1) : Clean(R, h, k) /\ Sends(R, h, k) => HasIn(s2, R[k])
                    /\ Clean(R, h, m) /\ ~Ahead(s2, R, m) => TaskSays(Folded(s2), R, h, m)
  BY DEF InTurn
<1>1. Unshared(s) /\ \A r : HasIn(s2, r) <=> HasIn(s, r) \/ page.id = IdOf(r)
  BY PageIn
<1>2. CASE m = n + 1
  <2>1. \A k \in 1..(m - 1) : k \in 1..n
    BY <1>2
  <2>2. \A k \in 1..n : Clean(R, h, k) /\ Sends(R, h, k) => HasIn(s, R[k])
    BY <1>1 DEF Caught
  <2> QED BY <1>1, <1>2, <2>1, <2>2
<1>3. CASE m # n + 1
  <2>1. HasIn(s, R[m])
    <3>1. page.id # IdOf(R[m])
      BY <1>3, IdsApart DEF IsReplay
    <3> QED BY <1>1, <3>1
  <2>2. /\ Clean(R, h, m) => Sends(R, h, m)
        /\ \A k \in 1..(m - 1) : Clean(R, h, k) /\ Sends(R, h, k) => HasIn(s, R[k])
    BY <1>1, <2>1 DEF InTurn
  <2>3. ~(Clean(R, h, m) /\ ~Ahead(s2, R, m))
    <3> SUFFICES ASSUME Clean(R, h, m), ~Ahead(s2, R, m) PROVE FALSE
      OBVIOUS
    <3>1. CASE m < n + 1
      <4>1. n + 1 \in (m + 1)..Len(R)
        BY <3>1
      <4> QED BY <1>1, <4>1 DEF Ahead
    <3>2. CASE n + 1 < m
      <4>1. n + 1 \in 1..(m - 1)
        BY <3>2
      <4>2. Clean(R, h, n + 1)
        BY <3>2 DEF Clean
      <4> QED BY <2>2, <4>1, <4>2
    <3>3. m \in Int /\ n \in Int
      OBVIOUS
    <3> QED BY <1>3, <3>1, <3>2, <3>3
  <2> QED BY <1>1, <2>2, <2>3
<1> QED BY <1>2, <1>3

LEMMA KeptByRecord ==
  ASSUME NEW R, IsReplay(R), NEW n \in 0..Len(R), n + 1 \in 1..Len(R), NEW h \in Harps,
         R[n + 1].task = h, NEW s, TypedStream(s), StreamKept(s, R, h), Caught(s, R, h, n),
         ~HasIn(s, R[n + 1]), Sends(R, h, n + 1), NEW c, CommandOf(R, h, n + 1, c),
         NEW d, d = Decide(Folded(s), s # <<>>, c), Records(d),
         NEW page, page.event = d.event, page.id = IdOf(R[n + 1]), page.at = R[n + 1].ts,
         NEW s2, s2 = Append(s, page)
  PROVE  StreamKept(s2, R, h)
<1>1. /\ \A r : HasIn(s2, r) <=> HasIn(s, r) \/ page.id = IdOf(r)
      /\ Unshared(s2) <=> Unshared(s) /\ page.id # User
      /\ \A i \in DOMAIN s2 : s2[i] = page \/ (i \in DOMAIN s /\ s2[i] = s[i])
      /\ Folded(s2) = Apply(Folded(s), page.event, page.at)
  <2>0. TypedStream(s) /\ s2 = Append(s, page)
    OBVIOUS
  <2>1. \A r : HasIn(s2, r) <=> HasIn(s, r) \/ page.id = IdOf(r)
    BY ONLY <2>0, PageIn
  <2>2. Unshared(s2) <=> Unshared(s) /\ page.id # User
    BY PageIn
  <2>3. \A i \in DOMAIN s2 : s2[i] = page \/ (i \in DOMAIN s /\ s2[i] = s[i])
    BY PageIn
  <2>4. Folded(s2) = Apply(Folded(s), page.event, page.at)
    BY ONLY <2>0, PageIn
  <2> QED BY <2>1, <2>2, <2>3, <2>4
<1>2. /\ FromRecords(s, R, h) /\ InTurn(s, R, h) /\ Fit(s) /\ NeverDeferred(s, R, h)
  BY DEF StreamKept
<1>3. FromRecords(s2, R, h)
  <2> SUFFICES ASSUME NEW i \in DOMAIN s2
               PROVE  s2[i].id = User \/ \E m \in 1..Len(R) : R[m].task = h /\ s2[i].id = IdOf(R[m])
    BY DEF FromRecords
  <2>1. CASE s2[i] = page
    BY <2>1
  <2>2. CASE i \in DOMAIN s /\ s2[i] = s[i]
    BY <1>2, <2>2 DEF FromRecords
  <2> QED BY <1>1, <2>1, <2>2
<1>4. InTurn(s2, R, h)
  <2>1. ASSUME Unshared(s), Clean(R, h, n + 1) PROVE TaskSays(Folded(s2), R, h, n + 1)
    <3>1. PICK e : /\ Decide(Folded(s), s # <<>>, c) = Recorded(e)
                   /\ TaskSays(Apply(Folded(s), e, R[n + 1].ts), R, h, n + 1)
      BY <1>2, <2>1, DecidedHere
    <3>2. d.event = e
      BY <3>1 DEF Recorded
    <3> QED BY <1>1, <3>1, <3>2
  <2> QED BY <1>2, <2>1, InTurnAppend
<1>5. PICK t : t = Folded(s)
  OBVIOUS
<1>6. PICK taken \in BOOLEAN : taken = (s # <<>>)
  OBVIOUS
<1>7. t \in TaskStates
  <2>1. CASE s = <<>>
    <3>1. NoTask \in TaskStates
      BY DEF NoTask, TaskStates, Never
    <3>2. Folded(s) = NoTask
      BY <2>1, NothingFolded
    <3> QED BY <1>5, <3>1, <3>2
  <2>2. CASE s # <<>>
    BY <1>5, <2>2 DEF TypedStream, WholeTask
  <2> QED BY <2>1, <2>2
<1>8. R \in Seq(LogRecords) /\ Takes(R, h, n + 1) /\ d = Decide(t, taken, c)
  BY <1>5, <1>6 DEF IsReplay, Sends
<1>9. ~(\/ Unfit(R[n + 1])
        \/ (DefersTask(R[n + 1]) /\ ~TriggeredAt(R, h, n + 1) /\ t.trigger = Empty))
  <2> SUFFICES ASSUME \/ Unfit(R[n + 1])
                      \/ (DefersTask(R[n + 1]) /\ ~TriggeredAt(R, h, n + 1) /\ t.trigger = Empty)
               PROVE  FALSE
    OBVIOUS
  <2>1. Declined(d) \/ d = Refused("TaskExists")
    BY <1>7, <1>8, UnfitRefused
  <2>2. ~Records(Refused("TaskExists"))
    BY DEF Records, Refused, NoEvent
  <2> QED BY <2>1, <2>2 DEF Declined
<1>10. Fit(s2)
  <2> SUFFICES ASSUME NEW i \in DOMAIN s2, NEW r \in LogRecords, s2[i].id = IdOf(r) PROVE ~Unfit(r)
    BY DEF Fit
  <2>1. CASE s2[i] = page
    <3>1. r = R[n + 1]
      BY <2>1, IdsApart
    <3> QED BY <1>9, <3>1
  <2>2. CASE i \in DOMAIN s /\ s2[i] = s[i]
    BY <1>2, <2>2 DEF Fit
  <2> QED BY <1>1, <2>1, <2>2
<1>11. NeverDeferred(s2, R, h)
  <2> SUFFICES ASSUME Unshared(s2), NeverTriggered(R, h)
               PROVE  /\ Folded(s2).trigger = Empty
                      /\ \A m \in 1..Len(R) : DefersTask(R[m]) /\ Takes(R, h, m) => ~HasIn(s2, R[m])
    BY DEF NeverDeferred
  <2>1. /\ t.trigger = Empty
        /\ \A m \in 1..Len(R) : DefersTask(R[m]) /\ Takes(R, h, m) => ~HasIn(s, R[m])
    BY <1>1, <1>2, <1>5 DEF NeverDeferred
  <2>2. ~DefersTask(R[n + 1])
    BY <1>8, <1>9, <2>1 DEF NeverTriggered
  <2>3. PICK at : at = page.at
    OBVIOUS
  <2>4. Apply(t, d.event, at).trigger = Empty
    <3>1. /\ R \in Seq(LogRecords) /\ n \in 0..Len(R) /\ n + 1 \in 1..Len(R)
          /\ h \in Harps /\ t \in TaskStates /\ taken \in BOOLEAN
          /\ CommandOf(R, h, n + 1, c) /\ ~DefersTask(R[n + 1]) /\ t.trigger = Empty
      BY <1>7, <1>8, <2>1, <2>2
    <3>2. Records(Decide(t, taken, c)) /\ d.event = Decide(t, taken, c).event
      BY <1>8
    <3>3. Apply(t, Decide(t, taken, c).event, at).trigger = Empty
      BY ONLY <3>1, <3>2, StaysUntriggered
    <3> QED BY <3>2, <3>3
  <2>5. \A m \in 1..Len(R) : DefersTask(R[m]) /\ Takes(R, h, m) => ~HasIn(s2, R[m])
    BY <1>1, <2>1, <2>2, IdsApart
  <2> QED BY <1>1, <1>5, <2>3, <2>4, <2>5
<1> QED BY <1>3, <1>4, <1>10, <1>11 DEF StreamKept

LEMMA KeptByUser ==
  ASSUME NEW R, NEW h, NEW s, TypedStream(s), StreamKept(s, R, h),
         NEW page, page.id = User, NEW s2, s2 = Append(s, page)
  PROVE  StreamKept(s2, R, h)
<1>1. /\ ~Unshared(s2)
      /\ \A i \in DOMAIN s2 : s2[i] = page \/ (i \in DOMAIN s /\ s2[i] = s[i])
  <2>1. ~Unshared(s2)
    BY PageIn
  <2>2. \A i \in DOMAIN s2 : s2[i] = page \/ (i \in DOMAIN s /\ s2[i] = s[i])
    BY PageIn
  <2> QED BY <2>1, <2>2
<1>2. FromRecords(s, R, h) /\ Fit(s)
  BY DEF StreamKept
<1>3. FromRecords(s2, R, h)
  BY <1>1, <1>2 DEF FromRecords
<1>4. Fit(s2)
  <2> SUFFICES ASSUME NEW i \in DOMAIN s2, NEW r \in LogRecords, s2[i].id = IdOf(r) PROVE ~Unfit(r)
    BY DEF Fit
  <2>1. s2[i] # page
    BY IdsApart
  <2> QED BY <1>1, <1>2, <2>1 DEF Fit
<1> QED BY <1>1, <1>3, <1>4 DEF StreamKept, InTurn, NeverDeferred

\* A stream with a page more: a user's, or of a record the log's task takes.
Continues(s, s2, R, h) ==
  \/ s2 = s
  \/ \E page :
       /\ s2 = Append(s, page)
       /\ \/ page.id = User
          \/ \E a \in 1..Len(R) :
               page.id = IdOf(R[a]) /\ ~HasIn(s, R[a]) /\ Sends(R, h, a)

LEMMA ContinuesKnown ==
  ASSUME NEW R, IsReplay(R), NEW h, NEW s, TypedStream(s), NEW s2, Continues(s, s2, R, h)
  PROVE  /\ Unshared(s2) => Unshared(s)
         /\ \A n \in 0..Len(R) : \A report : Knows(report, s, R, h, n) => Knows(report, s2, R, h, n)
<1>1. CASE s2 = s
  BY <1>1
<1>2. CASE s2 # s
  <2>1. PICK page :
          /\ s2 = Append(s, page)
          /\ \/ page.id = User
             \/ \E a \in 1..Len(R) :
                  page.id = IdOf(R[a]) /\ ~HasIn(s, R[a]) /\ Sends(R, h, a)
    BY <1>2 DEF Continues
  <2>2. Unshared(s2) <=> Unshared(s) /\ page.id # User
    BY <2>1, PageIn
  <2>3. ASSUME NEW n \in 0..Len(R), Caught(s, R, h, n) PROVE Caught(s2, R, h, n)
    <3>1. CASE page.id = User
      BY <2>2, <3>1 DEF Caught
    <3>2. CASE page.id # User
      <4>1. PICK a \in 1..Len(R) : page.id = IdOf(R[a]) /\ ~HasIn(s, R[a]) /\ Sends(R, h, a)
        BY <2>1, <3>2
      <4> QED BY <2>1, <2>3, <4>1, CaughtAppend
    <3> QED BY <3>1, <3>2
  <2>4. \A n, report : Told(report, s, R, h, n) => Told(report, s2, R, h, n)
    BY <2>2 DEF Told
  <2> QED BY <2>2, <2>3, <2>4 DEF Knows
<1> QED BY <1>1, <1>2

\* What is said to be left out stays said.
LEMMA ToldMore ==
  ASSUME NEW report, NEW more, report.lost \subseteq more.lost, NEW s, NEW R, NEW h, NEW n,
         Told(report, s, R, h, n)
  PROVE  Told(more, s, R, h, n)
<1>1. LeftOutOf(report, h) \subseteq LeftOutOf(more, h)
  BY DEF LeftOutOf
<1> QED BY <1>1 DEF Told

LEMMA ToldOn ==
  ASSUME NEW report, NEW s, NEW R, NEW h, NEW n \in Nat, Told(report, s, R, h, n),
         Takes(R, h, n + 1)
           /\ (\/ Unfit(R[n + 1])
               \/ Unshared(s) /\ NeverTriggered(R, h) /\ DefersTask(R[n + 1]))
           => LeftOutOf(report, h) # {}
  PROVE  Told(report, s, R, h, n + 1)
<1>1. \A m \in 1..(n + 1) : m \in 1..n \/ m = n + 1
  OBVIOUS
<1> QED BY <1>1 DEF Told

\* Past a record: one the stream holds, one of another task, one passed over.
LEMMA KnowsHeld ==
  ASSUME NEW R, IsReplay(R), NEW n \in 0..Len(R), n + 1 \in 1..Len(R), NEW h, NEW s,
         StreamKept(s, R, h), HasIn(s, R[n + 1]), NEW report, Knows(report, s, R, h, n),
         NEW more, report.lost \subseteq more.lost
  PROVE  Knows(more, s, R, h, n + 1)
<1>1. InTurn(s, R, h) /\ Fit(s) /\ NeverDeferred(s, R, h) /\ R[n + 1] \in LogRecords
  BY DEF StreamKept, IsReplay
<1>2. Caught(s, R, h, n + 1)
  BY <1>1, CaughtOn DEF Knows
<1>3. ~Unfit(R[n + 1])
  BY <1>1 DEF Fit, HasIn
<1>4. Unshared(s) /\ NeverTriggered(R, h) /\ DefersTask(R[n + 1]) => ~Takes(R, h, n + 1)
  BY <1>1 DEF NeverDeferred
<1>5. Told(more, s, R, h, n)
  BY ToldMore DEF Knows
<1>6. Told(more, s, R, h, n + 1)
  BY <1>3, <1>4, <1>5, ToldOn
<1> QED BY <1>2, <1>6 DEF Knows

LEMMA KnowsOther ==
  ASSUME NEW R, IsReplay(R), NEW n \in 0..Len(R), n + 1 \in 1..Len(R), NEW h, NEW s,
         StreamKept(s, R, h), R[n + 1].task # h, NEW report, Knows(report, s, R, h, n),
         NEW more, report.lost \subseteq more.lost
  PROVE  Knows(more, s, R, h, n + 1)
<1>1. ~Takes(R, h, n + 1) /\ ~Sends(R, h, n + 1)
  BY DEF Takes, Sends
<1>2. Caught(s, R, h, n + 1)
  BY <1>1, CaughtOn DEF Knows, StreamKept
<1>3. Told(more, s, R, h, n)
  BY ToldMore DEF Knows
<1>4. Told(more, s, R, h, n + 1)
  BY <1>1, <1>3, ToldOn
<1> QED BY <1>2, <1>4 DEF Knows

LEMMA KnowsPassed ==
  ASSUME NEW R, IsReplay(R), NEW n \in 0..Len(R), n + 1 \in 1..Len(R), NEW h, NEW s,
         StreamKept(s, R, h), NEW report, Knows(report, s, R, h, n),
         NEW more, report.lost \subseteq more.lost,
         Unshared(s) => ~Clean(R, h, n + 1) \/ ~Sends(R, h, n + 1),
         Takes(R, h, n + 1)
           /\ (\/ Unfit(R[n + 1])
               \/ Unshared(s) /\ NeverTriggered(R, h) /\ DefersTask(R[n + 1]))
           => LeftOutOf(more, h) # {}
  PROVE  Knows(more, s, R, h, n + 1)
<1>1. Caught(s, R, h, n + 1)
  BY CaughtOn DEF Knows, StreamKept
<1>2. Told(more, s, R, h, n)
  BY ToldMore DEF Knows
<1>3. Told(more, s, R, h, n + 1)
  BY <1>2, ToldOn
<1> QED BY <1>1, <1>3 DEF Knows

------------------------------------------------------------------------------
(* The steps.                                                               *)

\* An import where it is, the streams gone on.
LEMMA FollowsStays ==
  ASSUME NEW l, IsReplay(Final(l)), NEW row, NEW row2,
         \A h \in Harps : TypedStream(row[h]) /\ Continues(row[h], row2[h], Final(l), h),
         NEW k, Follows(k, l, row),
         k.pc \in {"step", "run"} => k.at \in 1..Len(k.report.records),
         k.pc \in {"step", "run"} \/ (k.pc = "done" /\ k.left # <<>>) =>
           k.report.records \in Seq(LogRecords)
  PROVE  Follows(k, l, row2)
<1>1. PICK R : R = Final(l)
  OBVIOUS
<1>2. IsReplay(R) /\ Len(R) \in Nat
  BY <1>1 DEF IsReplay
<1>3. ASSUME NEW h \in Harps, NEW n \in 0..Len(R), NEW report, Knows(report, row[h], R, h, n)
      PROVE  Knows(report, row2[h], R, h, n)
  BY <1>1, <1>2, <1>3, ContinuesKnown
<1>4. \A h \in Harps : Unshared(row2[h]) => Unshared(row[h])
  BY <1>1, <1>2, ContinuesKnown
<1>5. ASSUME k.pc \in {"step", "run"} PROVE Midway(k, l, row2)
  <2>1. /\ l.lines # NoLog /\ Begins(k.report.records, R)
        /\ \A h \in Harps :
             /\ FoldSays(k.fold, R, h, k.at - 1)
             /\ Knows(k.report, row[h], R, h, k.at - 1)
             /\ Unshared(row[h]) /\ Clean(R, h, k.at - 1) => h \notin k.fold.missing
    BY <1>1, <1>5 DEF Follows, Midway
  <2>2. PICK n : n = k.at - 1
    OBVIOUS
  <2>3. n \in 0..Len(R)
    <3>1. k.report.records \in Seq(LogRecords) /\ k.at \in 1..Len(k.report.records)
      BY <1>5
    <3>2. Len(k.report.records) \in Nat /\ Len(k.report.records) <= Len(R)
      BY <2>1, <3>1 DEF Begins
    <3> QED BY <1>2, <2>2, <3>1, <3>2
  <2>4. \A h \in Harps : Knows(k.report, row2[h], R, h, n)
    BY <1>3, <2>1, <2>2, <2>3
  <2> QED BY <1>1, <1>4, <2>1, <2>2, <2>4 DEF Midway
<1>6. ASSUME k.pc = "done", k.left # <<>>, ~k.report.failed PROVE Brought(k.report, l, row2)
  <2>1. /\ l.lines # NoLog /\ Begins(k.report.records, R)
        /\ \A h \in Harps : Knows(k.report, row[h], R, h, Len(k.report.records))
    BY <1>1, <1>6 DEF Follows, Brought
  <2>2. PICK n : n = Len(k.report.records)
    OBVIOUS
  <2>3. n \in 0..Len(R)
    <3>1. n \in Nat /\ n <= Len(R)
      BY <1>6, <2>1, <2>2 DEF Begins
    <3> QED BY <1>2, <3>1
  <2>4. \A h \in Harps : Knows(k.report, row2[h], R, h, n)
    BY <1>3, <2>1, <2>2, <2>3
  <2> QED BY <1>1, <2>1, <2>2, <2>4 DEF Brought
<1> QED BY <1>5, <1>6 DEF Follows

\* What it reads is some project's log.
LEMMA FollowsSome ==
  ASSUME ReadInv, NEW i \in Importers
  PROVE  LET k == importer[i] IN
         /\ k.left # <<>> => Head(k.left) \in Projects
         /\ k.pc \in {"step", "run"} => k.left # <<>> /\ k.at \in 1..Len(k.report.records)
         /\ k.pc \in {"step", "run"} \/ (k.pc = "done" /\ k.left # <<>>) =>
              k.report.records \in Seq(LogRecords)
<1>1. PICK k : k = importer[i]
  OBVIOUS
<1>2. Reading(k, streams, logs)
  BY <1>1 DEF ReadInv
<1>3. k.left # <<>> => Head(k.left) \in Projects
  <2>1. k.left \in Seq(Projects)
    BY <1>2 DEF Reading
  <2>2. ASSUME k.left # <<>> PROVE Len(k.left) >= 1 /\ Head(k.left) = k.left[1] /\ 1 \in 1..Len(k.left)
    BY <2>1, <2>2
  <2> QED BY <2>1, <2>2
<1>4. k.pc \in {"step", "run"} => k.left # <<>> /\ k.at \in 1..Len(k.report.records)
  BY <1>2 DEF Reading
<1>5. k.pc \in {"step", "run"} \/ (k.pc = "done" /\ k.left # <<>>) =>
        k.report.records \in Seq(LogRecords)
  BY <1>2 DEF Reading, OfLog
<1> QED BY <1>1, <1>3, <1>4, <1>5

LEMMA FollowsNothing ==
  ASSUME NEW k, k.pc \notin {"step", "run"},
         ~(k.pc = "done" /\ k.left # <<>> /\ ~k.report.failed), NEW l, NEW row, NEW p
  PROVE  Follows(k, l, row) /\ ReadBy(k, p)
BY DEF Follows, ReadBy

\* One import moves.
LEMMA AgreeMoves ==
  ASSUME ReadInv, UNCHANGED <<logs, written>>, NEW first \in LogsAtFirst,
         AgreeFor(first, streams'),
         NEW i \in Importers, NEW k, importer' = [importer EXCEPT ![i] = k],
         Follows(k, first[Head(k.left)], streams'[Head(k.left)]),
         \A p \in Projects : logs[p] # NoLog /\ Readable(Log(p)) => ReadBy(k, p)
  PROVE  AgreeInv'
<1>1. importer = [j \in Importers |-> importer[j]]
  BY DEF ReadInv, IInv
<1>2. \A j \in Importers : importer'[j] = IF j = i THEN k ELSE importer[j]
  BY <1>1
<1>3. \A p \in Projects : logs'[p] = first[p].lines /\ first[p].written <= written'[p]
  BY DEF AgreeFor
<1> PICK next : next = streams'
  OBVIOUS
<1>4. ASSUME NEW p \in Projects PROVE Within(p, Final(first[p]), next[p])'
  <2>1. Within(p, Final(first[p]), next[p])
    BY DEF AgreeFor
  <2>2. Log(p)' = Log(p) /\ Replayed(p)' = Replayed(p) /\ logs'[p] = logs[p]
    BY DEF Log, Replayed
  <2>3. ASSUME logs[p] # NoLog, Readable(Log(p)), NEW j \in Importers PROVE ReadBy(importer[j], p)'
    <3>1. ReadBy(importer[j], p)
      BY <2>1, <2>3 DEF Within
    <3>2. ReadBy(k, p)
      BY <2>3
    <3>3. CASE j = i
      BY <1>2, <2>2, <3>2, <3>3 DEF ReadBy
    <3>4. CASE j # i
      BY <1>2, <2>2, <3>1, <3>4 DEF ReadBy
    <3> QED BY <3>3, <3>4
  <2> QED BY <2>1, <2>2, <2>3 DEF Within
<1>5. \A p \in Projects, h \in Harps : StreamKept(streams'[p][h], Final(first[p]), h)
  BY DEF AgreeFor
<1>6. ASSUME NEW j \in Importers
      PROVE  Follows(importer'[j], first[Head(importer'[j].left)], streams'[Head(importer'[j].left)])
  <2>1. CASE j = i
    BY <1>2, <2>1
  <2>2. CASE j # i
    <3>1. importer'[j] = importer[j]
      BY <1>2, <2>2
    <3> QED BY <3>1 DEF AgreeFor
  <2> QED BY <2>1, <2>2
<1>7. AgreeFor(first, next)'
  BY <1>3, <1>4, <1>5, <1>6 DEF AgreeFor
<1>8. AgreeFor(first, streams)' <=> AgreeFor(first, next)'
  BY DEF AgreeFor, Within
<1> QED BY <1>7, <1>8 DEF AgreeInv

\* One page is appended.
LEMMA AgreeGrown ==
  ASSUME ReadInv, TypeInv, LoggedInOrder, NEW first \in LogsAtFirst, AgreeFor(first, streams),
         NEW p \in Projects, NEW h \in Harps, NEW page,
         streams' = [streams EXCEPT ![p][h] = Append(@, page)],
         StreamKept(streams'[p][h], Final(first[p]), h),
         \/ page.id = User
         \/ \E a \in 1..Len(Final(first[p])) :
              /\ page.id = IdOf(Final(first[p])[a])
              /\ ~HasIn(streams[p][h], Final(first[p])[a])
              /\ Sends(Final(first[p]), h, a)
              /\ logs[p] # NoLog /\ Readable(Log(p)) => a <= Len(Replayed(p))
  PROVE  AgreeFor(first, streams')
<1>1. streams = [q \in Projects |-> [g \in Harps |-> streams[q][g]]]
  BY DEF ReadInv, IInv, StreamsSound
<1>2. \A q \in Projects, g \in Harps :
        streams'[q][g] = IF q = p /\ g = h THEN Append(streams[p][h], page) ELSE streams[q][g]
  BY <1>1
<1>3. \A q \in Projects : IsReplay(Final(first[q]))
  BY FinalIs DEF IsReplay
<1>4. \A q \in Projects, g \in Harps : TypedStream(streams[q][g])
  BY DEF TypeInv, StreamsTyped
<1>5. \A q \in Projects, g \in Harps :
        Continues(streams[q][g], streams'[q][g], Final(first[q]), g)
  <2>1. Continues(streams[p][h], streams'[p][h], Final(first[p]), h)
    BY <1>2 DEF Continues
  <2>2. ASSUME NEW q \in Projects, NEW g \in Harps, ~(q = p /\ g = h)
        PROVE  Continues(streams[q][g], streams'[q][g], Final(first[q]), g)
    BY <1>2, <2>2 DEF Continues
  <2> QED BY <2>1, <2>2
<1>6. ASSUME NEW q \in Projects PROVE Within(q, Final(first[q]), streams'[q])
  <2>1. Within(q, Final(first[q]), streams[q])
    BY DEF AgreeFor
  <2> SUFFICES ASSUME logs[q] # NoLog, Readable(Log(q)),
                      NEW g \in Harps, NEW n \in 1..Len(Final(first[q])),
                      HasIn(streams'[q][g], Final(first[q])[n])
               PROVE  n <= Len(Replayed(q))
    BY <2>1 DEF Within
  <2>2. CASE HasIn(streams[q][g], Final(first[q])[n])
    BY <2>1, <2>2 DEF Within
  <2>3. CASE ~HasIn(streams[q][g], Final(first[q])[n])
    <3>1. q = p /\ g = h
      BY <1>2, <2>3
    <3>2. page.id = IdOf(Final(first[p])[n])
      <4>1. TypedStream(streams[p][h]) /\ streams'[p][h] = Append(streams[p][h], page)
        BY <1>2, <1>4
      <4>2. \A r : HasIn(streams'[p][h], r) <=> HasIn(streams[p][h], r) \/ page.id = IdOf(r)
        BY ONLY <4>1, PageIn
      <4> QED BY <2>3, <3>1, <4>2
    <3>3. PICK a \in 1..Len(Final(first[p])) :
            page.id = IdOf(Final(first[p])[a]) /\ a <= Len(Replayed(p))
      BY <3>1, <3>2, IdsApart
    <3>4. a = n
      BY <1>3, <3>1, <3>2, <3>3, IdsApart DEF IsReplay
    <3> QED BY <3>1, <3>3, <3>4
  <2> QED BY <2>2, <2>3
<1>7. \A q \in Projects, g \in Harps : StreamKept(streams'[q][g], Final(first[q]), g)
  BY <1>2 DEF AgreeFor
<1>8. ASSUME NEW i \in Importers
      PROVE  Follows(importer[i], first[Head(importer[i].left)], streams'[Head(importer[i].left)])
  <2>1. PICK k : k = importer[i]
    OBVIOUS
  <2>2. /\ k.left # <<>> => Head(k.left) \in Projects
        /\ k.pc \in {"step", "run"} => k.left # <<>> /\ k.at \in 1..Len(k.report.records)
        /\ k.pc \in {"step", "run"} \/ (k.pc = "done" /\ k.left # <<>>) =>
             k.report.records \in Seq(LogRecords)
    BY <2>1, FollowsSome
  <2>3. CASE k.left = <<>>
    <3>1. k.pc \notin {"step", "run"}
      BY <2>2, <2>3
    <3> QED BY <2>1, <2>3, <3>1, FollowsNothing
  <2>4. CASE k.left # <<>>
    <3>1. PICK q \in Projects : q = Head(k.left)
      BY <2>2, <2>4
    <3>2. Follows(k, first[q], streams[q])
      BY <2>1, <3>1 DEF AgreeFor
    <3>3. \A g \in Harps : TypedStream(streams[q][g])
            /\ Continues(streams[q][g], streams'[q][g], Final(first[q]), g)
      BY <1>4, <1>5
    <3>4. PICK row, row2, l : row = streams[q] /\ row2 = streams'[q] /\ l = first[q]
      OBVIOUS
    <3>5. Follows(k, l, row2)
      BY <1>3, <2>2, <3>2, <3>3, <3>4, FollowsStays
    <3> QED BY <2>1, <3>1, <3>4, <3>5
  <2> QED BY <2>3, <2>4
<1> QED BY <1>6, <1>7, <1>8 DEF AgreeFor

LEMMA NextProjectAgrees ==
  ASSUME ReadInv, UNCHANGED <<logs, written>>, NEW first \in LogsAtFirst,
         AgreeFor(first, streams'), NEW i \in Importers, importer[i].left # <<>>,
         NEW report, NextProject(i, report),
         ~report.failed => Brought(report, first[Project(i)], streams'[Project(i)])
  PROVE  AgreeInv'
<1> DEFINE one == Len(importer[i].left) = 1
<1>1. PICK k :
        k = [Idle EXCEPT !.left = IF one THEN <<Project(i)>> ELSE Tail(importer[i].left),
                         !.pc = IF one THEN "done" ELSE "read",
                         !.report = report,
                         !.whole = importer[i].whole /\ Complete(report)]
  OBVIOUS
<1>2. importer' = [importer EXCEPT ![i] = k]
  BY <1>1 DEF NextProject
<1>3. /\ k.pc = (IF one THEN "done" ELSE "read") /\ k.report = report
      /\ k.left = IF one THEN <<Project(i)>> ELSE Tail(importer[i].left)
  BY <1>1 DEF Idle
<1>4. Follows(k, first[Head(k.left)], streams'[Head(k.left)])
  <2>1. CASE one
    <3>1. Head(k.left) = Project(i) /\ k.pc = "done" /\ k.report = report
      BY <1>3, <2>1
    <3> QED BY <3>1 DEF Follows
  <2>2. CASE ~one
    BY <1>3, <2>2 DEF Follows
  <2> QED BY <2>1, <2>2
<1>5. \A p \in Projects : ReadBy(k, p)
  BY <1>3 DEF ReadBy
<1> QED BY <1>2, <1>4, <1>5, AgreeMoves

LEMMA OnwardAgrees ==
  ASSUME ReadInv, UNCHANGED <<logs, written>>, NEW first \in LogsAtFirst,
         AgreeFor(first, streams'), NEW i \in Importers, importer[i].pc \in {"step", "run"},
         NEW fold, NEW report, Onward(i, fold, report),
         report.records = importer[i].report.records,
         NEW R, R = Final(first[Project(i)]), NEW n, n = importer[i].at,
         first[Project(i)].lines # NoLog, Begins(report.records, R),
         \A h \in Harps :
           /\ FoldSays(fold, R, h, n)
           /\ Knows(report, streams'[Project(i)][h], R, h, n)
           /\ Unshared(streams'[Project(i)][h]) /\ Clean(R, h, n) => h \notin fold.missing
  PROVE  AgreeInv'
<1>1. importer[i].left # <<>> /\ n \in 1..Len(report.records)
  BY FollowsSome
<1>2. CASE n = Len(report.records)
  <2>1. NextProject(i, report)
    BY <1>2 DEF Onward
  <2>2. Brought(report, first[Project(i)], streams'[Project(i)])
    BY <1>2 DEF Brought
  <2> QED BY <1>1, <2>1, <2>2, NextProjectAgrees
<1>3. CASE n # Len(report.records)
  <2> DEFINE k == [importer[i] EXCEPT !.pc = "step", !.at = @ + 1, !.fold = fold,
                                      !.report = report]
  <2>1. importer' = [importer EXCEPT ![i] = k]
    BY <1>3 DEF Onward
  <2>2. IsImport(importer[i])
    BY DEF ReadInv, IInv, ImportSound
  <2>3. k.pc = "step" /\ k.left = importer[i].left /\ k.report = report /\ k.at = n + 1 /\ k.fold = fold
    BY <2>2 DEF IsImport
  <2> HIDE DEF k
  <2>4. (n + 1) - 1 = n
    BY <1>1
  <2>5. Midway(k, first[Project(i)], streams'[Project(i)])
    BY <2>3, <2>4 DEF Midway
  <2>6. Follows(k, first[Head(k.left)], streams'[Head(k.left)])
    BY <2>3, <2>5 DEF Follows, Project
  <2>7. ASSUME NEW p \in Projects, logs[p] # NoLog, Readable(Log(p)) PROVE ReadBy(k, p)
    <3>1. ReadBy(importer[i], p)
      BY <2>7 DEF AgreeFor, Within
    <3> QED BY <2>3, <3>1 DEF ReadBy
  <2> QED BY <2>1, <2>6, <2>7, AgreeMoves
<1> QED BY <1>2, <1>3

\* An import at a record: where it is in its log's replay, and what it knows.
LEMMA AtReplay ==
  ASSUME ReadInv, TypeInv, LoggedInOrder, NEW first \in LogsAtFirst, AgreeFor(first, streams),
         NEW i \in Importers, importer[i].pc \in {"step", "run"},
         NEW R, R = Final(first[Project(i)]), NEW n, n = importer[i].at - 1
  PROVE  LET k == importer[i]
             r == Record(i)
             h == r.task IN
         /\ IsReplay(R) /\ n \in 0..Len(R) /\ n + 1 \in 1..Len(R) /\ n + 1 = k.at
         /\ r = R[n + 1] /\ h \in Harps /\ r \in LogRecords /\ Project(i) \in Projects
         /\ n + 1 \in 1..Len(k.report.records)
         /\ first[Project(i)].lines # NoLog /\ Begins(k.report.records, R)
         /\ IsReport(k.report)
         /\ IsImport(k) /\ FoldTyped(k.fold)
         /\ \A o \in Harps :
              /\ TypedStream(streams[Project(i)][o])
              /\ StreamKept(streams[Project(i)][o], R, o)
              /\ FoldSays(k.fold, R, o, n)
              /\ Knows(k.report, streams[Project(i)][o], R, o, n)
              /\ Unshared(streams[Project(i)][o]) /\ Clean(R, o, n) => o \notin k.fold.missing
              /\ FoldSays(Step(i).fold, R, o, n + 1)
         /\ Step(i).fold.missing = k.fold.missing
         /\ Step(i).step.kind = "run" <=>
              Sends(R, h, n + 1) /\ (r.op = "add" \/ h \notin k.fold.missing)
         /\ Step(i).step.kind = "run" => CommandOf(R, h, n + 1, Step(i).step.command)
         /\ Takes(R, h, n + 1) /\ r.op # "add" /\ h \in k.fold.missing =>
              Step(i).step = Lost("TaskNotImported")
<1>1. PICK k, p, r, h : k = importer[i] /\ p = Project(i) /\ r = Record(i) /\ h = r.task
  OBVIOUS
<1>2. k.left # <<>> /\ k.at \in 1..Len(k.report.records) /\ k.report.records \in Seq(LogRecords)
  BY <1>1, FollowsSome
<1>3. p \in Projects /\ r \in LogRecords /\ h \in Harps
  BY <1>1, AtLine
<1>4. IsReplay(R)
  BY <1>1, <1>3, FinalIs DEF IsReplay
<1>5. Follows(k, first[p], streams[p])
  BY <1>1 DEF AgreeFor, Project
<1>6. Midway(k, first[p], streams[p])
  BY <1>1, <1>5 DEF Follows
<1>7. /\ first[p].lines # NoLog /\ Begins(k.report.records, R)
      /\ \A o \in Harps :
           /\ FoldSays(k.fold, R, o, n)
           /\ Knows(k.report, streams[p][o], R, o, n)
           /\ Unshared(streams[p][o]) /\ Clean(R, o, n) => o \notin k.fold.missing
  BY <1>1, <1>6 DEF Midway
<1>8. /\ n \in 0..Len(R) /\ n + 1 \in 1..Len(R) /\ n + 1 = k.at
      /\ n + 1 \in 1..Len(k.report.records)
  <2>1. Len(k.report.records) \in Nat /\ Len(R) \in Nat
    BY <1>2, <1>4 DEF IsReplay
  <2>2. Len(k.report.records) <= Len(R)
    BY <1>7 DEF Begins
  <2>3. n = k.at - 1
    BY <1>1
  <2> QED BY <1>2, <2>1, <2>2, <2>3
<1>9. r = R[n + 1]
  BY <1>1, <1>7, <1>8 DEF Begins, Record
<1>10. IsImport(k) /\ IsFold(k.fold) /\ IsReport(k.report) /\ FoldTyped(k.fold)
  BY <1>1 DEF ReadInv, IInv, ImportSound, TypeInv, ImportTyped, IsImport
<1>11. \A o \in Harps : TypedStream(streams[p][o]) /\ StreamKept(streams[p][o], R, o)
  BY <1>1, <1>3 DEF TypeInv, StreamsTyped, AgreeFor
<1>12. PICK repaired : repaired = RepairedBy(k.report.records)
  OBVIOUS
<1>13. Step(i) = Stepped(k.fold, repaired, r)
  BY <1>1, <1>12 DEF Step
<1>14. R \in Seq(LogRecords)
  BY <1>4 DEF IsReplay
<1>15. \A o \in Harps : FoldSays(k.fold, R, o, n)
  BY <1>7
<1>16. PICK f : f = k.fold
  OBVIOUS
<1>17. ASSUME NEW o \in Harps PROVE FoldSays(Step(i).fold, R, o, n + 1)
  <2>1. FoldSays(Stepped(f, repaired, R[n + 1]).fold, R, o, n + 1)
    BY <1>8, <1>10, <1>14, <1>15, <1>16, FoldSaysNext
  <2> QED BY <1>9, <1>13, <1>16, <2>1
<1>18. Step(i).fold.missing = k.fold.missing
  BY <1>1, AtRecord DEF ReadInv
<1>19. PICK st : st = Stepped(f, repaired, R[n + 1]).step
  OBVIOUS
<1>20. /\ st.kind = "run" <=> Sends(R, h, n + 1) /\ (r.op = "add" \/ h \notin f.missing)
       /\ st.kind = "run" => CommandOf(R, h, n + 1, st.command)
       /\ Takes(R, h, n + 1) /\ r.op # "add" /\ h \in f.missing => st = Lost("TaskNotImported")
  <2>1. R[n + 1].task = h /\ R[n + 1].op = r.op
    BY <1>1, <1>9
  <2>2. IsFold(f) /\ FoldTyped(f) /\ \A o \in Harps : FoldSays(f, R, o, n)
    BY <1>10, <1>15, <1>16
  <2>3. LET q == R[n + 1]
            g == q.task
            s == Stepped(f, repaired, q).step IN
        /\ s.kind = "run" <=> Sends(R, g, n + 1) /\ (q.op = "add" \/ g \notin f.missing)
        /\ s.kind = "run" => CommandOf(R, g, n + 1, s.command)
        /\ Takes(R, g, n + 1) /\ q.op # "add" /\ g \in f.missing => s = Lost("TaskNotImported")
    BY ONLY <1>8, <1>14, <2>2, SentIs
  <2> QED BY <1>19, <2>1, <2>3
<1>21. Step(i).step = st
  BY <1>9, <1>13, <1>16, <1>19
<1> QED BY <1>1, <1>3, <1>4, <1>7, <1>8, <1>9, <1>10, <1>11, <1>16, <1>17, <1>18, <1>20, <1>21

LEMMA CleanBefore ==
  ASSUME NEW R, NEW h, NEW n \in Nat, Clean(R, h, n + 1)
  PROVE  Clean(R, h, n)
BY DEF Clean

\* The record is done with: the stream has it, or it was not sent.
LEMMA DoneAgrees ==
  ASSUME ReadInv, TypeInv, LoggedInOrder, UNCHANGED <<logs, written>>, streams' = streams,
         NEW first \in LogsAtFirst, AgreeFor(first, streams),
         NEW i \in Importers, importer[i].pc \in {"step", "run"},
         NEW next, Onward(i, Step(i).fold, next), next.records = importer[i].report.records,
         importer[i].report.lost \subseteq next.lost,
         \/ Found(Project(i), Record(i))
         \/ /\ Step(i).step.kind # "run"
            /\ Step(i).step.kind = "lost" =>
                 [record |-> Record(i), why |-> Step(i).step.why] \in next.lost
  PROVE  AgreeInv'
<1>1. PICK k, p, r, h, step :
        /\ k = importer[i] /\ p = Project(i) /\ r = Record(i) /\ h = Record(i).task
        /\ step = Step(i)
  OBVIOUS
<1>2. PICK R, n : R = Final(first[p]) /\ n = k.at - 1
  OBVIOUS
<1>3. /\ IsReplay(R) /\ n \in 0..Len(R) /\ n + 1 \in 1..Len(R) /\ n + 1 = k.at
      /\ r = R[n + 1] /\ h \in Harps /\ r \in LogRecords /\ p \in Projects
      /\ first[p].lines # NoLog /\ Begins(k.report.records, R)
      /\ \A o \in Harps :
           /\ StreamKept(streams[p][o], R, o)
           /\ Knows(k.report, streams[p][o], R, o, n)
           /\ Unshared(streams[p][o]) /\ Clean(R, o, n) => o \notin k.fold.missing
           /\ FoldSays(step.fold, R, o, n + 1)
      /\ step.fold.missing = k.fold.missing
      /\ step.step.kind = "run" <=> Sends(R, h, n + 1) /\ (r.op = "add" \/ h \notin k.fold.missing)
      /\ Takes(R, h, n + 1) /\ r.op # "add" /\ h \in k.fold.missing =>
           step.step = Lost("TaskNotImported")
  BY <1>1, <1>2, AtReplay
<1>4. \/ HasIn(streams[p][h], r)
      \/ /\ step.step.kind # "run"
         /\ step.step.kind = "lost" => [record |-> r, why |-> step.step.why] \in next.lost
  BY <1>1 DEF Found, HasIn
<1>5. \A o : Clean(R, o, n + 1) => Clean(R, o, n)
  BY <1>3, CleanBefore
<1>6. ASSUME NEW o \in Harps PROVE Knows(next, streams[p][o], R, o, n + 1)
  <2>1. StreamKept(streams[p][o], R, o) /\ Knows(k.report, streams[p][o], R, o, n)
    BY <1>3
  <2>2. k.report.lost \subseteq next.lost
    BY <1>1
  <2>3. CASE o # h
    <3>1. R[n + 1].task # o
      BY <1>1, <1>3, <2>3
    <3> QED BY <1>3, <2>1, <2>2, <3>1, KnowsOther
  <2>4. CASE o = h /\ HasIn(streams[p][h], r)
    <3>1. HasIn(streams[p][o], R[n + 1])
      BY <1>3, <2>4
    <3> QED BY <1>3, <2>1, <2>2, <3>1, KnowsHeld
  <2>5. CASE o = h /\ ~HasIn(streams[p][h], r)
    <3>1. /\ step.step.kind # "run"
          /\ step.step.kind = "lost" => [record |-> r, why |-> step.step.why] \in next.lost
      BY <1>4, <2>5
    <3>2. ~Sends(R, o, n + 1) \/ (r.op # "add" /\ h \in k.fold.missing)
      BY <1>3, <2>5, <3>1
    <3>3. Unshared(streams[p][o]) => ~Clean(R, o, n + 1) \/ ~Sends(R, o, n + 1)
      BY <1>3, <1>5, <2>5, <3>2
    <3>4. ASSUME Takes(R, o, n + 1), Unfit(r) \/ DefersTask(r) PROVE LeftOutOf(next, o) # {}
      <4>1. Sends(R, o, n + 1)
        <5>1. ~Retag(r)
          BY <3>4 DEF Retag, Unfit, DefersTask
        <5> QED BY <1>3, <3>4, <5>1 DEF Sends
      <4>2. step.step = Lost("TaskNotImported")
        BY <1>3, <2>5, <3>2, <3>4, <4>1
      <4>3. [record |-> r, why |-> "TaskNotImported"] \in next.lost
        BY <3>1, <4>2 DEF Lost
      <4>4. [record |-> r, why |-> "TaskNotImported"] \in LeftOutOf(next, o)
        BY <1>1, <2>5, <4>3 DEF LeftOutOf
      <4> QED BY <4>4
    <3>5. Takes(R, o, n + 1)
            /\ (\/ Unfit(R[n + 1])
                \/ Unshared(streams[p][o]) /\ NeverTriggered(R, o) /\ DefersTask(R[n + 1]))
            => LeftOutOf(next, o) # {}
      BY <1>3, <3>4
    <3> QED BY <1>3, <2>1, <2>2, <3>3, <3>5, KnowsPassed
  <2> QED BY <2>3, <2>4, <2>5
<1>7. AgreeFor(first, streams')
  BY Zenon
<1>8. \A o \in Harps :
        /\ FoldSays(step.fold, R, o, n + 1)
        /\ Knows(next, streams'[p][o], R, o, n + 1)
        /\ Unshared(streams'[p][o]) /\ Clean(R, o, n + 1) => o \notin step.fold.missing
  BY <1>3, <1>5, <1>6
<1>9. PICK m : m = n + 1
  OBVIOUS
<1> QED BY <1>1, <1>2, <1>3, <1>7, <1>8, <1>9, OnwardAgrees

LEMMA StepRecordAgrees ==
  ASSUME ReadInv, TypeInv, LoggedInOrder, NEW first \in LogsAtFirst, AgreeFor(first, streams),
         NEW i \in Importers, StepRecord(i)
  PROVE  AgreeInv'
<1>1. PICK p, r, step : p = Project(i) /\ r = Record(i) /\ step = Step(i)
  OBVIOUS
<1>2. PICK report : report = [importer[i].report EXCEPT !.lost = @ \cup LostTags(r, step.refused)]
  OBVIOUS
<1>3. importer[i].pc = "step" /\ UNCHANGED <<logs, written>> /\ streams' = streams
  BY DEF StepRecord
<1>4. PICK n : n = importer[i].at - 1
  OBVIOUS
<1>5. /\ IsReport(importer[i].report) /\ IsImport(importer[i])
      /\ IsReplay(Final(first[p])) /\ first[p].lines # NoLog
      /\ Begins(importer[i].report.records, Final(first[p]))
      /\ \A o \in Harps :
           /\ FoldSays(importer[i].fold, Final(first[p]), o, n)
           /\ Knows(importer[i].report, streams[p][o], Final(first[p]), o, n)
           /\ Unshared(streams[p][o]) /\ Clean(Final(first[p]), o, n) =>
                o \notin importer[i].fold.missing
  BY <1>1, <1>3, <1>4, AtReplay
<1>6. /\ IsReport(report) /\ report.records = importer[i].report.records
      /\ importer[i].report.lost \subseteq report.lost
  BY <1>2, <1>5 DEF IsReport
<1>7. AgreeFor(first, streams')
  BY <1>3, Zenon
\* The command is sent.
<1>8. CASE importer' = [importer EXCEPT ![i].pc = "run", ![i].report = report]
  <2> DEFINE k == [importer[i] EXCEPT !.pc = "run", !.report = report]
  <2>1. importer' = [importer EXCEPT ![i] = k]
    BY <1>8
  <2>2. /\ k.pc = "run" /\ k.left = importer[i].left /\ k.report = report
        /\ k.at = importer[i].at /\ k.fold = importer[i].fold
    BY <1>5 DEF IsImport
  <2> HIDE DEF k
  <2>3. \A o \in Harps : Knows(report, streams[p][o], Final(first[p]), o, n)
    BY <1>5, <1>6, ToldMore DEF Knows
  <2>4. Midway(k, first[p], streams'[p])
    BY <1>3, <1>4, <1>5, <1>6, <2>2, <2>3 DEF Midway
  <2>5. Follows(k, first[Head(k.left)], streams'[Head(k.left)])
    BY <1>1, <2>2, <2>4 DEF Follows, Project
  <2>6. ASSUME NEW q \in Projects, logs[q] # NoLog, Readable(Log(q)) PROVE ReadBy(k, q)
    <3>1. ReadBy(importer[i], q)
      BY <2>6 DEF AgreeFor, Within
    <3> QED BY <1>3, <1>6, <2>2, <3>1 DEF ReadBy
  <2> QED BY <1>3, <1>7, <2>1, <2>5, <2>6, AgreeMoves
\* Or the record is done with.
<1>9. ASSUME NEW next, Onward(i, step.fold, next), next.records = report.records,
             report.lost \subseteq next.lost,
             \/ Found(p, r)
             \/ /\ step.step.kind # "run"
                /\ step.step.kind = "lost" => [record |-> r, why |-> step.step.why] \in next.lost
      PROVE  AgreeInv'
  <2>1. /\ next.records = importer[i].report.records
        /\ importer[i].report.lost \subseteq next.lost
    BY <1>6, <1>9
  <2> QED BY <1>1, <1>3, <1>9, <2>1, DoneAgrees
<1>10. CASE /\ Found(p, r)
            /\ Onward(i, step.fold, [report EXCEPT !.already = @ \cup {r}])
  <2> DEFINE next == [report EXCEPT !.already = @ \cup {r}]
  <2>1. next.records = report.records /\ next.lost = report.lost
    BY <1>6 DEF IsReport
  <2> HIDE DEF next
  <2> QED BY <1>9, <1>10, <2>1 DEF next
<1>11. CASE /\ step.step.kind \in {"unchanged", "ignored", "nothing left"}
            /\ Onward(i, step.fold, [report EXCEPT !.passed = @ \cup {r}])
  <2> DEFINE next == [report EXCEPT !.passed = @ \cup {r}]
  <2>1. next.records = report.records /\ next.lost = report.lost
    BY <1>6 DEF IsReport
  <2>2. step.step.kind # "run" /\ step.step.kind # "lost"
    <3>1. "run" # "nothing left" /\ "lost" # "nothing left"
      BY Zenon
    <3>2. \A x \in {"unchanged", "ignored", "nothing left"} : x # "run" /\ x # "lost"
      BY <3>1, Zenon
    <3> QED BY <1>11, <3>2, Zenon
  <2> HIDE DEF next
  <2> QED BY <1>9, <1>11, <2>1, <2>2 DEF next
<1>12. CASE /\ step.step.kind = "repaired"
            /\ Onward(i, step.fold, [report EXCEPT !.repaired = @ \cup {r}])
  <2> DEFINE next == [report EXCEPT !.repaired = @ \cup {r}]
  <2>1. next.records = report.records /\ next.lost = report.lost
    BY <1>6 DEF IsReport
  <2> HIDE DEF next
  <2> QED BY <1>9, <1>12, <2>1 DEF next
<1>13. CASE /\ step.step.kind = "lost"
            /\ Onward(i, step.fold,
                 [report EXCEPT !.lost = @ \cup {[record |-> r, why |-> step.step.why]}])
  <2> DEFINE new == [record |-> r, why |-> step.step.why]
             next == [report EXCEPT !.lost = @ \cup {new}]
  <2> HIDE DEF new
  <2>1. next.records = report.records /\ next.lost = report.lost \cup {new}
    BY <1>6 DEF IsReport
  <2> HIDE DEF next
  <2>2. Onward(i, step.fold, next)
    BY <1>13 DEF new, next
  <2>3. [record |-> r, why |-> step.step.why] \in next.lost
    BY <2>1 DEF new
  <2> QED BY <1>9, <1>13, <2>1, <2>2, <2>3
<1>14. \/ importer' = [importer EXCEPT ![i].pc = "run", ![i].report = report]
       \/ /\ Found(p, r)
          /\ Onward(i, step.fold, [report EXCEPT !.already = @ \cup {r}])
       \/ /\ step.step.kind \in {"unchanged", "ignored", "nothing left"}
          /\ Onward(i, step.fold, [report EXCEPT !.passed = @ \cup {r}])
       \/ /\ step.step.kind = "repaired"
          /\ Onward(i, step.fold, [report EXCEPT !.repaired = @ \cup {r}])
       \/ /\ step.step.kind = "lost"
          /\ Onward(i, step.fold,
               [report EXCEPT !.lost = @ \cup {[record |-> r, why |-> step.step.why]}])
  BY <1>1, <1>2 DEF StepRecord
<1> QED BY <1>8, <1>10, <1>11, <1>12, <1>13, <1>14

LEMMA NotImportedSays ==
  ASSUME NEW f, IsFold(f), NEW r, NEW R, NEW h, NEW n, FoldSays(f, R, h, n)
  PROVE  /\ FoldSays(NotImported(f, r), R, h, n)
         /\ NotImported(f, r).missing \subseteq f.missing \cup {r.task}
<1>1. PICK g : g = NotImported(f, r)
  OBVIOUS
<1>2. /\ g.issued = f.issued /\ g.live = f.live /\ g.triggers = f.triggers /\ g.tags = f.tags
      /\ g.missing \subseteq f.missing \cup {r.task}
  BY <1>1 DEF NotImported, IsFold
<1> QED BY <1>1, <1>2 DEF FoldSays

\* The record is run: decided on the task as it is.
LEMMA RunRecordAgrees ==
  ASSUME ReadInv, TypeInv, LoggedInOrder, NEW first \in LogsAtFirst, AgreeFor(first, streams),
         NEW i \in Importers, RunRecord(i)
  PROVE  AgreeInv'
<1>1. PICK p, r, h, step, report, s :
        /\ p = Project(i) /\ r = Record(i) /\ h = r.task /\ step = Step(i)
        /\ report = importer[i].report /\ s = streams[p][h]
  OBVIOUS
<1>2. PICK taken \in BOOLEAN : taken <=> (s # <<>>)
  OBVIOUS
<1>3. PICK c, d : c = step.step.command /\ d = Decide(Task(p, h), taken, c)
  OBVIOUS
<1>4. PICK page : page = [event |-> d.event, id |-> IdOf(r), at |-> At(r)]
  OBVIOUS
<1>5. PICK R, n : R = Final(first[p]) /\ n = importer[i].at - 1
  OBVIOUS
<1>6. importer[i].pc = "run" /\ UNCHANGED <<logs, written>>
  BY DEF RunRecord
<1>7. /\ IsReplay(R) /\ n \in 0..Len(R) /\ n + 1 \in 1..Len(R) /\ n + 1 = importer[i].at
      /\ r = R[n + 1] /\ h \in Harps /\ r \in LogRecords /\ p \in Projects
      /\ n + 1 \in 1..Len(report.records)
      /\ first[p].lines # NoLog /\ Begins(report.records, R) /\ IsReport(report)
      /\ \A o \in Harps :
           /\ TypedStream(streams[p][o]) /\ StreamKept(streams[p][o], R, o)
           /\ Knows(report, streams[p][o], R, o, n)
           /\ Unshared(streams[p][o]) /\ Clean(R, o, n) => o \notin importer[i].fold.missing
           /\ FoldSays(step.fold, R, o, n + 1)
      /\ step.fold.missing = importer[i].fold.missing
      /\ step.step.kind = "run" => Sends(R, h, n + 1) /\ CommandOf(R, h, n + 1, c)
  BY <1>1, <1>3, <1>5, <1>6, AtReplay
<1>8. step.step.kind = "run" /\ IsFold(step.fold)
  BY <1>1, <1>6, AtRecord DEF ImportSound, IInv, ReadInv
<1>9. Sends(R, h, n + 1) /\ CommandOf(R, h, n + 1, c) /\ Takes(R, h, n + 1)
  BY <1>7, <1>8 DEF Sends
<1>10. Decide(Task(p, h), streams[p][h] # <<>>, c) = d
  <2>1. taken = (streams[p][h] # <<>>)
    BY <1>1, <1>2, Zenon
  <2> QED BY <1>3, <2>1
<1>11. d = Decide(Folded(s), s # <<>>, c)
  BY <1>1, <1>10 DEF Task
<1>12. Found(p, r) <=> HasIn(s, r)
  BY <1>1 DEF Found, HasIn
<1>13. /\ streams' = [streams EXCEPT ![p][h] =
                        IF ~Found(p, r) /\ Records(d) THEN Append(@, page) ELSE @]
       /\ \/ /\ Found(p, r) \/ d.refusal = Sound
             /\ Onward(i, step.fold, [report EXCEPT !.applied = @ \cup {r}])
          \/ /\ ~(Found(p, r) \/ d.refusal = Sound)
             /\ Onward(i, NotImported(step.fold, r),
                  [report EXCEPT !.lost = @ \cup
                     {[record |-> r, why |-> IF d.refusal = "TaskExists" THEN "HarpTaken"
                                             ELSE d.refusal]}])
  BY <1>1, <1>3, <1>4, <1>10 DEF RunRecord
<1>14. /\ ~Found(p, r) /\ Records(d) => streams' = [streams EXCEPT ![p][h] = Append(@, page)]
       /\ ~(~Found(p, r) /\ Records(d)) => streams' = [streams EXCEPT ![p][h] = @]
  BY <1>13, Zenon
<1>15. streams = [q \in Projects |-> [g \in Harps |-> streams[q][g]]]
  BY DEF ReadInv, IInv, StreamsSound
<1>16. ~(~Found(p, r) /\ Records(d)) => streams' = streams
  BY <1>7, <1>14, <1>15
\* On a task no user wrote to and a log it can take, it is recorded.
<1>17. ASSUME ~HasIn(s, r), Unshared(s), Clean(R, h, n + 1) PROVE Records(d) /\ d.refusal = Sound
  <2>1. TypedStream(s) /\ InTurn(s, R, h) /\ Caught(s, R, h, n)
    BY <1>1, <1>7 DEF StreamKept, Knows
  <2>2. PICK e : Decide(Folded(s), s # <<>>, c) = Recorded(e) /\ Records(Recorded(e))
    BY <1>7, <1>9, <1>17, <2>1, DecidedHere
  <2> QED BY <1>11, <2>2 DEF Recorded
<1>18. \A o : Clean(R, o, n + 1) => Clean(R, o, n)
  BY <1>7, CleanBefore
\* The report, and the fold, once it is done with.
<1>19. PICK fold, next :
         /\ Onward(i, fold, next)
         /\ next.records = report.records /\ report.lost \subseteq next.lost
         /\ \A o \in Harps : FoldSays(fold, R, o, n + 1)
         /\ fold.missing \subseteq step.fold.missing \cup {h}
         /\ Found(p, r) \/ d.refusal = Sound => fold = step.fold
         /\ ~(Found(p, r) \/ d.refusal = Sound) =>
              [record |-> r, why |-> IF d.refusal = "TaskExists" THEN "HarpTaken"
                                     ELSE d.refusal] \in next.lost
  <2>1. CASE /\ Found(p, r) \/ d.refusal = Sound
             /\ Onward(i, step.fold, [report EXCEPT !.applied = @ \cup {r}])
    <3> DEFINE next == [report EXCEPT !.applied = @ \cup {r}]
    <3>1. next.records = report.records /\ next.lost = report.lost
      BY <1>7 DEF IsReport
    <3>2. Onward(i, step.fold, next)
      BY <2>1
    <3> HIDE DEF next
    <3> QED BY <1>7, <2>1, <3>1, <3>2
  <2>2. CASE /\ ~(Found(p, r) \/ d.refusal = Sound)
             /\ Onward(i, NotImported(step.fold, r),
                  [report EXCEPT !.lost = @ \cup
                     {[record |-> r, why |-> IF d.refusal = "TaskExists" THEN "HarpTaken"
                                             ELSE d.refusal]}])
    <3> DEFINE new == [record |-> r, why |-> IF d.refusal = "TaskExists" THEN "HarpTaken"
                                             ELSE d.refusal]
               next == [report EXCEPT !.lost = @ \cup {new}]
    <3>1. Onward(i, NotImported(step.fold, r), next)
      BY <2>2
    <3> HIDE DEF new
    <3>2. next.records = report.records /\ next.lost = report.lost \cup {new}
      BY <1>7 DEF IsReport
    <3> HIDE DEF next
    <3>3. PICK fold : fold = NotImported(step.fold, r)
      OBVIOUS
    <3>4. \A o \in Harps : FoldSays(fold, R, o, n + 1)
      BY <1>7, <1>8, <3>3, NotImportedSays
    <3>5. fold.missing \subseteq step.fold.missing \cup {h}
      BY <1>1, <1>7, <1>8, <3>3, NotImportedSays
    <3>6. new \in next.lost
      BY <3>2
    <3> QED BY <2>2, <3>1, <3>2, <3>3, <3>4, <3>5, <3>6 DEF new
  <2> QED BY <1>13, <2>1, <2>2
\* Its task's stream, so.
<1>20. CASE Found(p, r)
  <2>1. streams' = streams
    BY <1>16, <1>20
  <2>2. Onward(i, Step(i).fold, next)
    BY <1>1, <1>19, <1>20
  <2> QED BY <1>1, <1>6, <1>19, <1>20, <2>1, <2>2, DoneAgrees
<1>21. CASE ~Found(p, r)
  <2>1. \A o \in Harps :
          Unshared(streams[p][o]) /\ Clean(R, o, n + 1) => o \notin fold.missing
    <3> SUFFICES ASSUME NEW o \in Harps, Unshared(streams[p][o]), Clean(R, o, n + 1),
                        o \in fold.missing
                 PROVE  FALSE
      OBVIOUS
    <3>1. o \notin step.fold.missing
      BY <1>7, <1>18
    <3>2. o = h /\ fold # step.fold
      BY <1>19, <3>1
    <3>3. d.refusal = Sound
      BY <1>1, <1>12, <1>17, <1>21, <3>2
    <3> QED BY <1>19, <3>2, <3>3
  <2>2. CASE Records(d)
    <3>1. streams' = [streams EXCEPT ![p][h] = Append(@, page)]
      BY <1>14, <1>21, <2>2
    <3>2. /\ streams'[p][h] = Append(s, page)
          /\ \A o \in Harps : o # h => streams'[p][o] = streams[p][o]
      BY <1>1, <1>7, <1>15, <3>1
    <3>3. /\ TypedStream(s) /\ StreamKept(s, R, h) /\ Caught(s, R, h, n) /\ ~HasIn(s, R[n + 1])
          /\ page.event = d.event /\ page.id = IdOf(R[n + 1]) /\ page.at = R[n + 1].ts
          /\ R[n + 1].task = h
      BY <1>1, <1>4, <1>7, <1>12, <1>21 DEF Knows, At
    <3>4. StreamKept(streams'[p][h], R, h)
      <4>1. PICK s2 : s2 = streams'[p][h]
        OBVIOUS
      <4>2. IsReplay(R) /\ n \in 0..Len(R) /\ n + 1 \in 1..Len(R) /\ h \in Harps
        BY <1>7
      <4>3. Sends(R, h, n + 1) /\ CommandOf(R, h, n + 1, c) /\ s2 = Append(s, page)
        BY <1>9, <3>2, <4>1
      <4>4. StreamKept(s2, R, h)
        BY ONLY <1>11, <2>2, <3>3, <4>2, <4>3, KeptByRecord
      <4> QED BY <4>1, <4>4
    <3>5. logs[p] # NoLog /\ Readable(Log(p)) => n + 1 <= Len(Replayed(p))
      <4> SUFFICES ASSUME logs[p] # NoLog, Readable(Log(p)) PROVE n + 1 <= Len(Replayed(p))
        OBVIOUS
      <4>1. ReadBy(importer[i], p) /\ Begins(Replayed(p), R)
        BY <1>5, <1>7 DEF AgreeFor, Within
      <4>2. Len(report.records) <= Len(Replayed(p))
        BY <1>1, <1>6, <4>1 DEF ReadBy, Project
      <4>3. Replayed(p) \in Seq(LogRecords)
        <5>1. LogsKept
          BY DEF ReadInv
        <5> QED BY <1>7, <5>1, LogIs, ReplayIs DEF Replayed
      <4>4. importer[i].report.records \in Seq(LogRecords)
        BY <1>6, FollowsSome
      <4>5. Len(Replayed(p)) \in Nat /\ Len(report.records) \in Nat
        BY <1>1, <4>3, <4>4
      <4> QED BY <1>7, <4>2, <4>5
    <3>6. AgreeFor(first, streams')
      <4>1. StreamKept(streams'[p][h], Final(first[p]), h)
        BY <1>5, <3>4
      <4>2. \E a \in 1..Len(Final(first[p])) :
              /\ page.id = IdOf(Final(first[p])[a])
              /\ ~HasIn(streams[p][h], Final(first[p])[a])
              /\ Sends(Final(first[p]), h, a)
              /\ logs[p] # NoLog /\ Readable(Log(p)) => a <= Len(Replayed(p))
        BY <1>1, <1>5, <1>7, <1>9, <3>3, <3>5
      <4> QED BY <1>7, <3>1, <4>1, <4>2, AgreeGrown
    <3>7. \A o \in Harps :
            /\ StreamKept(streams'[p][o], R, o)
            /\ Knows(report, streams'[p][o], R, o, n)
      <4>1. Follows(importer[i], first[p], streams'[p])
        BY <1>1, <3>6 DEF AgreeFor, Project
      <4>2. Midway(importer[i], first[p], streams'[p])
        BY <1>6, <4>1 DEF Follows
      <4> QED BY <1>1, <1>5, <1>7, <3>6, <4>2 DEF Midway, AgreeFor
    <3>8. HasIn(streams'[p][h], R[n + 1]) /\ (Unshared(streams'[p][h]) => Unshared(s))
      <4>1. PICK s2 : s2 = streams'[p][h]
        OBVIOUS
      <4>2. TypedStream(s) /\ s2 = Append(s, page)
        BY <3>2, <3>3, <4>1
      <4>3. \A q : HasIn(s2, q) <=> HasIn(s, q) \/ page.id = IdOf(q)
        BY ONLY <4>2, PageIn
      <4>4. Unshared(s2) <=> Unshared(s) /\ page.id # User
        BY ONLY <4>2, PageIn
      <4> QED BY <3>3, <4>1, <4>3, <4>4
    <3>9. \A o \in Harps : Knows(next, streams'[p][o], R, o, n + 1)
      <4> SUFFICES ASSUME NEW o \in Harps PROVE Knows(next, streams'[p][o], R, o, n + 1)
        OBVIOUS
      <4>1. StreamKept(streams'[p][o], R, o) /\ Knows(report, streams'[p][o], R, o, n)
        BY <3>7
      <4>2. CASE o = h
        BY <1>7, <1>19, <3>8, <4>1, <4>2, KnowsHeld
      <4>3. CASE o # h
        BY <1>7, <1>19, <3>3, <4>1, <4>3, KnowsOther
      <4> QED BY <4>2, <4>3
    <3>10. \A o \in Harps :
             Unshared(streams'[p][o]) /\ Clean(R, o, n + 1) => o \notin fold.missing
      BY <1>1, <2>1, <3>2, <3>8
    <3>11. \A o \in Harps :
             /\ FoldSays(fold, R, o, n + 1)
             /\ Knows(next, streams'[p][o], R, o, n + 1)
             /\ Unshared(streams'[p][o]) /\ Clean(R, o, n + 1) => o \notin fold.missing
      BY <1>19, <3>9, <3>10
    <3>12. PICK m : m = n + 1
      OBVIOUS
    <3> QED BY <1>1, <1>5, <1>6, <1>7, <1>19, <3>6, <3>11, <3>12, OnwardAgrees
  <2>3. CASE ~Records(d)
    <3>1. streams' = streams
      BY <1>16, <2>3
    <3>2. Unshared(s) => ~Clean(R, h, n + 1)
      BY <1>12, <1>17, <1>21, <2>3
    <3>3. ASSUME \/ Unfit(R[n + 1])
                 \/ Unshared(s) /\ NeverTriggered(R, h) /\ DefersTask(R[n + 1])
          PROVE  LeftOutOf(next, h) # {}
      <4>1. PICK t : t = Folded(s)
        OBVIOUS
      <4>2. t \in TaskStates
        <5>1. CASE s = <<>>
          <6>1. NoTask \in TaskStates
            BY DEF NoTask, TaskStates, Never
          <6>2. Folded(s) = NoTask
            BY <5>1, NothingFolded
          <6> QED BY <4>1, <6>1, <6>2
        <5>2. CASE s # <<>>
          BY <1>1, <1>7, <4>1, <5>2 DEF TypedStream, WholeTask
        <5> QED BY <5>1, <5>2
      <4>3. \/ Unfit(R[n + 1])
            \/ (DefersTask(R[n + 1]) /\ ~TriggeredAt(R, h, n + 1) /\ t.trigger = Empty)
        <5> SUFFICES ASSUME Unshared(s), NeverTriggered(R, h), DefersTask(R[n + 1])
                     PROVE  ~TriggeredAt(R, h, n + 1) /\ t.trigger = Empty
          BY <3>3
        <5>1. NeverDeferred(s, R, h)
          BY <1>1, <1>7 DEF StreamKept
        <5> QED BY <1>7, <1>9, <4>1, <5>1 DEF NeverDeferred, NeverTriggered
      <4>4. R \in Seq(LogRecords) /\ d = Decide(t, taken, c)
        BY <1>1, <1>3, <1>7, <4>1 DEF Task, IsReplay
      <4>5. Declined(d) \/ d = Refused("TaskExists")
        BY <1>7, <1>9, <4>2, <4>3, <4>4, UnfitRefused
      <4>6. PICK why : why = IF d.refusal = "TaskExists" THEN "HarpTaken" ELSE d.refusal
        OBVIOUS
      <4>7. d.refusal # Sound /\ why \notin {"Displaced", "Tag"}
        <5>1. CASE Declined(d)
          BY <4>6, <5>1 DEF Declined
        <5>2. CASE d = Refused("TaskExists")
          BY <4>6, <5>2 DEF Refused, Sound
        <5> QED BY <4>5, <5>1, <5>2
      <4>8. [record |-> r, why |-> why] \in LeftOutOf(next, h)
        BY <1>1, <1>19, <1>21, <4>6, <4>7 DEF LeftOutOf
      <4> QED BY <4>8
    <3>4. ASSUME NEW o \in Harps PROVE Knows(next, streams[p][o], R, o, n + 1)
      <4>1. StreamKept(streams[p][o], R, o) /\ Knows(report, streams[p][o], R, o, n)
        BY <1>7
      <4>2. CASE o = h
        BY <1>1, <1>7, <1>19, <3>2, <3>3, <4>1, <4>2, KnowsPassed
      <4>3. CASE o # h
        BY <1>1, <1>7, <1>19, <4>1, <4>3, KnowsOther
      <4> QED BY <4>2, <4>3
    <3>5. AgreeFor(first, streams')
      BY <3>1, Zenon
    <3>6. \A o \in Harps :
            /\ FoldSays(fold, R, o, n + 1)
            /\ Knows(next, streams'[p][o], R, o, n + 1)
            /\ Unshared(streams'[p][o]) /\ Clean(R, o, n + 1) => o \notin fold.missing
      BY <1>19, <2>1, <3>1, <3>4
    <3>7. PICK m : m = n + 1
      OBVIOUS
    <3> QED BY <1>1, <1>5, <1>6, <1>7, <1>19, <3>5, <3>6, <3>7, OnwardAgrees
  <2> QED BY <2>2, <2>3
<1> QED BY <1>20, <1>21

LEMMA InitAgrees == ASSUME LoggedInOrder, Init PROVE AgreeInv
<1>1. PICK first \in LogsAtFirst :
        /\ logs = [p \in Projects |-> first[p].lines]
        /\ written = [p \in Projects |-> first[p].written]
  BY DEF Init
<1>2. /\ \A p \in Projects, h \in Harps : streams[p][h] = <<>>
      /\ \A i \in Importers : importer[i] = Idle
  BY DEF Init
<1>3. \A p \in Projects : first[p].written \in Nat /\ first[p].written <= Len(first[p].lines)
  BY LogsAssumption
<1>4. \A i \in Importers : \A l, row : Follows(importer[i], l, row)
  BY <1>2 DEF Idle, Follows
<1>5. \A i \in Importers : \A p : ReadBy(importer[i], p)
  BY <1>2 DEF Idle, ReadBy
<1>6. \A r : ~HasIn(<<>>, r)
  BY DEF HasIn
<1>7. ASSUME NEW p \in Projects PROVE Within(p, Final(first[p]), streams[p])
  <2> SUFFICES ASSUME logs[p] # NoLog, Readable(Log(p)) PROVE Begins(Replayed(p), Final(first[p]))
    BY <1>2, <1>5, <1>6 DEF Within
  <2>1. Log(p) = SubSeq(first[p].lines, 1, first[p].written) /\ first[p].lines # NoLog
    BY <1>1 DEF Log
  <2>2. first[p].written \in first[p].written..Len(first[p].lines)
    <3>1. first[p].lines \in Seq(Lines)
      BY <2>1, LogsAssumption DEF Lines
    <3>2. Len(first[p].lines) \in Nat
      BY <3>1
    <3> QED BY <1>3, <3>2
  <2> QED BY <2>1, <2>2, FinalIs DEF Replayed
<1>8. ASSUME NEW R, NEW h PROVE StreamKept(<<>>, R, h)
  <2>1. Folded(<<>>).trigger = Empty
    BY NothingFolded DEF NoTask
  <2>2. FromRecords(<<>>, R, h) /\ InTurn(<<>>, R, h) /\ Fit(<<>>)
    BY <1>6 DEF FromRecords, InTurn, Fit
  <2>3. NeverDeferred(<<>>, R, h)
    BY <1>6, <2>1 DEF NeverDeferred
  <2> QED BY <2>2, <2>3 DEF StreamKept
<1>9. AgreeFor(first, streams)
  <2>1. \A p \in Projects : logs[p] = first[p].lines /\ first[p].written <= written[p]
    BY <1>1, <1>3
  <2>2. \A p \in Projects, h \in Harps : StreamKept(streams[p][h], Final(first[p]), h)
    BY <1>2, <1>8
  <2>3. \A i \in Importers :
          Follows(importer[i], first[Head(importer[i].left)], streams[Head(importer[i].left)])
    BY <1>4
  <2> QED BY <1>7, <2>1, <2>2, <2>3 DEF AgreeFor
<1> QED BY <1>9 DEF AgreeInv

\* A line more: replayed after those before it.
LEMMA AppendLineAgrees ==
  ASSUME ReadInv, LoggedInOrder, NEW first \in LogsAtFirst, AgreeFor(first, streams),
         NEW p \in Projects, AppendLine(p)
  PROVE  AgreeInv'
<1>1. /\ logs[p] # NoLog /\ written[p] < Len(logs[p])
      /\ written' = [written EXCEPT ![p] = @ + 1]
      /\ logs' = logs /\ streams' = streams /\ importer' = importer
  BY DEF AppendLine
<1>2. /\ written = [q \in Projects |-> written[q]]
      /\ \A q \in Projects : written[q] \in Nat /\ written[q] <= Len(logs[q])
  BY DEF ReadInv, LogsKept
<1>3. \A q \in Projects : written'[q] = IF q = p THEN written[p] + 1 ELSE written[q]
  BY <1>1, <1>2
<1>4. \A q \in Projects : logs[q] = first[q].lines /\ first[q].written <= written[q]
  BY DEF AgreeFor
<1>5. \A q \in Projects : first[q].written \in Nat
  BY LogsAssumption
<1>6. \A q \in Projects : first[q].written <= written'[q]
  BY <1>2, <1>3, <1>4, <1>5
<1>7. ASSUME NEW q \in Projects, q # p PROVE Within(q, Final(first[q]), streams[q])'
  <2>1. Within(q, Final(first[q]), streams[q])
    BY DEF AgreeFor
  <2>2. Log(q)' = Log(q)
    BY <1>1, <1>3, <1>7 DEF Log
  <2>3. Replayed(q)' = Replayed(q)
    BY <2>2 DEF Replayed
  <2> QED BY <1>1, <2>1, <2>2, <2>3 DEF Within, ReadBy
<1>8. Within(p, Final(first[p]), streams[p])'
  <2>1. Within(p, Final(first[p]), streams[p])
    BY DEF AgreeFor
  <2>2. PICK R : R = Final(first[p])
    OBVIOUS
  <2>3. PICK w, v : w = written[p] /\ v = written[p] + 1
    OBVIOUS
  <2>4. logs[p] \in Seq(Lines) /\ Len(logs[p]) \in Nat
    <3>1. first[p].lines \in Seq(Lines)
      BY <1>1, <1>4, LogsAssumption DEF Lines
    <3> QED BY <1>4, <3>1
  <2>5. /\ w \in first[p].written..Len(first[p].lines)
        /\ v \in first[p].written..Len(first[p].lines)
        /\ w <= v
    BY <1>1, <1>2, <1>4, <1>5, <2>3, <2>4
  <2>6. /\ Log(p) = SubSeq(first[p].lines, 1, w)
        /\ Log(p)' = SubSeq(first[p].lines, 1, v)
        /\ first[p].lines # NoLog
    BY <1>1, <1>3, <1>4, <2>3 DEF Log
  <2> SUFFICES ASSUME Readable(Log(p)')
               PROVE  /\ Begins(Replayed(p)', R)
                      /\ \A h \in Harps : \A n \in 1..Len(R) :
                           HasIn(streams[p][h], R[n]) => n <= Len(Replayed(p)')
                      /\ \A i \in Importers :
                           importer[i].pc \in {"step", "run"} /\ Head(importer[i].left) = p =>
                             Len(importer[i].report.records) <= Len(Replayed(p)')
    BY <1>1, <2>2 DEF Within, ReadBy
  <2>7. /\ Readable(Log(p)) /\ Begins(Replayed(p), Replayed(p)') /\ Begins(Replayed(p)', R)
    BY <2>2, <2>5, <2>6, FinalIs DEF Replayed
  <2>8. /\ \A h \in Harps : \A n \in 1..Len(R) : HasIn(streams[p][h], R[n]) => n <= Len(Replayed(p))
        /\ \A i \in Importers : ReadBy(importer[i], p)
    BY <1>1, <2>1, <2>2, <2>7 DEF Within
  <2>9. Len(Replayed(p)) <= Len(Replayed(p)')
    BY <2>7 DEF Begins
  <2>10. Len(Replayed(p)) \in Nat /\ Len(Replayed(p)') \in Nat
    <3>1. Log(p) \in Seq(Lines) /\ Log(p)' \in Seq(Lines)
      <4> DEFINE X == Lines
      <4>1. first[p].lines \in Seq(X) /\ v \in 0..Len(first[p].lines) /\ w \in 0..Len(first[p].lines)
        BY <1>4, <1>5, <2>4, <2>5
      <4> HIDE DEF X
      <4>2. SubSeq(first[p].lines, 1, v) \in Seq(X) /\ SubSeq(first[p].lines, 1, w) \in Seq(X)
        BY <4>1
      <4> QED BY <2>6, <4>2 DEF X
    <3>2. ReplayOrder(Log(p)) \in Seq(LogRecords) /\ ReplayOrder(Log(p)') \in Seq(LogRecords)
      BY <2>7, <3>1, ReplayIs
    <3> QED BY <3>2 DEF Replayed
  <2>11. ASSUME NEW h \in Harps, NEW n \in 1..Len(R), HasIn(streams[p][h], R[n])
         PROVE  n <= Len(Replayed(p)')
    <3>1. n <= Len(Replayed(p)) /\ n \in Int
      BY <2>8, <2>11
    <3> QED BY <2>9, <2>10, <3>1
  <2>12. ASSUME NEW i \in Importers, importer[i].pc \in {"step", "run"}, Head(importer[i].left) = p
         PROVE  Len(importer[i].report.records) <= Len(Replayed(p)')
    <3>1. Len(importer[i].report.records) <= Len(Replayed(p))
      BY <2>8, <2>12 DEF ReadBy
    <3>2. importer[i].report.records \in Seq(LogRecords)
      BY <2>12, FollowsSome
    <3>3. Len(importer[i].report.records) \in Nat
      BY <3>2
    <3> QED BY <2>9, <2>10, <3>1, <3>3
  <2> QED BY <2>7, <2>11, <2>12
<1>9. AgreeFor(first, streams)'
  BY <1>1, <1>4, <1>6, <1>7, <1>8 DEF AgreeFor
<1> QED BY <1>9 DEF AgreeInv

LEMMA UseAgrees ==
  ASSUME ReadInv, TypeInv, LoggedInOrder, NEW first \in LogsAtFirst, AgreeFor(first, streams), Use
  PROVE  AgreeInv'
<1>1. PICK u \in UserCommands :
        /\ \E e : streams' = [streams EXCEPT ![u.project][u.harp] =
                                Append(@, [event |-> e, id |-> User, at |-> UserAt])]
        /\ UNCHANGED <<logs, written, importer>>
  BY DEF Use
<1>2. u.project \in Projects /\ u.harp \in Harps
  BY ImportAssumption
<1>3. PICK p \in Projects, h \in Harps : p = u.project /\ h = u.harp
  BY <1>2
<1>4. PICK e : streams' = [streams EXCEPT ![p][h] =
                             Append(@, [event |-> e, id |-> User, at |-> UserAt])]
  BY <1>1, <1>3
<1> PICK page : page = [event |-> e, id |-> User, at |-> UserAt]
  OBVIOUS
<1>5. streams' = [streams EXCEPT ![p][h] = Append(@, page)] /\ page.id = User
  BY <1>4
<1>6. streams = [q \in Projects |-> [g \in Harps |-> streams[q][g]]]
  BY DEF ReadInv, IInv, StreamsSound
<1>7. streams'[p][h] = Append(streams[p][h], page)
  BY <1>5, <1>6
<1>8. TypedStream(streams[p][h]) /\ StreamKept(streams[p][h], Final(first[p]), h)
  BY DEF TypeInv, StreamsTyped, AgreeFor
<1>9. StreamKept(streams'[p][h], Final(first[p]), h)
  <2>1. PICK s2 : s2 = streams'[p][h]
    OBVIOUS
  <2>2. s2 = Append(streams[p][h], page) /\ page.id = User
    BY <1>5, <1>7, <2>1
  <2>3. StreamKept(s2, Final(first[p]), h)
    BY ONLY <1>8, <2>2, KeptByUser
  <2> QED BY <2>1, <2>3
<1>10. AgreeFor(first, streams')
  BY <1>5, <1>9, AgreeGrown
<1>11. AgreeFor(first, streams)' <=> AgreeFor(first, streams')
  BY <1>1 DEF AgreeFor, Within, Log, Replayed, ReadBy
<1> QED BY <1>10, <1>11 DEF AgreeInv

LEMMA StartImportAgrees ==
  ASSUME ReadInv, NEW first \in LogsAtFirst, AgreeFor(first, streams), NEW i \in Importers,
         StartImport(i)
  PROVE  AgreeInv'
<1>1. UNCHANGED <<logs, written>> /\ streams' = streams
  BY DEF StartImport
<1>2. PICK left : importer' = [importer EXCEPT ![i] = [Idle EXCEPT !.pc = "read", !.left = left]]
  BY DEF StartImport
<1>3. PICK k : k = [Idle EXCEPT !.pc = "read", !.left = left]
  OBVIOUS
<1>4. k.pc = "read"
  BY <1>3 DEF Idle
<1>5. Follows(k, first[Head(k.left)], streams'[Head(k.left)]) /\ \A p \in Projects : ReadBy(k, p)
  BY <1>4, FollowsNothing
<1>6. AgreeFor(first, streams')
  BY <1>1, Zenon
<1> QED BY <1>1, <1>2, <1>3, <1>5, <1>6, AgreeMoves

\* A log's replay begins: an import at its first record, or past all of none.
LEMMA KnowsFirst ==
  ASSUME TypeInv, NEW first \in LogsAtFirst, AgreeFor(first, streams),
         NEW p \in Projects, NEW h \in Harps, NEW report
  PROVE  Knows(report, streams[p][h], Final(first[p]), h, 0)
<1>1. TypedStream(streams[p][h]) /\ FromRecords(streams[p][h], Final(first[p]), h)
  BY DEF TypeInv, StreamsTyped, AgreeFor, StreamKept
<1>2. Caught(streams[p][h], Final(first[p]), h, 0)
  BY <1>1, CaughtFirst
<1>3. Told(report, streams[p][h], Final(first[p]), h, 0)
  BY DEF Told
<1> QED BY <1>2, <1>3 DEF Knows

LEMMA ReadLogAgrees ==
  ASSUME ReadInv, TypeInv, NEW first \in LogsAtFirst, AgreeFor(first, streams),
         NEW i \in Importers, ReadLog(i)
  PROVE  AgreeInv'
<1>1. PICK p : p = Project(i)
  OBVIOUS
<1>2. UNCHANGED <<logs, written>> /\ streams' = streams
  BY DEF ReadLog
<1>3. AgreeFor(first, streams')
  BY <1>2, Zenon
<1>4. importer[i].left # <<>> => p \in Projects
  BY <1>1, FollowsSome DEF Project
<1>5. IsImport(importer[i])
  BY DEF ReadInv, IInv, ImportSound
<1>6. ASSUME importer[i].left # <<>>, logs[p] # NoLog, Readable(Log(p))
      PROVE  /\ Replayed(p) \in Seq(LogRecords)
             /\ Begins(Replayed(p), Final(first[p])) /\ first[p].lines # NoLog
  <2>1. p \in Projects
    BY <1>4, <1>6
  <2>2. Log(p) \in Seq(Lines)
    BY <1>6, <2>1, LogIs DEF ReadInv
  <2>3. Replayed(p) \in Seq(LogRecords)
    BY <1>6, <2>2, ReplayIs DEF Replayed
  <2>4. Within(p, Final(first[p]), streams[p]) /\ logs[p] = first[p].lines
    BY <2>1 DEF AgreeFor
  <2> QED BY <1>6, <2>3, <2>4 DEF Within
<1>7. CASE importer[i].left = <<>> /\ importer' = [importer EXCEPT ![i].pc = "done"]
  <2> DEFINE k == [importer[i] EXCEPT !.pc = "done"]
  <2>1. importer' = [importer EXCEPT ![i] = k]
    BY <1>7
  <2>2. k.pc = "done" /\ k.left = <<>>
    BY <1>5, <1>7 DEF IsImport
  <2> HIDE DEF k
  <2>3. Follows(k, first[Head(k.left)], streams'[Head(k.left)]) /\ \A q \in Projects : ReadBy(k, q)
    BY <2>2, FollowsNothing
  <2> QED BY <1>2, <1>3, <2>1, <2>3, AgreeMoves
<1>8. CASE importer[i].left # <<>> /\ NextProject(i, [NewReport EXCEPT !.failed = TRUE])
  <2>1. PICK report : report = [NewReport EXCEPT !.failed = TRUE]
    OBVIOUS
  <2>2. report.failed
    BY <2>1 DEF NewReport
  <2> QED BY <1>2, <1>3, <1>8, <2>1, <2>2, NextProjectAgrees
<1>9. CASE /\ importer[i].left # <<>> /\ logs[p] # NoLog /\ Readable(Log(p))
           /\ NextProject(i, NewReport)
  <2>1. NewReport.records = <<>>
    BY DEF NewReport
  <2>2. p \in Projects /\ first[p].lines # NoLog /\ Len(Final(first[p])) \in Nat
    BY <1>4, <1>6, <1>9 DEF Begins
  <2>3. Begins(<<>>, Final(first[p])) /\ Len(<<>>) = 0
    BY <2>2 DEF Begins
  <2>4. Brought(NewReport, first[p], streams[p])
    BY <2>1, <2>2, <2>3, KnowsFirst DEF Brought
  <2> QED BY <1>1, <1>2, <1>3, <1>9, <2>4, NextProjectAgrees
<1>10. CASE /\ importer[i].left # <<>>
            /\ logs[p] # NoLog /\ Readable(Log(p))
            /\ importer' = [importer EXCEPT
                 ![i].pc = "step", ![i].at = 1, ![i].fold = NewFold,
                 ![i].report = [NewReport EXCEPT !.records = Replayed(p)]]
  <2> DEFINE report == [NewReport EXCEPT !.records = Replayed(p)]
             k == [importer[i] EXCEPT !.pc = "step", !.at = 1, !.fold = NewFold,
                                      !.report = report]
  <2>1. importer' = [importer EXCEPT ![i] = k]
    BY <1>10
  <2>2. report.records = Replayed(p)
    BY DEF NewReport
  <2> HIDE DEF report
  <2>3. /\ k.pc = "step" /\ k.left = importer[i].left /\ k.report = report /\ k.at = 1
        /\ k.fold = NewFold
    BY <1>5 DEF IsImport
  <2> HIDE DEF k
  <2>4. /\ Begins(Replayed(p), Final(first[p])) /\ first[p].lines # NoLog /\ p \in Projects
    BY <1>4, <1>6, <1>10
  <2>5. \A h \in Harps :
          /\ FoldSays(NewFold, Final(first[p]), h, 0)
          /\ Knows(report, streams[p][h], Final(first[p]), h, 0)
          /\ h \notin NewFold.missing
    BY <2>4, KnowsFirst, FoldSaysFirst DEF NewFold
  <2>6. k.at - 1 = 0
    BY <2>3
  <2>7. Midway(k, first[p], streams'[p])
    BY <1>2, <2>2, <2>3, <2>4, <2>5, <2>6 DEF Midway
  <2>8. Follows(k, first[Head(k.left)], streams'[Head(k.left)])
    BY <1>1, <2>3, <2>7 DEF Follows, Project
  <2>9. ASSUME NEW q \in Projects PROVE ReadBy(k, q)
    <3>1. Len(Replayed(p)) <= Len(Replayed(p))
      <4>1. Replayed(p) \in Seq(LogRecords)
        BY <1>6, <1>10
      <4>2. Len(Replayed(p)) \in Nat
        BY <4>1
      <4> QED BY <4>2
    <3> QED BY <1>1, <2>2, <2>3, <3>1 DEF ReadBy, Project
  <2> QED BY <1>2, <1>3, <2>1, <2>8, <2>9, AgreeMoves
<1> QED BY <1>1, <1>7, <1>8, <1>9, <1>10 DEF ReadLog

LEMMA StopAgrees ==
  ASSUME ReadInv, NEW first \in LogsAtFirst, AgreeFor(first, streams), NEW i \in Importers,
         ProjectFails(i) \/ Crash(i)
  PROVE  AgreeInv'
<1>1. UNCHANGED <<logs, written>> /\ streams' = streams
  BY DEF ProjectFails, Crash
<1>2. AgreeFor(first, streams')
  BY <1>1, Zenon
<1>3. CASE ProjectFails(i)
  <2> DEFINE report == [importer[i].report EXCEPT !.failed = TRUE]
  <2>1. importer[i].pc \in {"step", "run"} /\ NextProject(i, report)
    BY <1>3 DEF ProjectFails
  <2>2. IsReport(importer[i].report) /\ importer[i].left # <<>>
    BY <2>1, AtLine, AtRecord DEF ReadInv
  <2>3. report.failed
    BY <2>2 DEF IsReport
  <2> HIDE DEF report
  <2> QED BY <1>1, <1>2, <2>1, <2>2, <2>3, NextProjectAgrees
<1>4. CASE Crash(i)
  <2>1. importer' = [importer EXCEPT ![i] = Idle]
    BY <1>4 DEF Crash
  <2>2. Idle.pc = "idle"
    BY DEF Idle
  <2>3. /\ Follows(Idle, first[Head(Idle.left)], streams'[Head(Idle.left)])
        /\ \A p \in Projects : ReadBy(Idle, p)
    BY <2>2, FollowsNothing
  <2> QED BY <1>1, <1>2, <2>1, <2>3, AgreeMoves
<1> QED BY <1>3, <1>4

LEMMA NextAgrees ==
  ASSUME LoggedInOrder
  PROVE  ReadInv /\ TypeInv /\ AgreeInv /\ [Next]_vars => AgreeInv'
<1> SUFFICES ASSUME ReadInv, TypeInv, AgreeInv, [Next]_vars PROVE AgreeInv'
  OBVIOUS
<1>0. PICK first \in LogsAtFirst : AgreeFor(first, streams)
  BY DEF AgreeInv
<1>1. ASSUME NEW p \in Projects, AppendLine(p) PROVE AgreeInv'
  BY <1>0, <1>1, AppendLineAgrees
<1>2. CASE Use
  BY <1>0, <1>2, UseAgrees
<1>3. ASSUME NEW i \in Importers, StartImport(i) PROVE AgreeInv'
  BY <1>0, <1>3, StartImportAgrees
<1>4. ASSUME NEW i \in Importers, ReadLog(i) PROVE AgreeInv'
  BY <1>0, <1>4, ReadLogAgrees
<1>5. ASSUME NEW i \in Importers, StepRecord(i) PROVE AgreeInv'
  BY <1>0, <1>5, StepRecordAgrees
<1>6. ASSUME NEW i \in Importers, RunRecord(i) PROVE AgreeInv'
  BY <1>0, <1>6, RunRecordAgrees
<1>7. ASSUME NEW i \in Importers, ProjectFails(i) \/ Crash(i) PROVE AgreeInv'
  BY <1>0, <1>7, StopAgrees
<1>8. CASE UNCHANGED vars
  <2>1. AgreeFor(first, streams)' <=> AgreeFor(first, streams)
    BY <1>8 DEF vars, AgreeFor, Within, Log, Replayed, ReadBy
  <2> QED BY <1>0, <2>1 DEF AgreeInv
<1> QED BY <1>1, <1>2, <1>3, <1>4, <1>5, <1>6, <1>7, <1>8 DEF Next

------------------------------------------------------------------------------
(* What the log says of a task, told without the fold.                      *)

LEMMA MinIs ==
  ASSUME NEW S, S \subseteq Int, NEW m \in S, \A k \in S : m <= k
  PROVE  Min(S) = m
<1>1. \A x \in S : (\A y \in S : x =< y) => x = m
  OBVIOUS
<1>2. Min(S) = CHOOSE x \in S : \A y \in S : x =< y
  BY DEF Min
<1> QED BY <1>1, <1>2

LEMMA MaxIs ==
  ASSUME NEW S, S \subseteq Int, NEW m, IsLast(m, S)
  PROVE  Max(S) = m
<1>1. m \in S /\ \A y \in S : m >= y
  BY DEF IsLast
<1>2. \A x \in S : (\A y \in S : x >= y) => x = m
  BY <1>1
<1>3. Max(S) = CHOOSE x \in S : \A y \in S : x >= y
  BY DEF Max
<1> QED BY <1>1, <1>2, <1>3

\* What a replay's first records say, the rest says no otherwise.
LEMMA BeginsSays ==
  ASSUME NEW Q, NEW R, Begins(Q, R), Len(Q) \in Nat, Len(R) \in Nat, NEW h, NEW n, n = Len(Q),
         NEW t, TaskSays(t, R, h, n), Clean(R, h, n)
  PROVE  TaskSays(t, Q, h, n) /\ Clean(Q, h, n)
<1>1. \A m \in 1..n : Q[m] = R[m] /\ m \in 1..Len(R) /\ m \in 1..Len(Q)
  BY DEF Begins
<1>2. \A a \in 1..n : FirstAdd(Q, h, a) <=> FirstAdd(R, h, a)
  <2> SUFFICES ASSUME NEW a \in 1..n PROVE FirstAdd(Q, h, a) <=> FirstAdd(R, h, a)
    OBVIOUS
  <2>1. \A b \in 1..(a - 1) : b \in 1..n
    OBVIOUS
  <2> QED BY <1>1, <2>1 DEF FirstAdd
<1>3. \A m \in 1..n : Takes(Q, h, m) <=> Takes(R, h, m)
  <2> SUFFICES ASSUME NEW m \in 1..n PROVE Takes(Q, h, m) <=> Takes(R, h, m)
    OBVIOUS
  <2>1. \A a \in 1..m : a \in 1..n /\ \A b \in a..(m - 1) : b \in 1..n
    OBVIOUS
  <2> QED BY <1>1, <1>2, <2>1 DEF Takes
<1>4. \A m \in 1..n : \A ops : Says(Q, h, m, ops) = Says(R, h, m, ops)
  <2> SUFFICES ASSUME NEW m \in 1..n, NEW ops PROVE Says(Q, h, m, ops) = Says(R, h, m, ops)
    OBVIOUS
  <2>1. \A k \in 1..m : k \in 1..n
    OBVIOUS
  <2> QED BY <1>1, <1>3, <2>1 DEF Says
<1>5. \A m \in 1..n : \A ops, k : k \in Says(R, h, m, ops) => Q[k] = R[k]
  <2>1. \A m \in 1..n : \A k \in 1..m : k \in 1..n
    OBVIOUS
  <2> QED BY <1>1, <2>1 DEF Says
<1>6. \A m \in 1..n :
        /\ Triggering(Q, h, m) = Triggering(R, h, m)
        /\ Deferrals(Q, h, m) = Deferrals(R, h, m)
  BY <1>4, <1>5 DEF Triggering, Deferrals
<1>7. \A m \in 1..n : \A s : About(Q, h, m, s) = About(R, h, m, s)
  BY <1>4, <1>5 DEF About
<1>8. \A m \in 1..n : TriggeredAt(Q, h, m) <=> TriggeredAt(R, h, m)
  <2>1. \A m \in 1..n : \A k \in 1..m : k \in 1..n
    OBVIOUS
  <2> QED BY <1>1, <1>6, <2>1 DEF TriggeredAt
<1>9. Clean(Q, h, n)
  BY <1>1, <1>3, <1>8 DEF Clean, DefersTask, Unfit
<1>10. Added(Q, h, n) <=> Added(R, h, n)
  BY <1>2 DEF Added
<1>11. CASE n = 0
  <2>1. ~Added(R, h, n) /\ ~Added(Q, h, n)
    BY <1>11 DEF Added
  <2> QED BY <1>9, <2>1 DEF TaskSays
<1>12. CASE n # 0
  <2>1. n \in 1..n
    BY <1>12
  <2>2. TagsAt(Q, h, n) = TagsAt(R, h, n)
    BY <1>1, <1>7, <2>1 DEF TagsAt
  <2>3. \A v : HeldTrigger(Q, h, n, v) <=> HeldTrigger(R, h, n, v)
    BY <1>1, <1>6, <2>1 DEF HeldTrigger
  <2>4. CASE ~Added(R, h, n)
    BY <1>9, <1>10, <2>4 DEF TaskSays
  <2>5. CASE Added(R, h, n)
    <3>1. /\ t.harp_id = h
          /\ \A a \in 1..n : FirstAdd(Q, h, a) => t.created_at = Q[a].ts
      BY <1>1, <1>2, <2>5 DEF TaskSays
    <3>2. \A m \in 1..n : IsLast(m, Says(Q, h, n, {"add", "text"})) => t.text = Q[m].text
      BY <1>1, <1>4, <2>1, <2>5 DEF TaskSays
    <3>3. \A m \in 1..n : IsLast(m, Says(Q, h, n, {"add", "status"})) =>
            /\ t.status = IF Q[m].status = Empty THEN Initial ELSE Q[m].status
            /\ t.status_set_at = Q[m].ts
            /\ Q[m].status # Defers => t.trigger = Empty
            /\ Q[m].status = Defers => HeldTrigger(Q, h, n, t.trigger)
      <4>1. \A m \in 1..n : IsLast(m, Says(R, h, n, {"add", "status"})) =>
              /\ t.status = IF R[m].status = Empty THEN Initial ELSE R[m].status
              /\ t.status_set_at = R[m].ts
              /\ R[m].status # Defers => t.trigger = Empty
              /\ R[m].status = Defers => HeldTrigger(R, h, n, t.trigger)
        BY <2>5 DEF TaskSays
      <4>2. Says(Q, h, n, {"add", "status"}) = Says(R, h, n, {"add", "status"})
        BY <1>4, <2>1
      <4> QED BY <1>1, <2>3, <4>1, <4>2
    <3>4. /\ t.tags = Importable(TagsAt(Q, h, n))
          /\ \A m \in 1..n : IsLast(m, Deferrals(Q, h, n)) => t.deferred_since = Q[m].ts
          /\ Deferrals(Q, h, n) = {} => t.deferred_since = Never
      BY <1>1, <1>6, <2>1, <2>2, <2>5 DEF TaskSays
    <3>5. t.removed <=> Says(Q, h, n, {"remove"}) # {}
      BY <1>4, <2>1, <2>5 DEF TaskSays
    <3> QED BY <1>9, <1>10, <2>5, <3>1, <3>2, <3>3, <3>4, <3>5 DEF TaskSays
  <2> QED BY <2>4, <2>5
<1>13. n \in Nat
  OBVIOUS
<1> QED BY <1>11, <1>12

\* Its records: those it takes, but its removal.
LEMMA MineIs ==
  ASSUME NEW R \in Seq(LogRecords), NEW h, NEW a, FirstAdd(R, h, a)
  PROVE  /\ Min(Adds(R, h)) = a
         /\ Of(R, h).first = a
         /\ Of(R, h).removed \in BOOLEAN
         /\ Of(R, h).removed <=> Says(R, h, Len(R), {"remove"}) # {}
         /\ Of(R, h).mine = {m \in 1..Len(R) : Takes(R, h, m) /\ R[m].op # "remove"}
<1>1. Len(R) \in Nat /\ DOMAIN R = 1..Len(R)
  <2> DEFINE X == LogRecords
  <2>1. R \in Seq(X)
    OBVIOUS
  <2> HIDE DEF X
  <2> QED BY <2>1
<1>2. a \in 1..Len(R) /\ R[a].op = "add" /\ R[a].task = h
      /\ \A b \in 1..(a - 1) : ~IsAdd(R[b], h)
  BY DEF FirstAdd, IsAdd
<1>3. Min(Adds(R, h)) = a
  <2>1. Adds(R, h) \subseteq Int /\ a \in Adds(R, h)
    BY <1>1, <1>2 DEF Adds
  <2>2. ASSUME NEW b \in Adds(R, h) PROVE a <= b
    <3>1. b \in 1..Len(R) /\ IsAdd(R[b], h)
      BY <1>1, <2>2 DEF Adds, IsAdd
    <3>2. b \notin 1..(a - 1)
      BY <1>2, <3>1
    <3> QED BY <1>2, <3>1, <3>2
  <2> QED BY <2>1, <2>2, MinIs
<1>4. PICK removes : removes = {i \in 1..Len(R) : i > a /\ R[i].op = "remove" /\ R[i].task = h}
  OBVIOUS
<1>5. PICK end : end = IF removes = {} THEN Len(R) + 1 ELSE Min(removes)
  OBVIOUS
<1>6. PICK mine : mine = {i \in a..(end - 1) : R[i].task = h /\ (R[i].op = "add" => i = a)}
  OBVIOUS
<1>7. Of(R, h) = [first |-> a, removed |-> removes # {}, mine |-> mine]
  BY <1>1, <1>3, <1>4, <1>5, <1>6 DEF Of
<1>8. /\ end \in Int /\ end > a /\ end <= Len(R) + 1
      /\ end <= Len(R) => end \in removes
      /\ \A i \in removes : end <= i
  <2>1. CASE removes = {}
    BY <1>1, <1>2, <1>5, <2>1
  <2>2. CASE removes # {}
    <3>1. removes \in SUBSET (1..Len(R))
      BY <1>4
    <3>2. PICK m \in removes : \A k \in removes : m <= k
      BY <1>1, <2>2, <3>1, FirstExists
    <3>3. removes \subseteq Int
      BY <3>1
    <3>4. Min(removes) = m
      BY <3>2, <3>3, MinIs
    <3>5. end = m
      BY <1>5, <2>2, <3>4
    <3>6. m \in 1..Len(R) /\ m > a
      BY <1>4, <3>2
    <3> QED BY <1>1, <3>2, <3>5, <3>6
  <2> QED BY <2>1, <2>2
<1>9. Says(R, h, Len(R), {"remove"}) = {}
        <=> \A b \in a..Len(R) : ~(R[b].op = "remove" /\ R[b].task = h)
  <2>1. Len(R) \in 0..Len(R)
    BY <1>1
  <2> QED BY <1>1, <1>2, <2>1, RemovedIs
<1>10. removes = {} <=> \A b \in a..Len(R) : ~(R[b].op = "remove" /\ R[b].task = h)
  <2>1. \A b \in a..Len(R) : b \in 1..Len(R) /\ (b = a \/ b > a)
    BY <1>1, <1>2
  <2>2. \A b \in removes : b \in a..Len(R) /\ R[b].op = "remove" /\ R[b].task = h
    BY <1>1, <1>2, <1>4
  <2>3. ASSUME NEW b \in a..Len(R), R[b].op = "remove", R[b].task = h PROVE b \in removes
    BY <1>2, <1>4, <2>1, <2>3
  <2> QED BY <2>2, <2>3
<1>11. ASSUME NEW m \in mine PROVE m \in 1..Len(R) /\ Takes(R, h, m) /\ R[m].op # "remove"
  <2>1. m \in a..(end - 1) /\ R[m].task = h /\ (R[m].op = "add" => m = a)
    BY <1>6
  <2>2. m \in 1..Len(R) /\ a \in 1..m /\ m < end
    BY <1>1, <1>2, <1>8, <2>1
  <2>3. ASSUME NEW b \in a..m, R[b].op = "remove", R[b].task = h PROVE FALSE
    <3>1. b \in 1..Len(R) /\ b # a
      BY <1>2, <2>2, <2>3
    <3>2. b \in removes
      BY <1>2, <1>4, <2>2, <2>3, <3>1
    <3> QED BY <1>8, <2>2, <3>1, <3>2
  <2>4. \A b \in a..(m - 1) : b \in a..m
    BY <2>2
  <2>5. m \in a..m
    BY <2>2
  <2> QED BY <2>1, <2>2, <2>3, <2>4, <2>5 DEF Takes
<1>12. ASSUME NEW m \in 1..Len(R), Takes(R, h, m), R[m].op # "remove" PROVE m \in mine
  <2>1. PICK c \in 1..m :
          /\ FirstAdd(R, h, c)
          /\ R[m].op = "add" => m = c
          /\ \A b \in c..(m - 1) : ~(R[b].op = "remove" /\ R[b].task = h)
    BY <1>12 DEF Takes
  <2>2. c = a /\ R[m].task = h
    BY <1>12, <2>1, FirstAlone DEF Takes
  <2>3. ~(end <= m)
    <3> SUFFICES ASSUME end <= m PROVE FALSE
      OBVIOUS
    <3>1. end \in removes
      BY <1>1, <1>8
    <3>2. R[end].op = "remove" /\ R[end].task = h
      BY <1>4, <3>1
    <3>3. end # m
      BY <1>12, <3>2
    <3>4. end \in c..(m - 1)
      BY <1>8, <2>2, <3>3
    <3> QED BY <2>1, <3>2, <3>4
  <2>4. m \in a..(end - 1)
    BY <1>8, <2>1, <2>2, <2>3
  <2> QED BY <1>6, <2>1, <2>2, <2>4
<1>13. mine = {m \in 1..Len(R) : Takes(R, h, m) /\ R[m].op # "remove"}
  BY <1>11, <1>12
<1>14. PICK gone \in BOOLEAN : gone <=> removes # {}
  OBVIOUS
<1>15. (removes # {}) = gone
  BY <1>14, Zenon
<1>16. Of(R, h) = [first |-> a, removed |-> gone, mine |-> mine]
  BY <1>7, <1>15
<1>17. gone <=> Says(R, h, Len(R), {"remove"}) # {}
  BY <1>9, <1>10, <1>14
<1> QED BY <1>3, <1>13, <1>16, <1>17

\* What the log says of its task, so.
LEMMA LoggedSays ==
  ASSUME NEW R \in Seq(LogRecords), NEW h, NEW n, n = Len(R), Added(R, h, n), Clean(R, h, n),
         NEW t \in TaskStates, TaskSays(t, R, h, n)
  PROVE  [f \in DOMAIN LoggedTask(R, h) |-> t[f]] = LoggedTask(R, h)
<1>1. n \in Nat /\ Len(R) \in Nat
  <2> DEFINE X == LogRecords
  <2>1. R \in Seq(X)
    OBVIOUS
  <2> HIDE DEF X
  <2> QED BY <2>1
<1>2. PICK a \in 1..n : FirstAdd(R, h, a)
  BY DEF Added
<1>3. PICK o : o = Of(R, h)
  OBVIOUS
<1>4. /\ o.first = a /\ o.removed \in BOOLEAN
      /\ o.removed <=> Says(R, h, n, {"remove"}) # {}
      /\ o.mine = {m \in 1..n : Takes(R, h, m) /\ R[m].op # "remove"}
  BY <1>2, <1>3, MineIs
<1> DEFINE Saying(ops) == {i \in o.mine : R[i].op \in ops \cup {"add"}}
           SaidOf(s) == {i \in Saying({"tag", "untag"}) : R[i].op = "add" \/ s \in R[i].tags}
           triggered == {i \in Saying({"status"}) : R[i].trigger # Empty}
           deferred == {i \in Saying({"status"}) : R[i].status = Defers}
           tagged == {s \in Spellings :
                        R[Max(SaidOf(s))].op # "untag" /\ s \in R[Max(SaidOf(s))].tags}
           status == R[Max(Saying({"status"}))].status
<1>5. LoggedTask(R, h) =
        [text |-> R[Max(Saying({"text"}))].text,
         status |-> IF status = Empty THEN Initial ELSE status,
         trigger |-> IF status = Defers THEN R[Max(triggered)].trigger ELSE Empty,
         tags |-> Importable(tagged),
         created_at |-> R[o.first].ts,
         status_set_at |-> R[Max(Saying({"status"}))].ts,
         deferred_since |-> IF deferred = {} THEN Never ELSE R[Max(deferred)].ts,
         removed |-> o.removed]
  BY <1>3, Zenon DEF LoggedTask
<1>6. Takes(R, h, a) /\ R[a].op = "add"
  <2>1. a \in 1..a /\ \A b \in a..(a - 1) : FALSE
    BY <1>2
  <2> QED BY <1>2, <2>1 DEF FirstAdd, IsAdd, Takes
<1>7. /\ Saying({"text"}) = Says(R, h, n, {"add", "text"})
      /\ Saying({"status"}) = Says(R, h, n, {"add", "status"})
      /\ Saying({"tag", "untag"}) = Says(R, h, n, {"add", "tag", "untag"})
  BY <1>4 DEF Says
<1>8. /\ triggered = Triggering(R, h, n) /\ deferred = Deferrals(R, h, n)
      /\ \A s : SaidOf(s) = About(R, h, n, s)
  BY <1>7 DEF Triggering, Deferrals, About
<1> HIDE DEF Saying, SaidOf, triggered, deferred
<1>9. ASSUME NEW S \in SUBSET (1..n), S # {}
      PROVE  \E m \in 1..n : IsLast(m, S) /\ Max(S) = m /\ \A k : IsLast(k, S) => k = m
  <2>1. PICK m \in 1..n : IsLast(m, S)
    BY <1>1, <1>9, LastExists
  <2>2. S \subseteq Int
    BY <1>9
  <2>3. Max(S) = m
    BY <2>1, <2>2, MaxIs
  <2>4. ASSUME NEW k, IsLast(k, S) PROVE k = m
    <3>1. k \in Int /\ m \in Int /\ k <= m /\ m <= k
      BY <2>1, <2>2, <2>4 DEF IsLast
    <3> QED BY <3>1
  <2> QED BY <2>1, <2>3, <2>4
<1>10. \A ops : "add" \in ops =>
         Says(R, h, n, ops) \in SUBSET (1..n) /\ Says(R, h, n, ops) # {}
  BY <1>2, <1>6 DEF Says
<1>11. PICK w \in 1..n :
         IsLast(w, Says(R, h, n, {"add", "text"})) /\ Max(Says(R, h, n, {"add", "text"})) = w
  BY <1>9, <1>10
<1>12. PICK m \in 1..n :
         IsLast(m, Says(R, h, n, {"add", "status"})) /\ Max(Says(R, h, n, {"add", "status"})) = m
  BY <1>9, <1>10
<1>13. /\ t.created_at = R[a].ts
       /\ t.text = R[w].text
       /\ t.status = IF R[m].status = Empty THEN Initial ELSE R[m].status
       /\ t.status_set_at = R[m].ts
       /\ R[m].status # Defers => t.trigger = Empty
       /\ R[m].status = Defers => HeldTrigger(R, h, n, t.trigger)
       /\ t.tags = Importable(TagsAt(R, h, n))
       /\ \A k \in 1..n : IsLast(k, Deferrals(R, h, n)) => t.deferred_since = R[k].ts
       /\ Deferrals(R, h, n) = {} => t.deferred_since = Never
       /\ t.removed <=> Says(R, h, n, {"remove"}) # {}
  BY <1>2, <1>11, <1>12 DEF TaskSays
<1>14. R[Max(Saying({"text"}))].text = t.text
  BY <1>7, <1>11, <1>13
<1>15. status = R[m].status /\ R[Max(Saying({"status"}))].ts = t.status_set_at
  BY <1>7, <1>12, <1>13
<1>16. (IF status = Empty THEN Initial ELSE status) = t.status
  BY <1>13, <1>15
<1>17. (IF status = Defers THEN R[Max(triggered)].trigger ELSE Empty) = t.trigger
  <2>1. CASE R[m].status # Defers
    BY <1>13, <1>15, <2>1
  <2>2. CASE R[m].status = Defers
    <3>1. Takes(R, h, m) /\ DefersTask(R[m])
      BY <1>12, <2>2 DEF IsLast, Says, DefersTask
    <3>2. PICK k \in 1..m : IsLast(k, Triggering(R, h, m)) /\ R[k].trigger # Blank
      BY <3>1 DEF Clean, TriggeredAt
    <3>3. \A j \in Triggering(R, h, n) : j \in Triggering(R, h, m)
      <4>1. \A j \in Says(R, h, n, {"add", "status"}) : j <= m /\ j \in 1..n
        BY <1>12 DEF IsLast, Says
      <4>2. \A j \in Says(R, h, n, {"add", "status"}) : j \in Says(R, h, m, {"add", "status"})
        BY <4>1 DEF Says
      <4> QED BY <4>2 DEF Triggering
    <3>4. k \in 1..n /\ k \in Triggering(R, h, n)
      <4>1. k \in 1..n
        BY <3>2
      <4> QED BY <3>2, <4>1 DEF IsLast, Triggering, Says
    <3>5. IsLast(k, Triggering(R, h, n))
      BY <3>2, <3>3, <3>4 DEF IsLast
    <3>6. Triggering(R, h, n) \subseteq Int
      BY DEF Triggering, Says
    <3>7. Max(triggered) = k
      BY <1>8, <3>5, <3>6, MaxIs
    <3>8. t.trigger = R[k].trigger
      BY <1>13, <2>2, <3>2, <3>4, <3>5 DEF HeldTrigger, Trimmed
    <3> QED BY <1>15, <2>2, <3>7, <3>8
  <2> QED BY <2>1, <2>2
<1>18. tagged = TagsAt(R, h, n)
  <2> SUFFICES ASSUME NEW s \in Spellings PROVE s \in tagged <=> s \in TagsAt(R, h, n)
    BY DEF TagsAt
  <2>1. About(R, h, n, s) \in SUBSET (1..n) /\ About(R, h, n, s) # {}
    BY <1>2, <1>6 DEF About, Says
  <2>2. PICK k \in 1..n : /\ IsLast(k, About(R, h, n, s)) /\ Max(About(R, h, n, s)) = k
                          /\ \A j : IsLast(j, About(R, h, n, s)) => j = k
    BY <1>9, <2>1
  <2>3. s \in TagsAt(R, h, n) <=> R[k].op # "untag" /\ s \in R[k].tags
    BY <2>2 DEF TagsAt
  <2>4. Max(SaidOf(s)) = k
    BY <1>8, <2>2
  <2> QED BY <2>3, <2>4
<1>19. R[o.first].ts = t.created_at
  BY <1>4, <1>13
<1>20. (IF deferred = {} THEN Never ELSE R[Max(deferred)].ts) = t.deferred_since
  <2>1. CASE deferred = {}
    BY <1>8, <1>13, <2>1
  <2>2. CASE deferred # {}
    <3>1. Deferrals(R, h, n) \in SUBSET (1..n) /\ Deferrals(R, h, n) # {}
      BY <1>8, <2>2 DEF Deferrals, Says
    <3>2. PICK k \in 1..n : IsLast(k, Deferrals(R, h, n)) /\ Max(Deferrals(R, h, n)) = k
      BY <1>9, <3>1
    <3> QED BY <1>8, <1>13, <2>2, <3>2
  <2> QED BY <2>1, <2>2
<1>21. o.removed = t.removed
  <2>1. t.removed \in BOOLEAN
    BY DEF TaskStates
  <2>2. o.removed <=> t.removed
    BY <1>4, <1>13
  <2>3. o.removed \in BOOLEAN
    BY <1>4
  <2> QED BY <2>1, <2>2, <2>3
<1> HIDE DEF tagged, status
<1>22. LoggedTask(R, h) =
         [text |-> t.text, status |-> t.status, trigger |-> t.trigger, tags |-> t.tags,
          created_at |-> t.created_at, status_set_at |-> t.status_set_at,
          deferred_since |-> t.deferred_since, removed |-> t.removed]
  <2>1. Importable(tagged) = t.tags
    BY <1>13, <1>18
  <2> QED BY <1>5, <1>14, <1>15, <1>16, <1>17, <1>19, <1>20, <1>21, <2>1, Zenon
<1> QED BY <1>22

------------------------------------------------------------------------------
(* What it comes to.                                                        *)

LEMMA AgreesAsLogged ==
  ASSUME LoggedInOrder, DeferralsAlike, ReadInv, TypeInv, AgreeInv
  PROVE  ImportedAsLogged
<1> SUFFICES ASSUME NEW i \in Importers, Over(i), NEW h \in Harps,
                    Untouched(Project(i), h), LeftOutOf(importer[i].report, h) = {}
             PROVE  LET p == Project(i)
                        records == importer[i].report.records IN
                    IF Adds(records, h) = {} THEN streams[p][h] = <<>>
                    ELSE [f \in DOMAIN LoggedTask(records, h) |-> Task(p, h)[f]]
                           = LoggedTask(records, h)
  BY DEF ImportedAsLogged
<1>1. PICK first \in LogsAtFirst : AgreeFor(first, streams)
  BY DEF AgreeInv
<1>2. PICK p, Q, report, s :
        /\ p = Project(i) /\ report = importer[i].report /\ Q = report.records
        /\ s = streams[p][h]
  OBVIOUS
<1>3. /\ importer[i].pc = "done" /\ importer[i].left # <<>> /\ ~report.failed
      /\ Readable(Log(p)) /\ Q = Replayed(p)
  BY <1>2 DEF Over
<1>4. p \in Projects /\ Q \in Seq(LogRecords)
  BY <1>2, <1>3, FollowsSome DEF Project
<1>5. PICK R, n : R = Final(first[p]) /\ n = Len(Q)
  OBVIOUS
<1>6. IsReplay(R)
  BY <1>4, <1>5, FinalIs DEF IsReplay
<1>7. Len(R) \in Nat /\ n \in Nat /\ Len(Q) \in Nat
  BY <1>4, <1>5, <1>6 DEF IsReplay
<1>8. Brought(report, first[p], streams[p])
  <2>1. Follows(importer[i], first[p], streams[p])
    BY <1>1, <1>2 DEF AgreeFor, Project
  <2> QED BY <1>2, <1>3, <2>1 DEF Follows
<1>9. first[p].lines # NoLog /\ Begins(Q, R) /\ Knows(report, s, R, h, n)
  BY <1>2, <1>5, <1>8 DEF Brought
<1>10. \A m \in 1..Len(R) : HasIn(s, R[m]) => m <= n
  <2>1. Within(p, R, streams[p]) /\ logs[p] # NoLog
    BY <1>1, <1>4, <1>5, <1>9 DEF AgreeFor
  <2> QED BY <1>2, <1>3, <1>5, <2>1 DEF Within
<1>11. Unshared(s)
  BY <1>2 DEF Untouched, Unshared
<1>12. n <= Len(R)
  BY <1>5, <1>9 DEF Begins
\* All its records were brought over.
<1>13. Clean(R, h, n)
  <2> SUFFICES ASSUME NEW m \in 1..n, Takes(R, h, m)
               PROVE  ~Unfit(R[m]) /\ (DefersTask(R[m]) => TriggeredAt(R, h, m))
    BY DEF Clean
  <2>1. Told(report, s, R, h, n) /\ LeftOutOf(report, h) = {}
    BY <1>2, <1>9 DEF Knows
  <2>2. ~Unfit(R[m]) /\ ~(NeverTriggered(R, h) /\ DefersTask(R[m]))
    BY <1>11, <2>1 DEF Told
  <2>3. m \in 1..Len(R)
    BY <1>7, <1>12
  <2>4. \/ NeverTriggered(R, h)
        \/ \A k \in 1..Len(R) : Takes(R, h, k) /\ DefersTask(R[k]) => TriggeredAt(R, h, k)
    BY <1>4, <1>5 DEF DeferralsAlike
  <2> QED BY <2>2, <2>3, <2>4
<1>14. ~Ahead(s, R, n)
  <2> SUFFICES ASSUME NEW m \in (n + 1)..Len(R), HasIn(s, R[m]) PROVE FALSE
    BY DEF Ahead
  <2>1. m \in 1..Len(R) /\ ~(m <= n)
    BY <1>7
  <2> QED BY <1>10, <2>1
<1>15. PICK t : t = Folded(s)
  OBVIOUS
<1>16. TaskSays(t, R, h, n)
  BY <1>9, <1>11, <1>13, <1>14, <1>15 DEF Knows, Caught
<1>17. TaskSays(t, Q, h, n) /\ Clean(Q, h, n)
  BY <1>5, <1>7, <1>9, <1>13, <1>16, BeginsSays
<1>18. TypedStream(s)
  BY <1>2, <1>4 DEF TypeInv, StreamsTyped
<1>19. DOMAIN Q = 1..n
  <2> DEFINE X == LogRecords
  <2>1. Q \in Seq(X)
    BY <1>4
  <2> HIDE DEF X
  <2> QED BY <1>5, <2>1
<1>20. Adds(Q, h) = {} <=> ~Added(Q, h, n)
  <2>1. n \in 0..Len(Q)
    BY <1>5, <1>7
  <2>2. Added(Q, h, n) <=> \E b \in 1..n : IsAdd(Q[b], h)
    BY <1>7, <2>1, AddedIs
  <2> QED BY <1>19, <2>2 DEF Adds, IsAdd
<1>21. CASE Adds(Q, h) = {}
  <2>1. t = NoTask
    BY <1>17, <1>20, <1>21 DEF TaskSays
  <2>2. s = <<>>
    <3>1. NoTask.harp_id = Empty
      BY DEF NoTask
    <3> QED BY <1>15, <1>18, <2>1, <3>1 DEF TypedStream, WholeTask
  <2> QED BY <1>2, <1>21, <2>2
<1>22. CASE Adds(Q, h) # {}
  <2>1. Added(Q, h, n)
    BY <1>20, <1>22
  <2>2. s # <<>>
    <3> SUFFICES ASSUME s = <<>> PROVE FALSE
      OBVIOUS
    <3>1. t = NoTask
      BY <1>15, NothingFolded
    <3>2. t.harp_id = h /\ h # Empty
      BY <1>17, <2>1, NamesAssumption DEF TaskSays
    <3> QED BY <3>1, <3>2 DEF NoTask
  <2>3. t \in TaskStates
    BY <1>15, <1>18, <2>2 DEF TypedStream, WholeTask
  <2>4. [f \in DOMAIN LoggedTask(Q, h) |-> t[f]] = LoggedTask(Q, h)
    BY <1>4, <1>5, <1>17, <2>1, <2>3, LoggedSays
  <2>5. Task(p, h) = t
    BY <1>2, <1>15 DEF Task
  <2> QED BY <1>2, <1>22, <2>4, <2>5
<1> QED BY <1>21, <1>22

\* After an import of the whole log, a task only imports wrote, all of whose
\* records were brought over, is what the log says it is; and a harp the log
\* adds nothing to has no stream (import/tasks::apply and its fold).  So for
\* logs whose later lines are of no earlier instant, and tasks whose deferrals
\* all have a trigger, or none.
THEOREM ImportsAsLogged ==
  ASSUME LoggedInOrder, DeferralsAlike PROVE Spec => []ImportedAsLogged
<1>1. Init => TypeInv /\ AgreeInv
  BY InitTyped, InitAgrees
<1>2. ReadInv /\ TypeInv /\ AgreeInv /\ [Next]_vars => TypeInv' /\ AgreeInv'
  BY NextImportTyped, NextAgrees
<1>3. ReadInv /\ TypeInv /\ AgreeInv => ImportedAsLogged
  BY AgreesAsLogged
<1> QED BY <1>1, <1>2, <1>3, SpecReads, PTL DEF Spec
=============================================================================
