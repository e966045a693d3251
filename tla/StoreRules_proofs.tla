-------------------------- MODULE StoreRules_proofs --------------------------
(***************************************************************************)
(* For any rules, requests, files and processes, dying anywhere:           *)
(*                                                                         *)
(*   - what a config file declared is not lost on its way into the store,  *)
(*     as long as the file is not edited while an import runs.  An import  *)
(*     declares what it read of the file and then takes the moved keys out *)
(*     of the file as it is by then; the invariant (IInv) carries what it  *)
(*     read over the steps between;                                        *)
(*   - a store's rules are one book that declares alone change, as         *)
(*     RuleBook has it (BookInv).  It takes a permit that no one removes:  *)
(*     a store left with none is read as one from before permits were      *)
(*     presences, whose seed's permits come back;                          *)
(*   - a write is judged by rules the store had while its call ran         *)
(*     (WriteInv), and leaves a task one value of each scalar (OneInv).    *)
(*     What was judged is sent at the head it was judged at, so what was   *)
(*     so of the task then is so as it is written.                         *)
(***************************************************************************)
EXTENDS StoreRules, FiniteSetTheorems, FunctionTheorems, TLAPS

Imports == {"import", "importing"}

\* A call, a schema and a file have their fields.
IsDeclaration(d) == d \in [add: {d.add}, remove: {d.remove}]
IsCall(k) ==
  /\ k \in [pc: {k.pc}, op: {k.op}, harp: {k.harp}, add: {k.add}, remove: {k.remove},
            declare: {k.declare}, rules: {k.rules}, schema: {k.schema}, shaped: {k.shaped},
            answer: {k.answer}]
  /\ IsDeclaration(k.declare)
IsFile(f) == f \in [schema: {f.schema}, permits: {f.permits}, rest: {f.rest}]

SchemaSound(s) ==
  /\ s \in [tags: {s.tags}, declared: BOOLEAN, head: Nat]
  /\ ~s.declared => s.tags = {}

\* Permits that are presences, which an allowlist keeps.
Present(tags) == \A tag \in tags : tag.facet = "permit" => tag.value = NoValue

\* A schema comes after another if it is that one or has a later head.
Follows(s, t) == t = s \/ t.head > s.head

\* Call k, by schema s, file f and what is owed: an import that runs declares
\* all the file still holds; one about to take it out has declared all that is
\* owed; and a seeding sent at the schema's head was shaped on that schema.
CallSound(k, s, f, owes) ==
  /\ IsCall(k)
  /\ k.pc # "idle" => k.op \in Operations \cup {"importing"}
  /\ k.pc \in {"seeded", "retire"} => k.op \in Imports
  /\ k.pc # "idle" /\ k.op \in Imports => ImportedTags(f) \subseteq k.declare.add
  /\ k.pc = "seed_commit" => k.schema.head \in Nat /\ Follows(k.schema, s)
  /\ k.pc = "retire" => owes \subseteq s.tags

OwedHeld == owed \subseteq schema.tags \cup ImportedTags(file)

IInv ==
  /\ calls = [c \in Procs |-> calls[c]]
  /\ \A c \in Procs : CallSound(calls[c], schema, file, owed)
  /\ SchemaSound(schema)
  /\ IsFile(file)
  /\ Present(owed)
  /\ OwedHeld

------------------------------------------------------------------------------
(* Rules.                                                                   *)

\* A file without the moved keys imports nothing.
LEMMA NothingMoved ==
  ASSUME NEW f, IsFile(f)
  PROVE  IsFile(WithoutMoved(f)) /\ ImportedTags(WithoutMoved(f)) = {}
<1>1. WithoutMoved(f) \in [schema: {{}}, permits: {{}}, rest: {f.rest}]
  BY DEF IsFile, WithoutMoved
<1> QED BY <1>1 DEF IsFile, ImportedTags, Constrained, Facet

\* What a file imports is kept by an allowlist.
LEMMA ImportedPresent ==
  ASSUME NEW f \in Files
  PROVE  IsFile(f) /\ Present(ImportedTags(f))
<1>1. /\ IsFile(f)
      /\ \A old \in f.schema : old.facet = "permit" => old.values = {NoValue}
  BY RequestsAssumption DEF IsFile
<1>2. ASSUME NEW tag \in ImportedTags(f), tag.facet = "permit"
      PROVE  tag.value = NoValue
  <2>1. CASE \E p : tag = PermitTag(p)
    BY <2>1 DEF PermitTag
  <2>2. CASE \E old \in f.schema : \E v \in old.values :
               tag = [facet |-> old.facet, of |-> old.of, value |-> v]
    BY <1>1, <1>2, <2>2
  <2> QED BY <2>1, <2>2 DEF ImportedTags
<1> QED BY <1>1, <1>2 DEF Present

\* What a file imports is of config tags.
LEMMA ImportedTyped == ASSUME NEW f \in Files PROVE ImportedTags(f) \subseteq ConfigTags
<1> DEFINE rules == UNION {{[facet |-> old.facet, of |-> old.of, value |-> v] : v \in old.values} :
                             old \in f.schema}
<1>1. rules \subseteq ConfigTags
  BY TypesAssumption
<1>2. Constrained(rules) \cup f.permits \subseteq Patterns
  BY <1>1, TypesAssumption DEF Constrained, Facet, ConfigTags
<1>3. \A p \in Patterns : PermitTag(p) \in ConfigTags
  BY DEF PermitTag, ConfigTags
<1>4. ImportedTags(f) = rules \cup {PermitTag(p) : p \in Constrained(rules) \cup f.permits}
  BY DEF ImportedTags
<1> HIDE DEF rules
<1> QED BY <1>1, <1>2, <1>3, <1>4

\* Read as an allowlist's, rules keep what they hold of presences.
LEMMA AllowlistedKeeps ==
  ASSUME NEW rules, NEW tags, tags \subseteq rules, Present(tags)
  PROVE  tags \subseteq Allowlisted(rules)
<1>1. CASE \E tag \in Facet(rules, "permit") : tag.value = NoValue
  BY <1>1 DEF Allowlisted
<1>2. CASE ~ \E tag \in Facet(rules, "permit") : tag.value = NoValue
  <2>1. \A tag \in tags : tag \notin Facet(rules, "permit")
    BY <1>2 DEF Present, Facet
  <2> QED BY <1>2, <2>1 DEF Allowlisted
<1> QED BY <1>1, <1>2

LEMMA RulesKeep ==
  ASSUME NEW s, SchemaSound(s), NEW tags, tags \subseteq s.tags, Present(tags)
  PROVE  tags \subseteq RulesOf(s)
BY AllowlistedKeeps DEF RulesOf, SchemaSound

\* A declare leaves a schema that comes after, holding what it makes of it.
LEMMA DeclaredSound ==
  ASSUME NEW s, SchemaSound(s), NEW d
  PROVE  /\ SchemaSound(Declared(s, d))
         /\ Follows(s, Declared(s, d))
         /\ Declared(s, d).tags = TagsAfter(s, d)
BY DEF SchemaSound, Declared, Follows

\* A seeding takes away nothing a presence declared.
LEMMA SeedingKeeps ==
  ASSUME NEW s, SchemaSound(s), NEW tags, tags \subseteq s.tags, Present(tags)
  PROVE  tags \subseteq Declared(s, Seeding(s)).tags
<1>1. tags \subseteq RulesOf(s)
  BY RulesKeep
<1>2. Declared(s, Seeding(s)).tags = TagsAfter(s, Seeding(s))
  BY DeclaredSound
<1> QED BY <1>1, <1>2 DEF TagsAfter, Seeding

------------------------------------------------------------------------------
(* Calls.                                                                   *)

\* A call is as sound by what comes after, if the file imports no more and
\* what an import has declared of what is owed stays declared.
LEMMA StaysSound ==
  ASSUME NEW k, NEW s, NEW t, NEW f, NEW g, NEW owes, NEW owing,
         CallSound(k, s, f, owes), SchemaSound(s), SchemaSound(t), Follows(s, t),
         ImportedTags(g) \subseteq ImportedTags(f),
         owes \subseteq s.tags => owing \subseteq t.tags
  PROVE  CallSound(k, t, g, owing)
BY DEF CallSound, Follows, SchemaSound

\* A step of c's call, leaving it sound, leaves every call sound.
LEMMA StepSound ==
  ASSUME IInv, NEW c \in Procs, NEW k,
         calls' = [calls EXCEPT ![c] = k],
         CallSound(k, schema', file', owed'),
         SchemaSound(schema'), Follows(schema, schema'),
         ImportedTags(file') \subseteq ImportedTags(file),
         owed \subseteq schema.tags => owed' \subseteq schema'.tags
  PROVE  /\ calls' = [d \in Procs |-> calls'[d]]
         /\ \A d \in Procs : CallSound(calls'[d], schema', file', owed')
<1>1. \A d \in Procs : calls'[d] = IF d = c THEN k ELSE calls[d]
  BY DEF IInv
<1>2. \A d \in Procs : CallSound(calls[d], schema', file', owed')
  BY StaysSound DEF IInv
<1> QED BY <1>1, <1>2 DEF IInv

\* A step that changes no schema, file or debt keeps the invariant if it leaves
\* its call sound.
LEMMA CallMoves ==
  ASSUME IInv, NEW c \in Procs, NEW k,
         Goes(c, k), CallSound(k, schema, file, owed),
         UNCHANGED <<schema, file, owed>>
  PROVE  IInv'
<1>1. /\ calls' = [d \in Procs |-> calls'[d]]
      /\ \A d \in Procs : CallSound(calls'[d], schema', file', owed')
  BY StepSound DEF IInv, Goes, Follows
<1> QED BY <1>1 DEF IInv, OwedHeld

\* A call that is over is sound whatever there is.
LEMMA EndedSound ==
  ASSUME NEW said, NEW s, NEW f, NEW owes
  PROVE  CallSound([Idle EXCEPT !.answer = said], s, f, owes)
BY DEF CallSound, IsCall, IsDeclaration, Idle, NoDeclare, Unread, Unshaped

\* A call that goes on to a step without a promise of its own is sound there.
LEMMA GoesOnSound ==
  ASSUME NEW k, NEW s, NEW f, NEW owes, CallSound(k, s, f, owes), k.pc # "idle",
         NEW pc \in {"rules", "read", "list", "seed", "judge", "commit", "declare"}
  PROVE  CallSound([k EXCEPT !.pc = pc], s, f, owes)
BY DEF CallSound, IsCall

\* Where a call goes once the stream is seeded.
LEMMA SeededSound ==
  ASSUME NEW c \in Procs, NEW rules, NEW s, NEW f, NEW owes,
         CallSound(calls[c], s, f, owes), calls[c].pc \in {"seed", "seed_commit"},
         Seeded(c, rules)
  PROVE  \E k : Goes(c, k) /\ CallSound(k, s, f, owes)
<1> DEFINE call == [calls[c] EXCEPT !.rules = rules]
<1>1. CASE call.op \in {"add", "retag"}
  <2>1. CallSound([call EXCEPT !.pc = "judge"], s, f, owes)
    BY <1>1 DEF CallSound, IsCall
  <2> QED BY <1>1, <2>1 DEF Seeded
<1>2. CASE call.op \in {"declare", "revoke", "importing"}
  <2>1. CallSound([call EXCEPT !.pc = "declare"], s, f, owes)
    BY <1>2 DEF CallSound, IsCall
  <2> QED BY <1>2, <2>1 DEF Seeded
<1>3. CASE call.op = "import"
  <2>1. CallSound([call EXCEPT !.pc = "seeded"], s, f, owes)
    BY <1>3 DEF CallSound, IsCall, Imports
  <2> QED BY <1>3, <2>1 DEF Seeded
<1>4. CASE call.op = "export"
  <2>1. CallSound([Idle EXCEPT !.answer = "done"], s, f, owes)
    BY EndedSound
  <2> QED BY <1>4, <2>1 DEF Seeded, Ends
<1> QED
  <2>1. call.op = calls[c].op
    BY DEF CallSound, IsCall
  <2> QED BY <1>1, <1>2, <1>3, <1>4, <2>1 DEF CallSound, Operations

\* A request is a call to be.
LEMMA RequestSound ==
  ASSUME NEW c \in Procs, NEW r \in Requests[c]
  PROVE  IsCall(r) /\ r.op \in Operations
BY RequestsAssumption DEF IsCall, IsDeclaration

------------------------------------------------------------------------------
(* The steps.                                                               *)

LEMMA BeginSteps ==
  ASSUME IInv, NEW c \in Procs, NEW r \in Requests[c], Begin(c, r)
  PROVE  IInv'
<1>1. UNCHANGED <<schema, file, owed>>
  BY DEF Begin
<1>2. CASE Ends(c, "refused")
  BY <1>1, <1>2, EndedSound, CallMoves DEF Ends
<1>3. ASSUME NEW pc \in {"rules", "read", "seed"}, Goes(c, [r EXCEPT !.pc = pc])
      PROVE  IInv'
  <2>1. IsCall(r) /\ r.op \in Operations /\ r.op # "import"
    BY RequestSound DEF Begin
  <2>2. CallSound([r EXCEPT !.pc = pc], schema, file, owed)
    BY <2>1 DEF CallSound, IsCall, Imports, Operations
  <2> QED BY <1>1, <1>3, <2>2, CallMoves
<1> QED BY <1>2, <1>3 DEF Begin

LEMMA BeginImportSteps ==
  ASSUME IInv, NEW c \in Procs, NEW r \in Requests[c], BeginImport(c, r)
  PROVE  IInv'
<1> DEFINE k == [r EXCEPT !.pc = "seed", !.declare.add = ImportedTags(file)]
<1>1. IsCall(r) /\ r.op = "import"
  BY RequestSound DEF BeginImport
<1>2. CallSound(k, schema, file, owed)
  BY <1>1 DEF CallSound, IsCall, IsDeclaration, Operations
<1>3. Goes(c, k) /\ UNCHANGED <<schema, file, owed>>
  BY DEF BeginImport
<1> QED BY <1>2, <1>3, CallMoves

\* A call reads or judges, and goes on or ends; or a task's tags change.
LEMMA ReadingSteps ==
  ASSUME IInv, NEW c \in Procs,
         \/ AddJudged(c) \/ RevokeRead(c) \/ RevokeList(c) \/ Judge(c) \/ CommitTask(c) \/ Fail(c)
  PROVE  IInv'
<1>1. UNCHANGED <<schema, file, owed>>
  BY DEF AddJudged, RevokeRead, RevokeList, Judge, CommitTask, Fail
<1>2. calls[c].pc # "idle" /\ CallSound(calls[c], schema, file, owed)
  BY DEF IInv, AddJudged, RevokeRead, RevokeList, Judge, CommitTask, Fail
<1>3. ASSUME NEW said, Ends(c, said)
      PROVE  IInv'
  BY <1>1, <1>3, EndedSound, CallMoves DEF Ends
<1>4. ASSUME NEW pc \in {"list", "seed", "judge"}, To(c, pc)
      PROVE  IInv'
  BY <1>1, <1>2, <1>4, GoesOnSound, CallMoves DEF To
<1>5. CASE Judge(c)
  <2>1. ASSUME NEW shaped, Goes(c, [calls[c] EXCEPT !.pc = "commit", !.shaped = shaped])
        PROVE  IInv'
    <3>1. CallSound([calls[c] EXCEPT !.pc = "commit", !.shaped = shaped], schema, file, owed)
      BY <1>2 DEF CallSound, IsCall
    <3> QED BY <1>1, <2>1, <3>1, CallMoves
  <2> QED BY <1>3, <1>5, <2>1 DEF Judge
<1>6. CASE CommitTask(c)
  BY <1>3, <1>4, <1>6 DEF CommitTask, Retag
<1> QED BY <1>3, <1>4, <1>5, <1>6 DEF AddJudged, RevokeRead, RevokeList, Fail

LEMMA ReadSchemaSteps ==
  ASSUME IInv, NEW c \in Procs, ReadSchema(c)
  PROVE  IInv'
<1>1. UNCHANGED <<schema, file, owed>>
  BY DEF ReadSchema
<1>2. calls[c].pc = "seed" /\ CallSound(calls[c], schema, file, owed)
  BY DEF IInv, ReadSchema
<1> DEFINE k == [calls[c] EXCEPT !.pc = "seed_commit", !.schema = schema]
<1>3. CASE Goes(c, k)
  <2>1. schema.head \in Nat
    BY DEF IInv, SchemaSound
  <2>2. CallSound(k, schema, file, owed)
    BY <1>2, <2>1 DEF CallSound, IsCall, Follows
  <2> QED BY <1>1, <1>3, <2>2, CallMoves
<1>4. CASE Seeded(c, RulesOf(schema))
  <2>1. PICK sound : Goes(c, sound) /\ CallSound(sound, schema, file, owed)
    BY <1>2, <1>4, SeededSound
  <2> QED BY <1>1, <2>1, CallMoves
<1> QED BY <1>3, <1>4 DEF ReadSchema

LEMMA ImportSeededSteps ==
  ASSUME IInv, NEW c \in Procs, ImportSeeded(c)
  PROVE  IInv'
<1>1. UNCHANGED <<schema, file, owed>>
  BY DEF ImportSeeded
<1>2. calls[c].pc = "seeded" /\ CallSound(calls[c], schema, file, owed)
  BY DEF IInv, ImportSeeded
<1>3. CASE calls[c].declare.add = {} /\ To(c, "retire")
  <2>1. owed \subseteq schema.tags
    BY <1>2, <1>3 DEF IInv, OwedHeld, CallSound
  <2>2. CallSound([calls[c] EXCEPT !.pc = "retire"], schema, file, owed)
    BY <1>2, <2>1 DEF CallSound, IsCall
  <2> QED BY <1>1, <1>3, <2>2, CallMoves DEF To
<1> DEFINE k == [calls[c] EXCEPT !.pc = "seed", !.op = "importing"]
<1>4. CASE Goes(c, k)
  <2>1. CallSound(k, schema, file, owed)
    BY <1>2 DEF CallSound, IsCall
  <2> QED BY <1>1, <1>4, <2>1, CallMoves
<1> QED BY <1>3, <1>4 DEF ImportSeeded

\* A seeding lands only on the schema it was shaped on, and takes away nothing
\* that is owed.
LEMMA SeedCommitSteps ==
  ASSUME IInv, NEW c \in Procs, SeedCommit(c)
  PROVE  IInv'
<1>1. calls[c].pc = "seed_commit" /\ CallSound(calls[c], schema, file, owed)
  BY DEF IInv, SeedCommit
<1>2. UNCHANGED <<file, owed>>
  BY DEF SeedCommit
<1>3. CASE schema.head # calls[c].schema.head /\ To(c, "seed") /\ UNCHANGED schema
  BY <1>1, <1>2, <1>3, GoesOnSound, CallMoves DEF To
<1>4. CASE /\ schema.head = calls[c].schema.head
           /\ Schema(Declared(schema, Seeding(calls[c].schema)))
           /\ Seeded(c, RulesOf(schema'))
  <2>1. schema' = Declared(schema, Seeding(schema))
    BY <1>1, <1>4 DEF IInv, CallSound, Follows, SchemaSound, Schema
  <2>2. SchemaSound(schema) /\ SchemaSound(schema') /\ Follows(schema, schema')
    BY <2>1, DeclaredSound DEF IInv
  <2>3. \A tags : tags \subseteq schema.tags /\ Present(tags) => tags \subseteq schema'.tags
    BY <2>1, <2>2, SeedingKeeps
  <2>4. owed \subseteq schema.tags => owed' \subseteq schema'.tags
    BY <1>2, <2>3 DEF IInv
  <2>5. CallSound(calls[c], schema', file', owed')
    BY <1>1, <1>2, <2>2, <2>4, StaysSound
  <2>6. PICK k : Goes(c, k) /\ CallSound(k, schema', file', owed')
    BY <1>1, <1>4, <2>5, SeededSound
  <2>7. /\ calls' = [d \in Procs |-> calls'[d]]
        /\ \A d \in Procs : CallSound(calls'[d], schema', file', owed')
    BY <1>2, <2>2, <2>4, <2>6, StepSound DEF Goes
  <2>8. OwedHeld'
    <3>1. owed \cap schema.tags \subseteq schema'.tags
      BY <2>3 DEF IInv, Present
    <3> QED BY <1>2, <3>1 DEF IInv, OwedHeld
  <2> QED BY <1>2, <2>2, <2>7, <2>8 DEF IInv
<1> QED BY <1>2, <1>3, <1>4 DEF SeedCommit

\* A declare takes away what is owed only as it takes it off the debt; an
\* import's leaves nothing owed out of the store.
LEMMA DeclareCommitSteps ==
  ASSUME IInv, NEW c \in Procs, DeclareCommit(c)
  PROVE  IInv'
<1> DEFINE declare == calls[c].declare
<1>1. calls[c].pc = "declare" /\ CallSound(calls[c], schema, file, owed)
  BY DEF IInv, DeclareCommit
<1>2. /\ schema' = Declared(schema, declare)
      /\ owed' = owed \ declare.remove
      /\ UNCHANGED file
  BY DEF DeclareCommit, Schema
<1>3. /\ SchemaSound(schema) /\ SchemaSound(schema') /\ Follows(schema, schema')
      /\ schema'.tags = (schema.tags \cup declare.add) \ declare.remove
  BY <1>2, DeclaredSound DEF IInv, TagsAfter
<1>4. owed \subseteq schema.tags => owed' \subseteq schema'.tags
  BY <1>2, <1>3
<1>5. PICK k : Goes(c, k) /\ CallSound(k, schema', file', owed')
  <2>1. CASE calls[c].op = "importing" /\ To(c, "retire")
    <3>1. owed' \subseteq schema'.tags
      BY <1>1, <1>2, <1>3, <2>1 DEF IInv, OwedHeld, CallSound, Imports
    <3>2. CallSound([calls[c] EXCEPT !.pc = "retire"], schema', file', owed')
      BY <1>1, <1>2, <2>1, <3>1 DEF CallSound, IsCall, Imports
    <3> QED BY <2>1, <3>2 DEF To
  <2>2. CASE Ends(c, "done")
    BY <2>2, EndedSound DEF Ends
  <2> QED BY <2>1, <2>2 DEF DeclareCommit
<1>6. /\ calls' = [d \in Procs |-> calls'[d]]
      /\ \A d \in Procs : CallSound(calls'[d], schema', file', owed')
  BY <1>2, <1>3, <1>4, <1>5, StepSound DEF Goes
<1>7. Present(owed') /\ OwedHeld'
  BY <1>2, <1>3 DEF IInv, OwedHeld, Present
<1> QED BY <1>2, <1>3, <1>6, <1>7 DEF IInv

\* What leaves the file is in the store.
LEMMA RetireSteps ==
  ASSUME IInv, NEW c \in Procs, Retire(c)
  PROVE  IInv'
<1>1. calls[c].pc = "retire" /\ CallSound(calls[c], schema, file, owed)
  BY DEF IInv, Retire
<1>2. /\ file' = WithoutMoved(file)
      /\ Goes(c, [Idle EXCEPT !.answer = "done"])
      /\ UNCHANGED <<schema, owed>>
  BY DEF Retire, Ends
<1>3. IsFile(file') /\ ImportedTags(file') = {}
  BY <1>2, NothingMoved DEF IInv
<1>4. CallSound([Idle EXCEPT !.answer = "done"], schema', file', owed')
  BY EndedSound
<1>5. SchemaSound(schema) /\ SchemaSound(schema') /\ Follows(schema, schema')
  BY <1>2 DEF IInv, Follows
<1>6. /\ calls' = [d \in Procs |-> calls'[d]]
      /\ \A d \in Procs : CallSound(calls'[d], schema', file', owed')
  BY <1>2, <1>3, <1>4, <1>5, StepSound DEF Goes
<1>7. OwedHeld'
  BY <1>1, <1>2 DEF OwedHeld, CallSound
<1> QED BY <1>2, <1>3, <1>5, <1>6, <1>7 DEF IInv

\* With no import running, an edit is beside no call that minds.
LEMMA EditFileSteps ==
  ASSUME ~EditsBesideImport, IInv, EditFile
  PROVE  IInv'
<1>1. PICK f \in Files : /\ file' = f
                        /\ owed' = (owed \cap schema.tags) \cup ImportedTags(f)
  BY DEF EditFile
<1>2. ~Importing /\ UNCHANGED <<schema, calls>>
  BY DEF EditFile
<1>3. IsFile(f) /\ Present(ImportedTags(f))
  BY ImportedPresent
<1>4. Present(owed') /\ OwedHeld'
  BY <1>1, <1>2, <1>3 DEF IInv, Present, OwedHeld
<1>5. ASSUME NEW c \in Procs
      PROVE  CallSound(calls'[c], schema', file', owed')
  <2>1. CallSound(calls[c], schema, file, owed)
    BY DEF IInv
  <2>2. calls[c].pc = "idle" \/ calls[c].op \notin Imports
    BY <1>2 DEF Importing, Imports
  <2> QED BY <1>2, <2>1, <2>2 DEF CallSound
<1> QED BY <1>1, <1>2, <1>3, <1>4, <1>5 DEF IInv

LEMMA InitSound ==
  ASSUME Init
  PROVE  IInv
<1>1. calls = [c \in Procs |-> calls[c]]
  BY DEF Init
<1>2. \A c \in Procs : CallSound(calls[c], schema, file, owed)
  BY DEF Init, CallSound, IsCall, IsDeclaration, Idle, NoDeclare, Unread, Unshaped
<1>3. SchemaSound(schema)
  <2>1. CASE schema = Unread
    BY <2>1 DEF SchemaSound, Unread
  <2>2. CASE \E old \in OldSchemas : schema = [tags |-> old, declared |-> TRUE, head |-> 1]
    BY <2>2 DEF SchemaSound
  <2> QED BY <2>1, <2>2 DEF Init
<1>4. IsFile(file)
  BY ImportedPresent, NothingMoved DEF Init
<1>5. Present(owed) /\ OwedHeld
  BY DEF Init, Present, OwedHeld
<1> QED BY <1>1, <1>2, <1>3, <1>4, <1>5 DEF IInv

LEMMA NextSound ==
  ASSUME ~EditsBesideImport, IInv, [Next]_vars
  PROVE  IInv'
<1>1. CASE UNCHANGED vars
  BY <1>1 DEF vars, IInv, OwedHeld
<1>2. CASE EditFile
  BY <1>2, EditFileSteps
<1>3. ASSUME NEW c \in Procs,
             Step(c) \/ Fail(c) \/ \E r \in Requests[c] : Begin(c, r) \/ BeginImport(c, r)
      PROVE  IInv'
  BY <1>3, BeginSteps, BeginImportSteps, ReadingSteps, ReadSchemaSteps, ImportSeededSteps,
     SeedCommitSteps, DeclareCommitSteps, RetireSteps DEF Step
<1> QED BY <1>1, <1>2, <1>3 DEF Next

\* Nothing a config file declared is lost on its way into the store, however
\* many imports, declares and seedings race and wherever they die
\* (permit.rs, import_config), if no edit comes between an import's read of the
\* file and its write.
THEOREM MovedAlwaysKept ==
  ASSUME ~EditsBesideImport
  PROVE  Spec => []MovedKept
<1>1. Init => IInv
  BY InitSound
<1>2. IInv /\ [Next]_vars => IInv'
  BY NextSound
<1>3. IInv => MovedKept
  <2> SUFFICES ASSUME IInv
               PROVE  MovedKept
    OBVIOUS
  <2>1. Present(owed \cap schema.tags)
    BY DEF IInv, Present
  <2>2. owed \cap schema.tags \subseteq RulesOf(schema)
    BY <2>1, RulesKeep DEF IInv
  <2> QED BY <2>2 DEF IInv, OwedHeld, MovedKept
<1> QED BY <1>1, <1>2, <1>3, PTL DEF Spec

------------------------------------------------------------------------------
(* The rules as one book.                                                  *)


\* The declares of requests and imports.
Asked ==
  {request.declare : request \in UNION {Requests[c] : c \in Procs}}
    \cup {[add |-> ImportedTags(f), remove |-> {}] : f \in Files}

\* `kept` is a permit of the seed, which no request removes and no store with another
\* presence is without.
Keeps(kept) ==
  /\ kept \in Seed /\ kept.facet = "permit" /\ kept.value = NoValue
  /\ \A c \in Procs : \A r \in Requests[c] : kept \notin r.declare.remove
  /\ \A old \in OldSchemas :
       (\E tag \in Facet(old, "permit") : tag.value = NoValue) => kept \in old

\* A schema's rules hold `kept`, by its own tag unless no permit of it is one.
Keeping(s, kept) ==
  /\ SchemaSound(s)
  /\ \/ kept \in s.tags
     \/ ~ \E tag \in Facet(s.tags, "permit") : tag.value = NoValue

SeededWith(s, kept) == s.declared /\ kept \in s.tags

\* Call k declares what was asked, on a schema seeded by then; and a seeding
\* sent at the schema's head was shaped on it.
CallKnown(k, s, kept) ==
  /\ IsCall(k)
  /\ k.pc # "idle" => /\ k.op \in Operations \cup {"importing"}
                      /\ k.declare \in Asked \cup {NoDeclare}
  /\ k.pc = "seed_commit" => k.schema.head \in Nat /\ Follows(k.schema, s)
  /\ k.pc = "declare" => SeededWith(s, kept)

BookInv(kept) ==
  /\ calls = [c \in Procs |-> calls[c]]
  /\ \A c \in Procs : CallKnown(calls[c], schema, kept)
  /\ Keeping(schema, kept)
  /\ IsFile(file)
  /\ file \in Files \/ ImportedTags(file) = {}

------------------------------------------------------------------------------
(* Rules.                                                                   *)

\* A declare asked for removes `kept` from no schema.
LEMMA AskedKeeps ==
  ASSUME NEW kept, Keeps(kept), NEW d \in Asked \cup {NoDeclare}
  PROVE  kept \notin d.remove
BY DEF Keeps, Asked, NoDeclare

\* Rules that hold a presence are read as they are.
LEMMA AllowlistRead ==
  ASSUME NEW rules, NEW kept \in rules, kept.facet = "permit", kept.value = NoValue
  PROVE  Allowlisted(rules) = rules
BY DEF Allowlisted, Facet

\* What is read of a schema holds `kept`.
LEMMA RulesHold ==
  ASSUME NEW kept, Keeps(kept), NEW s, Keeping(s, kept)
  PROVE  kept \in RulesOf(s)
<1>1. CASE ~s.declared
  BY <1>1 DEF RulesOf, Keeps
<1>2. CASE s.declared /\ kept \in s.tags
  BY <1>2, AllowlistRead DEF RulesOf, Keeps
<1>3. CASE s.declared /\ ~ \E tag \in Facet(s.tags, "permit") : tag.value = NoValue
  <2>1. kept \in Facet(Seed, "permit")
    BY DEF Keeps, Facet
  <2> QED BY <1>3, <2>1 DEF RulesOf, Allowlisted
<1> QED BY <1>1, <1>2, <1>3 DEF Keeping

\* A schema read as it is, with nothing to seed, is seeded.
LEMMA NothingToSeed ==
  ASSUME NEW kept, Keeps(kept), NEW s, Keeping(s, kept), ~IsDeclare(Seeding(s))
  PROVE  SeededWith(s, kept)
<1>1. kept \in RulesOf(s)
  BY RulesHold
<1>2. kept \in s.tags
  BY <1>1 DEF IsDeclare, Seeding
<1> QED BY <1>2 DEF SeededWith, Keeping, SchemaSound

\* A seeding leaves a seeded schema whose rules are what was read before.
LEMMA SeedingChangesNothing ==
  ASSUME NEW kept, Keeps(kept), NEW s, Keeping(s, kept)
  PROVE  /\ SeededWith(Declared(s, Seeding(s)), kept)
         /\ Keeping(Declared(s, Seeding(s)), kept)
         /\ Follows(s, Declared(s, Seeding(s)))
         /\ RulesOf(Declared(s, Seeding(s))) = RulesOf(s)
<1> DEFINE t == Declared(s, Seeding(s))
<1>1. SchemaSound(s) /\ SchemaSound(t) /\ Follows(s, t) /\ t.tags = RulesOf(s)
  <2>1. TagsAfter(s, Seeding(s)) = RulesOf(s)
    BY DEF TagsAfter, Seeding
  <2> QED BY <2>1, DeclaredSound DEF Keeping
<1>2. kept \in t.tags
  BY <1>1, RulesHold
<1>3. t.declared
  BY <1>1, <1>2 DEF SchemaSound
<1>4. RulesOf(t) = t.tags
  BY <1>2, <1>3, AllowlistRead DEF RulesOf, Keeps
<1> QED BY <1>1, <1>2, <1>3, <1>4 DEF SeededWith, Keeping

\* A declare asked for leaves a seeded schema seeded, its rules as declared.
LEMMA DeclareDeclares ==
  ASSUME NEW kept, Keeps(kept), NEW s, SchemaSound(s), SeededWith(s, kept),
         NEW d \in Asked \cup {NoDeclare}
  PROVE  /\ SeededWith(Declared(s, d), kept)
         /\ Keeping(Declared(s, d), kept)
         /\ Follows(s, Declared(s, d))
         /\ RulesOf(Declared(s, d)) = (RulesOf(s) \cup d.add) \ d.remove
<1> DEFINE t == Declared(s, d)
<1>1. SchemaSound(t) /\ Follows(s, t) /\ t.tags = (s.tags \cup d.add) \ d.remove
  BY DeclaredSound DEF TagsAfter
<1>2. kept \in s.tags /\ kept \in t.tags
  BY <1>1, AskedKeeps DEF SeededWith
<1>3. s.declared /\ t.declared
  BY <1>1, <1>2 DEF SeededWith, SchemaSound
<1>4. RulesOf(s) = s.tags /\ RulesOf(t) = t.tags
  BY <1>2, <1>3, AllowlistRead DEF RulesOf, Keeps
<1> QED BY <1>1, <1>2, <1>3, <1>4 DEF SeededWith, Keeping

------------------------------------------------------------------------------
(* Calls.                                                                   *)

LEMMA StaysKnown ==
  ASSUME NEW kept, NEW k, NEW s, NEW t, CallKnown(k, s, kept),
         SchemaSound(s), SchemaSound(t), Follows(s, t),
         SeededWith(s, kept) => SeededWith(t, kept)
  PROVE  CallKnown(k, t, kept)
BY DEF CallKnown, Follows, SchemaSound

\* A step of c's call, leaving it known, leaves every call known.
LEMMA StepKnown ==
  ASSUME NEW kept, BookInv(kept), NEW c \in Procs, NEW k, Goes(c, k),
         CallKnown(k, schema', kept), Keeping(schema', kept), Follows(schema, schema'),
         SeededWith(schema, kept) => SeededWith(schema', kept)
  PROVE  /\ calls' = [d \in Procs |-> calls'[d]]
         /\ \A d \in Procs : CallKnown(calls'[d], schema', kept)
<1>1. \A d \in Procs : calls'[d] = IF d = c THEN k ELSE calls[d]
  BY DEF BookInv, Goes
<1>2. \A d \in Procs : CallKnown(calls[d], schema', kept)
  BY StaysKnown DEF BookInv, Keeping
<1> QED BY <1>1, <1>2 DEF BookInv, Goes

\* A step that changes no schema or file keeps the invariant if it leaves its
\* call known.
LEMMA KnownMoves ==
  ASSUME NEW kept, BookInv(kept), NEW c \in Procs, NEW k, Goes(c, k),
         CallKnown(k, schema, kept), UNCHANGED <<schema, file>>
  PROVE  BookInv(kept)'
<1>1. /\ calls' = [d \in Procs |-> calls'[d]]
      /\ \A d \in Procs : CallKnown(calls'[d], schema', kept)
  BY StepKnown DEF BookInv, Follows
<1> QED BY <1>1 DEF BookInv

LEMMA EndedKnown ==
  ASSUME NEW said, NEW s, NEW kept
  PROVE  CallKnown([Idle EXCEPT !.answer = said], s, kept)
BY DEF CallKnown, IsCall, IsDeclaration, Idle, NoDeclare, Unread, Unshaped

LEMMA GoesOnKnown ==
  ASSUME NEW kept, NEW k, NEW s, CallKnown(k, s, kept), k.pc # "idle",
         NEW pc \in {"rules", "read", "list", "seed", "judge", "commit", "retire"}
  PROVE  CallKnown([k EXCEPT !.pc = pc], s, kept)
BY DEF CallKnown, IsCall

\* Where a call goes once the stream is seeded.
LEMMA SeededKnown ==
  ASSUME NEW kept, NEW c \in Procs, NEW rules, NEW s, CallKnown(calls[c], s, kept),
         calls[c].pc \in {"seed", "seed_commit"}, SeededWith(s, kept), Seeded(c, rules)
  PROVE  \E k : Goes(c, k) /\ CallKnown(k, s, kept)
<1> DEFINE call == [calls[c] EXCEPT !.rules = rules]
<1>1. ASSUME NEW pc \in {"judge", "declare", "seeded"}, Goes(c, [call EXCEPT !.pc = pc])
      PROVE  \E k : Goes(c, k) /\ CallKnown(k, s, kept)
  <2>1. CallKnown([call EXCEPT !.pc = pc], s, kept)
    BY DEF CallKnown, IsCall
  <2> QED BY <1>1, <2>1
<1>2. CASE Ends(c, "done")
  BY <1>2, EndedKnown DEF Ends
<1>3. call.op = calls[c].op /\ calls[c].op \in Operations \cup {"importing"}
  BY DEF CallKnown, IsCall
<1> QED BY <1>1, <1>2, <1>3 DEF Seeded, Operations

------------------------------------------------------------------------------
(* The steps.                                                               *)

\* The rules' book, as a step leaves it: as it was, or with a declare asked for.
BookStep == RulesOf(schema') = RulesOf(schema) \/ Book!Declare

LEMMA BeginKnown ==
  ASSUME NEW kept, BookInv(kept), NEW c \in Procs, NEW r \in Requests[c],
         Begin(c, r) \/ BeginImport(c, r)
  PROVE  BookInv(kept)' /\ BookStep
<1>1. UNCHANGED <<schema, file>>
  BY DEF Begin, BeginImport
<1>2. IsCall(r) /\ r.op \in Operations /\ r.declare \in Asked
  BY RequestSound DEF Asked
<1>3. ASSUME NEW pc \in {"rules", "read", "seed"}, Goes(c, [r EXCEPT !.pc = pc])
      PROVE  BookInv(kept)'
  <2>1. CallKnown([r EXCEPT !.pc = pc], schema, kept)
    BY <1>2 DEF CallKnown, IsCall
  <2> QED BY <1>1, <1>3, <2>1, KnownMoves
<1>4. CASE Ends(c, "refused")
  BY <1>1, <1>4, EndedKnown, KnownMoves DEF Ends, BookStep
<1>5. CASE BeginImport(c, r)
  <2> DEFINE k == [r EXCEPT !.pc = "seed", !.declare.add = ImportedTags(file)]
  <2>1. r.declare = NoDeclare
    BY <1>5, RequestsAssumption DEF BeginImport
  <2>2. [r.declare EXCEPT !.add = ImportedTags(file)]
          = [add |-> ImportedTags(file), remove |-> {}]
    BY <2>1 DEF NoDeclare
  <2>3. [add |-> ImportedTags(file), remove |-> {}] \in Asked \cup {NoDeclare}
    BY DEF BookInv, Asked, NoDeclare
  <2>4. /\ IsCall(k) /\ k.pc = "seed" /\ k.op = r.op
        /\ k.declare = [r.declare EXCEPT !.add = ImportedTags(file)]
    BY <1>2 DEF IsCall, IsDeclaration
  <2>5. CallKnown(k, schema, kept)
    BY <1>2, <2>2, <2>3, <2>4 DEF CallKnown
  <2>6. Goes(c, k)
    BY <1>5 DEF BeginImport
  <2> QED BY <1>1, <2>5, <2>6, KnownMoves DEF BookStep
<1> QED BY <1>1, <1>3, <1>4, <1>5 DEF Begin, BookStep

LEMMA ReadingKnown ==
  ASSUME NEW kept, BookInv(kept), NEW c \in Procs,
         \/ AddJudged(c) \/ RevokeRead(c) \/ RevokeList(c) \/ Judge(c) \/ CommitTask(c)
         \/ ImportSeeded(c) \/ Fail(c)
  PROVE  BookInv(kept)' /\ BookStep
<1>1. UNCHANGED <<schema, file>>
  BY DEF AddJudged, RevokeRead, RevokeList, Judge, CommitTask, ImportSeeded, Fail
<1>2. calls[c].pc # "idle" /\ CallKnown(calls[c], schema, kept)
  BY DEF BookInv, AddJudged, RevokeRead, RevokeList, Judge, CommitTask, ImportSeeded, Fail
<1>3. ASSUME NEW said, Ends(c, said)
      PROVE  BookInv(kept)'
  BY <1>1, <1>3, EndedKnown, KnownMoves DEF Ends
<1>4. ASSUME NEW pc \in {"list", "seed", "judge", "retire"}, To(c, pc)
      PROVE  BookInv(kept)'
  BY <1>1, <1>2, <1>4, GoesOnKnown, KnownMoves DEF To
<1>5. ASSUME NEW shaped, Goes(c, [calls[c] EXCEPT !.pc = "commit", !.shaped = shaped])
      PROVE  BookInv(kept)'
  <2>1. CallKnown([calls[c] EXCEPT !.pc = "commit", !.shaped = shaped], schema, kept)
    BY <1>2 DEF CallKnown, IsCall
  <2> QED BY <1>1, <1>5, <2>1, KnownMoves
<1>6. CASE Goes(c, [calls[c] EXCEPT !.pc = "seed", !.op = "importing"])
  <2>1. CallKnown([calls[c] EXCEPT !.pc = "seed", !.op = "importing"], schema, kept)
    BY <1>2 DEF CallKnown, IsCall
  <2> QED BY <1>1, <1>6, <2>1, KnownMoves DEF BookStep
<1>7. BookInv(kept)'
  <2>1. CASE Judge(c)
    BY <1>3, <1>5, <2>1 DEF Judge
  <2>2. CASE CommitTask(c)
    BY <1>3, <1>4, <2>2 DEF CommitTask, Retag
  <2>3. CASE ImportSeeded(c)
    BY <1>4, <1>6, <2>3 DEF ImportSeeded
  <2> QED BY <1>3, <1>4, <2>1, <2>2, <2>3 DEF AddJudged, RevokeRead, RevokeList, Fail
<1> QED BY <1>1, <1>7 DEF BookStep

LEMMA ReadSchemaKnown ==
  ASSUME NEW kept, Keeps(kept), BookInv(kept), NEW c \in Procs, ReadSchema(c)
  PROVE  BookInv(kept)' /\ BookStep
<1>1. UNCHANGED <<schema, file>>
  BY DEF ReadSchema
<1>2. calls[c].pc = "seed" /\ CallKnown(calls[c], schema, kept)
  BY DEF BookInv, ReadSchema
<1> DEFINE k == [calls[c] EXCEPT !.pc = "seed_commit", !.schema = schema]
<1>3. CASE Goes(c, k)
  <2>1. schema.head \in Nat
    BY DEF BookInv, Keeping, SchemaSound
  <2>2. CallKnown(k, schema, kept)
    BY <1>2, <2>1 DEF CallKnown, IsCall, Follows
  <2> QED BY <1>1, <1>3, <2>2, KnownMoves DEF BookStep
<1>4. CASE ~IsDeclare(Seeding(schema)) /\ Seeded(c, RulesOf(schema))
  <2>1. SeededWith(schema, kept)
    BY <1>4, NothingToSeed DEF BookInv
  <2>2. PICK known : Goes(c, known) /\ CallKnown(known, schema, kept)
    BY <1>2, <1>4, <2>1, SeededKnown
  <2> QED BY <1>1, <2>2, KnownMoves DEF BookStep
<1> QED BY <1>3, <1>4 DEF ReadSchema

LEMMA SeedCommitKnown ==
  ASSUME NEW kept, Keeps(kept), BookInv(kept), NEW c \in Procs, SeedCommit(c)
  PROVE  BookInv(kept)' /\ BookStep
<1>1. calls[c].pc = "seed_commit" /\ CallKnown(calls[c], schema, kept)
  BY DEF BookInv, SeedCommit
<1>2. UNCHANGED file
  BY DEF SeedCommit
<1>3. CASE To(c, "seed") /\ UNCHANGED schema
  BY <1>1, <1>2, <1>3, GoesOnKnown, KnownMoves DEF To, BookStep
<1>4. CASE /\ schema.head = calls[c].schema.head
           /\ Schema(Declared(schema, Seeding(calls[c].schema)))
           /\ Seeded(c, RulesOf(schema'))
  <2>1. schema' = Declared(schema, Seeding(schema))
    BY <1>1, <1>4 DEF BookInv, Keeping, CallKnown, Follows, SchemaSound, Schema
  <2>2. /\ SeededWith(schema', kept) /\ Keeping(schema', kept)
        /\ Follows(schema, schema') /\ RulesOf(schema') = RulesOf(schema)
    BY <2>1, SeedingChangesNothing DEF BookInv
  <2>3. CallKnown(calls[c], schema', kept)
    BY <1>1, <2>2, StaysKnown DEF BookInv, Keeping
  <2>4. PICK k : Goes(c, k) /\ CallKnown(k, schema', kept)
    BY <1>1, <1>4, <2>2, <2>3, SeededKnown
  <2>5. /\ calls' = [d \in Procs |-> calls'[d]]
        /\ \A d \in Procs : CallKnown(calls'[d], schema', kept)
    BY <2>2, <2>4, StepKnown
  <2> QED BY <1>2, <2>2, <2>5 DEF BookInv, BookStep
<1> QED BY <1>3, <1>4 DEF SeedCommit

LEMMA DeclareCommitKnown ==
  ASSUME NEW kept, Keeps(kept), BookInv(kept), NEW c \in Procs, DeclareCommit(c)
  PROVE  BookInv(kept)' /\ BookStep
<1> DEFINE d == calls[c].declare
<1>1. /\ calls[c].pc = "declare" /\ CallKnown(calls[c], schema, kept)
      /\ d \in Asked \cup {NoDeclare} /\ SeededWith(schema, kept)
  BY DEF BookInv, DeclareCommit, CallKnown
<1>2. schema' = Declared(schema, d) /\ UNCHANGED file
  BY DEF DeclareCommit, Schema
<1>3. /\ SeededWith(schema', kept) /\ Keeping(schema', kept) /\ Follows(schema, schema')
      /\ RulesOf(schema') = (RulesOf(schema) \cup d.add) \ d.remove
  BY <1>1, <1>2, DeclareDeclares DEF BookInv, Keeping
<1>4. PICK k : Goes(c, k) /\ CallKnown(k, schema', kept)
  <2>1. CASE To(c, "retire")
    <3>1. CallKnown(calls[c], schema', kept)
      BY <1>1, <1>3, StaysKnown DEF BookInv, Keeping
    <3>2. CallKnown([calls[c] EXCEPT !.pc = "retire"], schema', kept)
      BY <1>1, <3>1, GoesOnKnown
    <3> QED BY <2>1, <3>2 DEF To
  <2>2. CASE Ends(c, "done")
    BY <2>2, EndedKnown DEF Ends
  <2> QED BY <2>1, <2>2 DEF DeclareCommit
<1>5. /\ calls' = [e \in Procs |-> calls'[e]]
      /\ \A e \in Procs : CallKnown(calls'[e], schema', kept)
  BY <1>3, <1>4, StepKnown
<1>6. BookStep
  <2>1. CASE d \in Asked
    BY <1>3, <2>1 DEF BookStep, Book!Declare, Asked
  <2>2. CASE d = NoDeclare
    BY <1>3, <2>2 DEF BookStep, NoDeclare
  <2> QED BY <1>1, <2>1, <2>2
<1> QED BY <1>2, <1>3, <1>5, <1>6 DEF BookInv

LEMMA FileKnown ==
  ASSUME NEW kept, BookInv(kept), EditFile \/ \E c \in Procs : Retire(c)
  PROVE  BookInv(kept)' /\ BookStep
<1>1. UNCHANGED schema
  BY DEF EditFile, Retire
<1>2. CASE EditFile
  <2>1. file' \in Files /\ UNCHANGED calls
    BY <1>2 DEF EditFile
  <2> QED BY <1>1, <2>1, ImportedPresent DEF BookInv, BookStep
<1>3. ASSUME NEW c \in Procs, Retire(c)
      PROVE  BookInv(kept)'
  <2>1. file' = WithoutMoved(file) /\ Goes(c, [Idle EXCEPT !.answer = "done"])
    BY <1>3 DEF Retire, Ends
  <2>2. IsFile(file') /\ ImportedTags(file') = {}
    BY <2>1, NothingMoved DEF BookInv
  <2>3. CallKnown([Idle EXCEPT !.answer = "done"], schema', kept)
    BY EndedKnown
  <2>4. /\ calls' = [d \in Procs |-> calls'[d]]
        /\ \A d \in Procs : CallKnown(calls'[d], schema', kept)
    BY <1>1, <2>1, <2>3, StepKnown DEF BookInv, Follows
  <2> QED BY <1>1, <2>2, <2>4 DEF BookInv
<1> QED BY <1>1, <1>2, <1>3 DEF BookStep

LEMMA InitKnown ==
  ASSUME NEW kept, Keeps(kept), Init
  PROVE  BookInv(kept) /\ Book!Init
<1>1. /\ calls = [c \in Procs |-> calls[c]]
      /\ \A c \in Procs : CallKnown(calls[c], schema, kept)
  BY DEF Init, CallKnown, IsCall, IsDeclaration, Idle, NoDeclare, Unread, Unshaped
<1>2. IsFile(file) /\ ImportedTags(file) = {}
  BY ImportedPresent, NothingMoved DEF Init
<1>3. CASE schema = Unread
  <2>1. Keeping(schema, kept)
    BY <1>3 DEF Keeping, SchemaSound, Unread, Facet
  <2>2. Book!Init
    BY <1>3 DEF Book!Init, RulesOf, Unread
  <2> QED BY <1>1, <1>2, <2>1, <2>2 DEF BookInv
<1>4. ASSUME NEW old \in OldSchemas, schema = [tags |-> old, declared |-> TRUE, head |-> 1]
      PROVE  BookInv(kept) /\ Book!Init
  <2>1. Keeping(schema, kept)
    BY <1>4 DEF Keeping, SchemaSound, Keeps
  <2>2. Book!Init
    BY <1>4 DEF Book!Init, RulesOf
  <2> QED BY <1>1, <1>2, <2>1, <2>2 DEF BookInv
<1> QED BY <1>3, <1>4 DEF Init

LEMMA NextKnown ==
  ASSUME NEW kept, Keeps(kept), BookInv(kept), [Next]_vars
  PROVE  BookInv(kept)' /\ BookStep
<1>1. CASE UNCHANGED vars
  BY <1>1 DEF vars, BookInv, BookStep
<1>2. CASE EditFile
  BY <1>2, FileKnown
<1>3. ASSUME NEW c \in Procs,
             Step(c) \/ Fail(c) \/ \E r \in Requests[c] : Begin(c, r) \/ BeginImport(c, r)
      PROVE  BookInv(kept)' /\ BookStep
  BY <1>3, BeginKnown, ReadingKnown, ReadSchemaKnown, SeedCommitKnown, DeclareCommitKnown,
     FileKnown DEF Step
<1> QED BY <1>1, <1>2, <1>3 DEF Next

\* The rules a store is read by are one book that declares alone change
\* (schema.rs, seed_in; permit.rs), however seedings, imports and declares
\* interleave and die, where a permit of the seed is never removed.
THEOREM RulesAlwaysABook ==
  ASSUME NEW kept, Keeps(kept)
  PROVE  Spec => ImplementsRuleBook
<1>1. Init => BookInv(kept) /\ Book!Init
  BY InitKnown
<1>2. BookInv(kept) /\ [Next]_vars => BookInv(kept)' /\ [Book!Declare]_(RulesOf(schema))
  BY NextKnown DEF BookStep
<1> QED BY <1>1, <1>2, PTL DEF Spec, ImplementsRuleBook, Book!Spec

------------------------------------------------------------------------------
(* Judging: what is judged sound brings lint nothing new.                   *)

Enums(rules, tag) == {e.value : e \in {e \in Facet(rules, "enum") : e.of = tag.target}}

\* A tag, or a key too many, that rules have something against.
Unpermitted(rules, tags) == {t \in tags : ~Permitted(rules, t)}
Unlisted(rules, tags) == {t \in tags : Enums(rules, t) # {} /\ t.value \notin Enums(rules, t)}
Crowded(rules, tags) == {k \in Facet(rules, "keys") : Cardinality(KeysIn(tags, k.of)) > 1}
KeysOf(k) == [target |-> k.of, value |-> NoValue]

\* What is found, and introduced, is among these.
LEMMA ValidateIs ==
  ASSUME NEW rules, NEW held, NEW add, NEW remove
  PROVE  LET after == Retagged(held, add, remove) IN
         Validate(rules, held, add, remove) =
           {Finding("not-permitted", t, t \notin held) : t \in Unpermitted(rules, after)}
           \cup {Finding("not-in-enum", t, t \notin held) : t \in Unlisted(rules, after)}
           \cup {Finding("too-many-keys", KeysOf(k),
                         ~ KeysIn(after, k.of) \subseteq KeysIn(held, k.of)) :
                   k \in Crowded(rules, after)}
BY DEF Validate, Unpermitted, Unlisted, Crowded, Enums, KeysOf

\* What is judged sound introduces none of it.
LEMMA SoundIs ==
  ASSUME NEW rules, NEW held, NEW add, NEW remove, Sound(Validate(rules, held, add, remove))
  PROVE  LET after == Retagged(held, add, remove) IN
         /\ Unpermitted(rules, after) \subseteq held
         /\ Unlisted(rules, after) \subseteq held
         /\ \A k \in Crowded(rules, after) : KeysIn(after, k.of) \subseteq KeysIn(held, k.of)
<1> DEFINE after == Retagged(held, add, remove)
           V == Validate(rules, held, add, remove)
<1>1. \A f \in V : ~f.introduced
  BY DEF Sound
<1>2. ASSUME NEW t \in Unpermitted(rules, after) PROVE t \in held
  <2>1. PICK new \in BOOLEAN : new <=> (t \notin held)
    OBVIOUS
  <2>2. new = (t \notin held)
    BY <2>1, Zenon
  <2>3. Finding("not-permitted", t, t \notin held) \in V
    BY ValidateIs
  <2>4. Finding("not-permitted", t, new) \in V
    BY <2>2, <2>3
  <2>5. ~Finding("not-permitted", t, new).introduced
    BY <1>1, <2>4
  <2>6. ~new
    BY <2>5 DEF Finding
  <2> QED BY <2>1, <2>6
<1>3. ASSUME NEW t \in Unlisted(rules, after) PROVE t \in held
  <2>1. PICK new \in BOOLEAN : new <=> (t \notin held)
    OBVIOUS
  <2>2. new = (t \notin held)
    BY <2>1, Zenon
  <2>3. Finding("not-in-enum", t, t \notin held) \in V
    BY ValidateIs
  <2>4. Finding("not-in-enum", t, new) \in V
    BY <2>2, <2>3
  <2>5. ~Finding("not-in-enum", t, new).introduced
    BY <1>1, <2>4
  <2>6. ~new
    BY <2>5 DEF Finding
  <2> QED BY <2>1, <2>6
<1>4. ASSUME NEW k \in Crowded(rules, after)
      PROVE  KeysIn(after, k.of) \subseteq KeysIn(held, k.of)
  <2>1. PICK new \in BOOLEAN : new <=> ~ KeysIn(after, k.of) \subseteq KeysIn(held, k.of)
    OBVIOUS
  <2>2. new = ~ KeysIn(after, k.of) \subseteq KeysIn(held, k.of)
    BY <2>1, Zenon
  <2>3. Finding("too-many-keys", KeysOf(k), ~ KeysIn(after, k.of) \subseteq KeysIn(held, k.of)) \in V
    BY ValidateIs
  <2>4. Finding("too-many-keys", KeysOf(k), new) \in V
    BY <2>2, <2>3
  <2>5. ~Finding("too-many-keys", KeysOf(k), new).introduced
    BY <1>1, <2>4
  <2>6. ~new
    BY <2>5 DEF Finding
  <2> QED BY <2>1, <2>6
<1> QED BY <1>2, <1>3, <1>4

\* What lint finds, open or closed, is none of it introduced.
LEMMA LintIs ==
  ASSUME NEW rules, NEW tags
  PROVE  Validate(rules, tags, {}, {}) =
           {Finding("not-permitted", t, FALSE) : t \in Unpermitted(rules, tags)}
           \cup {Finding("not-in-enum", t, FALSE) : t \in Unlisted(rules, tags)}
           \cup {Finding("too-many-keys", KeysOf(k), FALSE) : k \in Crowded(rules, tags)}
<1>1. Retagged(tags, {}, {}) = tags
  BY DEF Retagged
<1>2. \A t \in Unpermitted(rules, tags) : Finding("not-permitted", t, t \notin tags)
                                            = Finding("not-permitted", t, FALSE)
  <2> SUFFICES ASSUME NEW t \in Unpermitted(rules, tags)
               PROVE  (t \notin tags) = FALSE
    OBVIOUS
  <2>1. t \in tags
    BY DEF Unpermitted
  <2> QED BY <2>1, Zenon
<1>3. \A t \in Unlisted(rules, tags) : Finding("not-in-enum", t, t \notin tags)
                                         = Finding("not-in-enum", t, FALSE)
  <2> SUFFICES ASSUME NEW t \in Unlisted(rules, tags)
               PROVE  (t \notin tags) = FALSE
    OBVIOUS
  <2>1. t \in tags
    BY DEF Unlisted
  <2> QED BY <2>1, Zenon
<1>4. \A k \in Crowded(rules, tags) :
        Finding("too-many-keys", KeysOf(k), ~ KeysIn(tags, k.of) \subseteq KeysIn(tags, k.of))
          = Finding("too-many-keys", KeysOf(k), FALSE)
  <2> SUFFICES ASSUME NEW k \in Crowded(rules, tags)
               PROVE  (~ KeysIn(tags, k.of) \subseteq KeysIn(tags, k.of)) = FALSE
    OBVIOUS
  <2>1. KeysIn(tags, k.of) \subseteq KeysIn(tags, k.of)
    OBVIOUS
  <2> QED BY <2>1, Zenon
<1>5. Validate(rules, tags, {}, {}) =
           {Finding("not-permitted", t, t \notin tags) : t \in Unpermitted(rules, tags)}
           \cup {Finding("not-in-enum", t, t \notin tags) : t \in Unlisted(rules, tags)}
           \cup {Finding("too-many-keys", KeysOf(k),
                         ~ KeysIn(tags, k.of) \subseteq KeysIn(tags, k.of)) :
                   k \in Crowded(rules, tags)}
  BY <1>1, ValidateIs
<1> QED BY <1>2, <1>3, <1>4, <1>5, Zenon

\* The keys of finitely many tags are finitely many.
LEMMA KeysFinite ==
  ASSUME NEW tags, IsFiniteSet(tags), NEW ns
  PROVE  IsFiniteSet(KeysIn(tags, ns))
<1> DEFINE T == {tag.target : tag \in tags}
           F == [tag \in tags |-> tag.target]
<1>1. F \in Surjection(tags, T)
  <2>1. F \in [tags -> T] /\ \A t \in T : \E tag \in tags : F[tag] = t
    OBVIOUS
  <2> HIDE DEF F, T
  <2> QED BY <2>1, Fun_IsSurj
<1>2. IsFiniteSet(T)
  <2> HIDE DEF F, T
  <2> QED BY <1>1, FS_Surjection
<1>3. KeysIn(tags, ns) \in SUBSET T
  BY DEF KeysIn
<1> QED BY <1>2, <1>3, FS_Subset

\* A retag judged sound leaves lint nothing to say that it did not say before.
LEMMA SoundAddsNoFinding ==
  ASSUME NEW rules, NEW held, IsFiniteSet(held), NEW add, NEW remove,
         Sound(Validate(rules, held, add, remove)), NEW closed
  PROVE  RuleFindings(rules, Retagged(held, add, remove), closed)
           \subseteq RuleFindings(rules, held, closed)
<1> DEFINE after == Retagged(held, add, remove)
<1>1. Unpermitted(rules, after) \subseteq Unpermitted(rules, held)
  BY SoundIs DEF Unpermitted
<1>2. Unlisted(rules, after) \subseteq Unlisted(rules, held)
  BY SoundIs DEF Unlisted
<1>3. Crowded(rules, after) \subseteq Crowded(rules, held)
  <2> SUFFICES ASSUME NEW k \in Crowded(rules, after) PROVE k \in Crowded(rules, held)
    OBVIOUS
  <2>1. KeysIn(after, k.of) \in SUBSET KeysIn(held, k.of) /\ IsFiniteSet(KeysIn(held, k.of))
    BY SoundIs, KeysFinite
  <2>2. /\ IsFiniteSet(KeysIn(after, k.of))
        /\ Cardinality(KeysIn(after, k.of)) <= Cardinality(KeysIn(held, k.of))
    BY <2>1, FS_Subset
  <2>3. Cardinality(KeysIn(after, k.of)) \in Nat /\ Cardinality(KeysIn(held, k.of)) \in Nat
    BY <2>1, <2>2, FS_CardinalityType
  <2>4. k \in Facet(rules, "keys") /\ Cardinality(KeysIn(after, k.of)) > 1
    BY DEF Crowded
  <2> HIDE DEF after
  <2>5. Cardinality(KeysIn(held, k.of)) > 1
    BY <2>2, <2>3, <2>4
  <2> QED BY <2>4, <2>5 DEF Crowded
<1>4. Validate(rules, after, {}, {}) \subseteq Validate(rules, held, {}, {})
  <2> HIDE DEF after
  <2>1. Validate(rules, after, {}, {}) =
           {Finding("not-permitted", t, FALSE) : t \in Unpermitted(rules, after)}
           \cup {Finding("not-in-enum", t, FALSE) : t \in Unlisted(rules, after)}
           \cup {Finding("too-many-keys", KeysOf(k), FALSE) : k \in Crowded(rules, after)}
    BY LintIs
  <2>2. Validate(rules, held, {}, {}) =
           {Finding("not-permitted", t, FALSE) : t \in Unpermitted(rules, held)}
           \cup {Finding("not-in-enum", t, FALSE) : t \in Unlisted(rules, held)}
           \cup {Finding("too-many-keys", KeysOf(k), FALSE) : k \in Crowded(rules, held)}
    BY LintIs
  <2> QED BY <1>1, <1>2, <1>3, <2>1, <2>2
<1> QED BY <1>4 DEF RuleFindings

------------------------------------------------------------------------------
(* Writes: each is judged by rules the store had while its call ran.        *)

Schemas == [tags: SUBSET ConfigTags, declared: BOOLEAN, head: Nat]
Shapes == [add: SUBSET Tags, remove: SUBSET Tags, head: Nat]
Pcs == {"idle", "rules", "read", "list", "seed", "seed_commit", "seeded", "judge", "commit",
        "declare", "retire"}

TaskSound(task) == task.tags \subseteq Tags /\ IsFiniteSet(task.tags) /\ task.head \in Nat

\* A call's fields are of their types.
CallTyped(k) ==
  /\ IsCall(k)
  /\ k.pc \in Pcs
  /\ k.pc # "idle" => k.op \in Operations \cup {"importing"}
  /\ k.op \in {"add", "retag"} => k.harp \in Harps
  /\ k.add \in Seq(Tags)
  /\ k.remove \subseteq Tags
  /\ k.declare.add \subseteq ConfigTags /\ k.declare.remove \subseteq ConfigTags
  /\ k.rules \subseteq ConfigTags
  /\ k.schema \in Schemas
  /\ k.shaped \in Shapes

\* Call k, by the schema s, the rules there were since it began and the tasks:
\* what it judges by is one of those; and what it shaped is sound of its task,
\* if that has not moved since.
CallJudged(k, s, seen, at) ==
  /\ k.pc # "idle" => RulesOf(s) \in seen
  /\ k.pc \in {"judge", "commit"} => k.op \in {"add", "retag"} /\ k.rules \in seen
  /\ k.pc = "commit" =>
       /\ IsFiniteSet(k.shaped.add)
       /\ k.shaped.head <= at[k.harp].head
       /\ k.shaped.head = at[k.harp].head =>
            Sound(Validate(k.rules, at[k.harp].tags, k.shaped.add, k.shaped.remove))

WriteInv ==
  /\ calls = [c \in Procs |-> calls[c]]
  /\ tasks = [h \in Harps |-> [tags |-> tasks[h].tags, head |-> tasks[h].head]]
  /\ \A h \in Harps : TaskSound(tasks[h])
  /\ schema \in Schemas
  /\ since = [c \in Procs |-> since[c]]
  /\ \A c \in Procs : since[c] \subseteq SUBSET ConfigTags
  /\ owed \subseteq ConfigTags
  /\ edits \in 0..MaxEdits
  /\ ImportedTags(file) \subseteq ConfigTags
  /\ IsFile(file)
  /\ \A c \in Procs : CallTyped(calls[c]) /\ CallJudged(calls[c], schema, since[c], tasks)

\* What is read of a schema, and what a declare makes of it, are config tags.
LEMMA SchemaTyped ==
  ASSUME NEW s \in Schemas
  PROVE  RulesOf(s) \in SUBSET ConfigTags
<1>1. ASSUME NEW rules \in SUBSET ConfigTags
      PROVE  Allowlisted(rules) \in SUBSET ConfigTags
  <2>1. \A tag \in rules : PermitTag(tag.of) \in ConfigTags
    BY DEF PermitTag, ConfigTags
  <2>2. Facet(Seed, "permit") \subseteq ConfigTags
    BY NamespacesAssumption DEF Facet
  <2> QED BY <2>1, <2>2 DEF Allowlisted, Facet
<1>2. Seed \in SUBSET ConfigTags
  BY NamespacesAssumption
<1>3. s.tags \in SUBSET ConfigTags
  BY DEF Schemas
<1> QED BY <1>1, <1>2, <1>3 DEF RulesOf

LEMMA DeclaredTyped ==
  ASSUME NEW s \in Schemas, NEW d, d.add \subseteq ConfigTags, d.remove \subseteq ConfigTags
  PROVE  Declared(s, d) \in Schemas
BY DEF Declared, TagsAfter, Schemas

LEMMA SeedingTyped ==
  ASSUME NEW s \in Schemas
  PROVE  Seeding(s).add \subseteq ConfigTags /\ Seeding(s).remove \subseteq ConfigTags
<1>1. RulesOf(s) \in SUBSET ConfigTags
  BY SchemaTyped
<1> QED BY <1>1 DEF Seeding, Schemas

LEMMA IdleTyped == ASSUME NEW said PROVE CallTyped([Idle EXCEPT !.answer = said])
<1> DEFINE T == Tags
<1>1. <<>> \in Seq(T)
  <2> HIDE DEF T
  <2> QED OBVIOUS
<1>2. Unread \in Schemas /\ Unshaped \in Shapes
  BY DEF Unread, Unshaped, Schemas, Shapes
<1> DEFINE k == [Idle EXCEPT !.answer = said]
<1>3. /\ k.pc = "idle" /\ k.op = "none" /\ k.add = <<>> /\ k.remove = {} /\ k.declare = NoDeclare
      /\ k.rules = {} /\ k.schema = Unread /\ k.shaped = Unshaped
  BY DEF Idle
<1>4. IsCall(k)
  BY DEF IsCall, IsDeclaration, Idle, NoDeclare
<1>5. k.pc \in Pcs /\ k.declare.add = {} /\ k.declare.remove = {}
  BY <1>3 DEF Pcs, NoDeclare
<1> HIDE DEF k
<1>6. CallTyped(k)
  BY <1>1, <1>2, <1>3, <1>4, <1>5 DEF CallTyped
<1> QED BY <1>6 DEF k

\* The rules a schema comes to be read by are seen by every call that runs.
LEMMA SeenAfter ==
  ASSUME WriteInv, NEW next \in Schemas, Schema(next)
  PROVE  /\ schema' \in Schemas /\ schema' = next
         /\ since' = [c \in Procs |-> since'[c]]
         /\ \A c \in Procs : since'[c] \subseteq SUBSET ConfigTags
         /\ \A c \in Procs : CallJudged(calls[c], schema', since'[c], tasks)
         /\ \A c \in Procs : calls[c].pc # "idle" => RulesOf(schema') \in since'[c]
<1>1. /\ schema' = next
      /\ since' = [c \in Procs |->
           IF calls[c].pc = "idle" THEN since[c] ELSE since[c] \cup {RulesOf(next)}]
  BY DEF Schema
<1>2. RulesOf(next) \in SUBSET ConfigTags
  BY SchemaTyped
<1>3. \A c \in Procs : since[c] \subseteq since'[c]
  BY <1>1
<1>4. \A c \in Procs : calls[c].pc # "idle" => RulesOf(schema') \in since'[c]
  BY <1>1
<1>5. \A c \in Procs : CallJudged(calls[c], schema', since'[c], tasks)
  BY <1>3, <1>4 DEF WriteInv, CallJudged
<1> QED BY <1>1, <1>2, <1>4, <1>5 DEF WriteInv

\* A call moves, and the tasks, the file and the edits stay.
LEMMA WriteMoves ==
  ASSUME WriteInv, NEW c \in Procs, NEW k, Goes(c, k),
         CallTyped(k), CallJudged(k, schema', since'[c], tasks),
         UNCHANGED <<tasks, edits>>,
         schema' \in Schemas, since' = [d \in Procs |-> since'[d]],
         \A d \in Procs : since'[d] \subseteq SUBSET ConfigTags,
         \A d \in Procs : d # c => CallJudged(calls[d], schema', since'[d], tasks),
         owed' \subseteq owed, IsFile(file'), ImportedTags(file') \subseteq ConfigTags
  PROVE  WriteInv'
<1>1. \A d \in Procs : calls'[d] = IF d = c THEN k ELSE calls[d]
  BY DEF WriteInv, Goes
<1>2. calls' = [d \in Procs |-> calls'[d]]
  BY DEF WriteInv, Goes
<1>3. \A d \in Procs : CallTyped(calls'[d]) /\ CallJudged(calls'[d], schema', since'[d], tasks')
  BY <1>1 DEF WriteInv
<1> QED BY <1>2, <1>3 DEF WriteInv

\* As do the schema and what has been seen.
LEMMA WriteGoesOn ==
  ASSUME WriteInv, NEW c \in Procs, NEW k, Goes(c, k),
         CallTyped(k), CallJudged(k, schema, since[c], tasks),
         UNCHANGED <<schema, tasks, file, edits, owed, since>>
  PROVE  WriteInv'
BY WriteMoves DEF WriteInv

LEMMA EndedJudged ==
  ASSUME NEW said, NEW s, NEW seen, NEW at
  PROVE  CallJudged([Idle EXCEPT !.answer = said], s, seen, at)
BY DEF CallJudged, Idle

\* A call that goes on with nothing new but where it is.
LEMMA GoesOnJudged ==
  ASSUME NEW k, CallTyped(k), k.pc # "idle",
         NEW s, NEW seen, NEW at, CallJudged(k, s, seen, at),
         NEW pc \in {"list", "seed", "retire", "judge"},
         pc = "judge" => k.pc = "commit"
  PROVE  /\ CallTyped([k EXCEPT !.pc = pc])
         /\ CallJudged([k EXCEPT !.pc = pc], s, seen, at)
<1> DEFINE n == [k EXCEPT !.pc = pc]
<1>1. /\ IsCall(n) /\ n.pc = pc /\ n.op = k.op /\ n.harp = k.harp /\ n.add = k.add
      /\ n.remove = k.remove /\ n.declare = k.declare /\ n.rules = k.rules
      /\ n.schema = k.schema /\ n.shaped = k.shaped
  BY DEF CallTyped, IsCall
<1>2. pc \in Pcs
  BY DEF Pcs
<1> HIDE DEF n
<1>3. CallTyped(n)
  BY <1>1, <1>2 DEF CallTyped
<1>4. CallJudged(n, s, seen, at)
  BY <1>1 DEF CallJudged
<1> QED BY <1>3, <1>4 DEF n

\* Where a call goes once the stream is seeded, by rules just read.
LEMMA SeededJudged ==
  ASSUME NEW c \in Procs, NEW rules \in SUBSET ConfigTags, NEW s, NEW seen, NEW at,
         CallTyped(calls[c]), calls[c].pc \in {"seed", "seed_commit"},
         CallJudged(calls[c], s, seen, at), rules \in seen, Seeded(c, rules)
  PROVE  \E k : Goes(c, k) /\ CallTyped(k) /\ CallJudged(k, s, seen, at)
<1> DEFINE call == [calls[c] EXCEPT !.rules = rules]
<1>1. PICK held : held = calls[c]
  OBVIOUS
<1>2. ASSUME NEW pc \in {"judge", "declare", "seeded"},
             pc = "judge" => held.op \in {"add", "retag"},
             Goes(c, [call EXCEPT !.pc = pc])
      PROVE  \E k : Goes(c, k) /\ CallTyped(k) /\ CallJudged(k, s, seen, at)
  <2>1. PICK k : k = [call EXCEPT !.pc = pc]
    OBVIOUS
  <2>2. /\ IsCall(k) /\ k.pc = pc /\ k.op = held.op /\ k.harp = held.harp /\ k.add = held.add
        /\ k.remove = held.remove /\ k.declare = held.declare /\ k.rules = rules
        /\ k.schema = held.schema /\ k.shaped = held.shaped
    BY <1>1, <2>1 DEF CallTyped, IsCall
  <2>3. pc \in Pcs
    BY DEF Pcs
  <2>4. CallTyped(held) /\ held.pc # "idle" /\ CallJudged(held, s, seen, at)
    BY <1>1
  <2>5. CallTyped(k)
    BY <2>2, <2>3, <2>4 DEF CallTyped
  <2>6. CallJudged(k, s, seen, at)
    BY <1>2, <2>2, <2>4 DEF CallJudged
  <2> QED BY <1>2, <2>1, <2>5, <2>6
<1>3. CASE Ends(c, "done")
  BY <1>3, IdleTyped, EndedJudged DEF Ends
<1>4. call.op = held.op /\ held.op \in Operations \cup {"importing"}
  BY <1>1 DEF CallTyped, IsCall
<1>5. CASE held.op \in {"add", "retag"}
  BY <1>2, <1>4, <1>5 DEF Seeded
<1>6. CASE held.op \in {"declare", "revoke", "importing"}
  BY <1>2, <1>4, <1>6 DEF Seeded
<1>7. CASE held.op = "import"
  BY <1>2, <1>4, <1>7 DEF Seeded
<1>8. CASE held.op = "export"
  BY <1>3, <1>4, <1>8 DEF Seeded
<1> QED BY <1>4, <1>5, <1>6, <1>7, <1>8 DEF Operations

LEMMA RequestTyped ==
  ASSUME NEW c \in Procs, NEW r \in Requests[c]
  PROVE  CallTyped([r EXCEPT !.pc = "idle"]) /\ IsCall(r) /\ r.op \in Operations
<1>1. IsCall(r) /\ r.op \in Operations
  BY RequestSound
<1>2. /\ r.op \in {"add", "retag"} => r.harp \in Harps
      /\ r.add \in Seq(Tags) /\ r.remove \subseteq Tags
      /\ r.declare.add \subseteq ConfigTags /\ r.declare.remove \subseteq ConfigTags
  BY TypesAssumption
<1>3. /\ r.rules = {} /\ r.schema = Unread /\ r.shaped = Unshaped
  BY RequestsAssumption DEF Idle
<1>4. Unread \in Schemas /\ Unshaped \in Shapes
  BY DEF Unread, Unshaped, Schemas, Shapes
<1> DEFINE k == [r EXCEPT !.pc = "idle"]
<1>5. /\ IsCall(k) /\ k.pc = "idle" /\ k.op = r.op /\ k.harp = r.harp /\ k.add = r.add
      /\ k.remove = r.remove /\ k.declare = r.declare /\ k.rules = r.rules
      /\ k.schema = r.schema /\ k.shaped = r.shaped
  BY <1>1 DEF IsCall
<1>6. "idle" \in Pcs
  BY DEF Pcs
<1> HIDE DEF k
<1>7. CallTyped(k)
  BY <1>2, <1>3, <1>4, <1>5, <1>6 DEF CallTyped
<1> QED BY <1>1, <1>7 DEF k

\* A call begun, with what an import read of the file.
LEMMA BegunTyped ==
  ASSUME NEW c \in Procs, NEW r \in Requests[c], NEW pc \in {"rules", "read", "seed"},
         NEW added, added \subseteq ConfigTags
  PROVE  /\ CallTyped([r EXCEPT !.pc = pc])
         /\ CallTyped([r EXCEPT !.pc = pc, !.declare.add = added])
<1> DEFINE i == [r EXCEPT !.pc = "idle"]
<1>1. CallTyped(i) /\ IsCall(r) /\ r.op \in Operations
  BY RequestTyped
<1>2. /\ i.op = r.op /\ i.harp = r.harp /\ i.add = r.add
      /\ i.remove = r.remove /\ i.declare = r.declare /\ i.rules = r.rules
      /\ i.schema = r.schema /\ i.shaped = r.shaped
  BY <1>1 DEF IsCall
<1> HIDE DEF i
<1>3. pc \in Pcs
  BY DEF Pcs
<1>4. CallTyped([r EXCEPT !.pc = pc])
  <2> DEFINE k == [r EXCEPT !.pc = pc]
  <2>1. /\ IsCall(k) /\ k.pc = pc /\ k.op = r.op /\ k.harp = r.harp /\ k.add = r.add
        /\ k.remove = r.remove /\ k.declare = r.declare /\ k.rules = r.rules
        /\ k.schema = r.schema /\ k.shaped = r.shaped
    BY <1>1 DEF IsCall
  <2> HIDE DEF k
  <2>2. CallTyped(k)
    BY <1>1, <1>2, <1>3, <2>1 DEF CallTyped
  <2> QED BY <2>2 DEF k
<1>5. CallTyped([r EXCEPT !.pc = pc, !.declare.add = added])
  <2> DEFINE k == [r EXCEPT !.pc = pc, !.declare.add = added]
  <2>1. /\ IsCall(k) /\ k.pc = pc /\ k.op = r.op /\ k.harp = r.harp /\ k.add = r.add
        /\ k.remove = r.remove /\ k.declare.add = added /\ k.declare.remove = r.declare.remove
        /\ k.rules = r.rules /\ k.schema = r.schema /\ k.shaped = r.shaped
    BY <1>1 DEF IsCall, IsDeclaration
  <2> HIDE DEF k
  <2>2. CallTyped(k)
    BY <1>1, <1>2, <1>3, <2>1 DEF CallTyped
  <2> QED BY <2>2 DEF k
<1> QED BY <1>4, <1>5

LEMMA BeginWrites ==
  ASSUME WriteInv, NEW c \in Procs, NEW r \in Requests[c], Begin(c, r) \/ BeginImport(c, r)
  PROVE  WriteInv'
<1>1. /\ UNCHANGED <<schema, tasks, file, edits, owed>>
      /\ since' = [since EXCEPT ![c] = {RulesOf(schema)}]
  BY DEF Begin, BeginImport
<1>2. RulesOf(schema) \in SUBSET ConfigTags
  BY SchemaTyped DEF WriteInv
<1>3. /\ since' = [d \in Procs |-> since'[d]]
      /\ \A d \in Procs : since'[d] \subseteq SUBSET ConfigTags
      /\ \A d \in Procs : d # c => CallJudged(calls[d], schema', since'[d], tasks)
      /\ RulesOf(schema') \in since'[c]
  BY <1>1, <1>2 DEF WriteInv
<1>4. ASSUME NEW k, Goes(c, k), CallTyped(k), CallJudged(k, schema', since'[c], tasks)
      PROVE  WriteInv'
  BY <1>1, <1>3, <1>4, WriteMoves DEF WriteInv
<1>5. CASE Ends(c, "refused")
  BY <1>4, <1>5, IdleTyped, EndedJudged DEF Ends
<1>6. ASSUME NEW pc \in {"rules", "read", "seed"}, Goes(c, [r EXCEPT !.pc = pc])
      PROVE  WriteInv'
  <2>1. CallTyped([r EXCEPT !.pc = pc]) /\ IsCall(r)
    BY BegunTyped, RequestTyped
  <2>2. CallJudged([r EXCEPT !.pc = pc], schema', since'[c], tasks)
    BY <1>3, <2>1 DEF CallJudged, IsCall
  <2> QED BY <1>4, <1>6, <2>1, <2>2
<1>7. CASE Goes(c, [r EXCEPT !.pc = "seed", !.declare.add = ImportedTags(file)])
  <2> DEFINE k == [r EXCEPT !.pc = "seed", !.declare.add = ImportedTags(file)]
  <2>1. CallTyped(k) /\ IsCall(r)
    BY BegunTyped, RequestTyped DEF WriteInv
  <2>2. k.pc = "seed"
    BY <2>1 DEF IsCall
  <2> HIDE DEF k
  <2>3. CallJudged(k, schema', since'[c], tasks)
    BY <1>3, <2>2 DEF CallJudged
  <2> QED BY <1>4, <1>7, <2>1, <2>3 DEF k
<1> QED BY <1>5, <1>6, <1>7 DEF Begin, BeginImport

\* A call reads, dies or gives up.
LEMMA ReadingWrites ==
  ASSUME WriteInv, NEW c \in Procs, AddJudged(c) \/ RevokeRead(c) \/ RevokeList(c) \/ Fail(c)
  PROVE  WriteInv'
<1>1. UNCHANGED <<schema, tasks, file, edits, owed, since>>
  BY DEF AddJudged, RevokeRead, RevokeList, Fail
<1>2. /\ calls[c].pc # "idle" /\ CallTyped(calls[c])
      /\ CallJudged(calls[c], schema, since[c], tasks)
  BY DEF WriteInv, AddJudged, RevokeRead, RevokeList, Fail
<1>3. ASSUME NEW said, Ends(c, said) PROVE WriteInv'
  BY <1>1, <1>3, IdleTyped, EndedJudged, WriteGoesOn DEF Ends
<1>4. ASSUME NEW pc \in {"list", "seed"}, To(c, pc) PROVE WriteInv'
  BY <1>1, <1>2, <1>4, GoesOnJudged, WriteGoesOn DEF To
<1> QED BY <1>3, <1>4 DEF AddJudged, RevokeRead, RevokeList, Fail

LEMMA ReadSchemaWrites == ASSUME WriteInv, NEW c \in Procs, ReadSchema(c) PROVE WriteInv'
<1>1. UNCHANGED <<schema, tasks, file, edits, owed, since>>
  BY DEF ReadSchema
<1>2. /\ calls[c].pc = "seed" /\ CallTyped(calls[c])
      /\ CallJudged(calls[c], schema, since[c], tasks)
  BY DEF WriteInv, ReadSchema
<1>3. CASE Goes(c, [calls[c] EXCEPT !.pc = "seed_commit", !.schema = schema])
  <2> DEFINE held == calls[c]
             k == [held EXCEPT !.pc = "seed_commit", !.schema = schema]
  <2>1. /\ IsCall(k) /\ k.pc = "seed_commit" /\ k.op = held.op /\ k.harp = held.harp
        /\ k.add = held.add /\ k.remove = held.remove /\ k.declare = held.declare
        /\ k.rules = held.rules /\ k.schema = schema /\ k.shaped = held.shaped
    BY <1>2 DEF CallTyped, IsCall
  <2>2. "seed_commit" \in Pcs /\ schema \in Schemas
    BY DEF Pcs, WriteInv
  <2> HIDE DEF k
  <2>3. CallTyped(k) /\ CallJudged(k, schema, since[c], tasks)
    BY <1>2, <2>1, <2>2 DEF CallTyped, CallJudged
  <2> QED BY <1>1, <1>3, <2>3, WriteGoesOn DEF k
<1>4. CASE Seeded(c, RulesOf(schema))
  <2>1. RulesOf(schema) \in SUBSET ConfigTags /\ RulesOf(schema) \in since[c]
    BY <1>2, SchemaTyped DEF WriteInv, CallJudged
  <2>2. PICK k : Goes(c, k) /\ CallTyped(k) /\ CallJudged(k, schema, since[c], tasks)
    BY <1>2, <1>4, <2>1, SeededJudged
  <2> QED BY <1>1, <2>2, WriteGoesOn
<1> QED BY <1>3, <1>4 DEF ReadSchema

LEMMA SeedCommitWrites == ASSUME WriteInv, NEW c \in Procs, SeedCommit(c) PROVE WriteInv'
<1>1. UNCHANGED <<tasks, file, edits, owed>>
  BY DEF SeedCommit
<1>2. /\ calls[c].pc = "seed_commit" /\ CallTyped(calls[c])
      /\ CallJudged(calls[c], schema, since[c], tasks)
  BY DEF WriteInv, SeedCommit
<1>3. CASE To(c, "seed") /\ UNCHANGED <<schema, since>>
  BY <1>1, <1>2, <1>3, GoesOnJudged, WriteGoesOn DEF To
<1>4. CASE /\ Schema(Declared(schema, Seeding(calls[c].schema)))
           /\ Seeded(c, RulesOf(schema'))
  <2>1. Declared(schema, Seeding(calls[c].schema)) \in Schemas
    BY <1>2, SeedingTyped, DeclaredTyped DEF WriteInv, CallTyped
  <2>2. /\ schema' \in Schemas
        /\ since' = [d \in Procs |-> since'[d]]
        /\ \A d \in Procs : since'[d] \subseteq SUBSET ConfigTags
        /\ \A d \in Procs : CallJudged(calls[d], schema', since'[d], tasks)
        /\ RulesOf(schema') \in since'[c]
    BY <1>2, <1>4, <2>1, SeenAfter
  <2>3. RulesOf(schema') \in SUBSET ConfigTags
    BY <2>2, SchemaTyped
  <2>4. PICK k : Goes(c, k) /\ CallTyped(k) /\ CallJudged(k, schema', since'[c], tasks)
    BY <1>2, <1>4, <2>2, <2>3, SeededJudged
  <2> QED BY <1>1, <2>2, <2>4, WriteMoves DEF WriteInv
<1> QED BY <1>3, <1>4 DEF SeedCommit

LEMMA ImportSeededWrites == ASSUME WriteInv, NEW c \in Procs, ImportSeeded(c) PROVE WriteInv'
<1>1. UNCHANGED <<schema, tasks, file, edits, owed, since>>
  BY DEF ImportSeeded
<1>2. /\ calls[c].pc = "seeded" /\ CallTyped(calls[c])
      /\ CallJudged(calls[c], schema, since[c], tasks)
  BY DEF WriteInv, ImportSeeded
<1>3. CASE To(c, "retire")
  BY <1>1, <1>2, <1>3, GoesOnJudged, WriteGoesOn DEF To
<1>4. CASE Goes(c, [calls[c] EXCEPT !.pc = "seed", !.op = "importing"])
  <2> DEFINE held == calls[c]
             k == [held EXCEPT !.pc = "seed", !.op = "importing"]
  <2>1. /\ IsCall(k) /\ k.pc = "seed" /\ k.op = "importing" /\ k.harp = held.harp
        /\ k.add = held.add /\ k.remove = held.remove /\ k.declare = held.declare
        /\ k.rules = held.rules /\ k.schema = held.schema /\ k.shaped = held.shaped
    BY <1>2 DEF CallTyped, IsCall
  <2>2. "seed" \in Pcs
    BY DEF Pcs
  <2> HIDE DEF k
  <2>3. CallTyped(k) /\ CallJudged(k, schema, since[c], tasks)
    BY <1>2, <2>1, <2>2 DEF CallTyped, CallJudged
  <2> QED BY <1>1, <1>4, <2>3, WriteGoesOn DEF k
<1> QED BY <1>3, <1>4 DEF ImportSeeded

LEMMA DeclareCommitWrites == ASSUME WriteInv, NEW c \in Procs, DeclareCommit(c) PROVE WriteInv'
<1>1. /\ UNCHANGED <<tasks, file, edits>> /\ owed' \subseteq owed
      /\ Schema(Declared(schema, calls[c].declare))
  BY DEF DeclareCommit
<1>2. /\ calls[c].pc = "declare" /\ CallTyped(calls[c])
      /\ CallJudged(calls[c], schema, since[c], tasks)
  BY DEF WriteInv, DeclareCommit
<1>3. Declared(schema, calls[c].declare) \in Schemas
  BY <1>2, DeclaredTyped DEF WriteInv, CallTyped
<1>4. /\ schema' \in Schemas
      /\ since' = [d \in Procs |-> since'[d]]
      /\ \A d \in Procs : since'[d] \subseteq SUBSET ConfigTags
      /\ \A d \in Procs : CallJudged(calls[d], schema', since'[d], tasks)
  BY <1>1, <1>3, SeenAfter
<1>5. ASSUME NEW k, Goes(c, k), CallTyped(k), CallJudged(k, schema', since'[c], tasks)
      PROVE  WriteInv'
  BY <1>1, <1>4, <1>5, WriteMoves DEF WriteInv
<1>6. CASE To(c, "retire")
  BY <1>2, <1>4, <1>5, <1>6, GoesOnJudged DEF To
<1>7. CASE Ends(c, "done")
  BY <1>5, <1>7, IdleTyped, EndedJudged DEF Ends
<1> QED BY <1>6, <1>7 DEF DeclareCommit

LEMMA FileWrites == ASSUME WriteInv, EditFile \/ \E c \in Procs : Retire(c) PROVE WriteInv'
<1>1. CASE EditFile
  <2>1. PICK f \in Files : /\ file' = f
                           /\ owed' = (owed \cap schema.tags) \cup ImportedTags(f)
    BY <1>1 DEF EditFile
  <2>2. /\ edits < MaxEdits /\ edits' = edits + 1
        /\ UNCHANGED <<schema, tasks, calls, since>>
    BY <1>1 DEF EditFile
  <2>3. IsFile(f) /\ ImportedTags(f) \subseteq ConfigTags
    BY ImportedPresent, ImportedTyped
  <2>4. edits' \in 0..MaxEdits
    BY <2>2, TypesAssumption DEF WriteInv
  <2> QED BY <2>1, <2>2, <2>3, <2>4 DEF WriteInv
<1>2. ASSUME NEW c \in Procs, Retire(c) PROVE WriteInv'
  <2>1. /\ file' = WithoutMoved(file) /\ Goes(c, [Idle EXCEPT !.answer = "done"])
        /\ UNCHANGED <<schema, tasks, edits, owed, since>>
    BY <1>2 DEF Retire, Ends
  <2>2. IsFile(file') /\ ImportedTags(file') \subseteq ConfigTags
    BY <2>1, NothingMoved DEF WriteInv
  <2> QED BY <2>1, <2>2, IdleTyped, EndedJudged, WriteMoves DEF WriteInv
<1> QED BY <1>1, <1>2

\* What is kept of finitely many tags added, and of those held what they displace.
LEMMA KeptSound ==
  ASSUME NEW rules, NEW add \in Seq(Tags)
  PROVE  Kept(rules, add) \subseteq Tags /\ IsFiniteSet(Kept(rules, add))
<1> DEFINE D == {i \in DOMAIN add : IsScalar(rules, add[i].target) =>
                   \A j \in DOMAIN add : j > i => add[j].target # add[i].target}
           F == [i \in D |-> add[i]]
           K == {add[i] : i \in D}
           T == Tags
<1>1. K = Kept(rules, add)
  BY DEF Kept
<1>2. add \in Seq(T)
  OBVIOUS
<1>3. DOMAIN add = 1..Len(add) /\ Len(add) \in Nat /\ \A i \in DOMAIN add : add[i] \in T
  <2> HIDE DEF T
  <2> QED BY <1>2
<1>4. IsFiniteSet(1..Len(add))
  BY <1>3, FS_Interval
<1>5. D \in SUBSET (1..Len(add))
  BY <1>3
<1>6. IsFiniteSet(D)
  <2> HIDE DEF D
  <2> QED BY <1>4, <1>5, FS_Subset
<1>7. F \in [D -> K] /\ \A t \in K : \E i \in D : F[i] = t
  <2> HIDE DEF D
  <2> QED OBVIOUS
<1>8. IsFiniteSet(K)
  <2>1. F \in Surjection(D, K)
    <3> HIDE DEF F, D, K
    <3> QED BY <1>7, Fun_IsSurj
  <2> HIDE DEF F, D, K
  <2> QED BY <1>6, <2>1, FS_Surjection
<1>9. K \subseteq T
  BY <1>3
<1> QED BY <1>1, <1>8, <1>9

LEMMA JudgeWrites == ASSUME WriteInv, NEW c \in Procs, Judge(c) PROVE WriteInv'
<1>1. UNCHANGED <<schema, tasks, file, edits, owed, since>>
  BY DEF Judge
<1>2. PICK held : held = calls[c]
  OBVIOUS
<1>3. /\ held.pc = "judge" /\ CallTyped(held) /\ CallJudged(held, schema, since[c], tasks)
      /\ held.op \in {"add", "retag"}
  BY <1>2 DEF WriteInv, Judge, CallJudged
<1>4. PICK h \in Harps : h = held.harp
  BY <1>3 DEF CallTyped
<1>5. TaskSound(tasks[h])
  BY DEF WriteInv
<1>6. PICK add : add = Kept(held.rules, held.add)
  OBVIOUS
<1>7. PICK remove : remove = held.remove \cup Displaced(held.rules, tasks[h].tags, held.add)
  OBVIOUS
<1>8. PICK head : head = tasks[h].head
  OBVIOUS
<1>9. CASE Ends(c, "refused")
  BY <1>1, <1>9, IdleTyped, EndedJudged, WriteGoesOn DEF Ends
<1>10. PICK shaped : shaped = [add |-> add, remove |-> remove, head |-> head]
  OBVIOUS
<1>11. ASSUME Sound(Validate(held.rules, tasks[h].tags, add, remove)),
              Goes(c, [held EXCEPT !.pc = "commit", !.shaped = shaped])
       PROVE  WriteInv'
  <2>1. add \subseteq Tags /\ IsFiniteSet(add) /\ remove \subseteq Tags /\ head \in Nat
    BY <1>3, <1>5, <1>6, <1>7, <1>8, KeptSound DEF CallTyped, TaskSound, Displaced
  <2>2. shaped \in Shapes /\ shaped.add = add /\ shaped.remove = remove /\ shaped.head = head
    BY <1>10, <2>1 DEF Shapes
  <2>3. PICK k : k = [held EXCEPT !.pc = "commit", !.shaped = shaped]
    OBVIOUS
  <2>4. /\ IsCall(k) /\ k.pc = "commit" /\ k.op = held.op /\ k.harp = held.harp
        /\ k.add = held.add /\ k.remove = held.remove /\ k.declare = held.declare
        /\ k.rules = held.rules /\ k.schema = held.schema /\ k.shaped = shaped
    BY <1>3, <2>3 DEF CallTyped, IsCall
  <2>5. "commit" \in Pcs
    BY DEF Pcs
  <2>6. CallTyped(k)
    BY <1>3, <2>2, <2>4, <2>5 DEF CallTyped
  <2>7. CallJudged(k, schema, since[c], tasks)
    <3>1. tasks[k.harp].head = head /\ head \in Nat /\ k.harp = h
      BY <1>4, <1>8, <2>1, <2>4
    <3>2. Sound(Validate(k.rules, tasks[k.harp].tags, k.shaped.add, k.shaped.remove))
      BY <1>11, <2>2, <2>4, <3>1
    <3> QED BY <1>3, <2>1, <2>2, <2>4, <3>1, <3>2 DEF CallJudged
  <2> QED BY <1>1, <1>11, <2>3, <2>6, <2>7, WriteGoesOn
<1> QED BY <1>2, <1>4, <1>6, <1>7, <1>8, <1>9, <1>10, <1>11 DEF Judge

\* A write to a task leaves it typed, and what others shaped of it moved on.
LEMMA CommitTaskWrites == ASSUME WriteInv, NEW c \in Procs, CommitTask(c) PROVE WriteInv'
<1>1. UNCHANGED <<schema, file, edits, owed, since>>
  BY DEF CommitTask
<1>2. /\ calls[c].pc = "commit" /\ CallTyped(calls[c])
      /\ CallJudged(calls[c], schema, since[c], tasks) /\ calls[c].op \in {"add", "retag"}
  BY DEF WriteInv, CommitTask, CallJudged
<1>3. PICK h \in Harps : h = calls[c].harp
  BY <1>2 DEF CallTyped
<1>4. CASE To(c, "judge") /\ UNCHANGED tasks
  BY <1>1, <1>2, <1>4, GoesOnJudged, WriteGoesOn DEF To
<1>5. CASE Retag(c)
  <2>1. PICK shaped : shaped = calls[c].shaped
    OBVIOUS
  <2>2. shaped.add \subseteq Tags /\ IsFiniteSet(shaped.add) /\ TaskSound(tasks[h])
    BY <1>2, <2>1 DEF WriteInv, CallTyped, CallJudged, Shapes
  <2>3. PICK task : task = [tags |-> Retagged(tasks[h].tags, shaped.add, shaped.remove),
                            head |-> tasks[h].head + 1]
    OBVIOUS
  <2>4. task.tags = Retagged(tasks[h].tags, shaped.add, shaped.remove)
        /\ task.head = tasks[h].head + 1 /\ task = [tags |-> task.tags, head |-> task.head]
    BY <2>3
  <2>5. IsFiniteSet(task.tags)
    <3>1. IsFiniteSet(tasks[h].tags \cup shaped.add)
      BY <2>2, FS_Union DEF TaskSound
    <3>2. task.tags \in SUBSET (tasks[h].tags \cup shaped.add)
      BY <2>4 DEF Retagged
    <3> QED BY <3>1, <3>2, FS_Subset
  <2>6. TaskSound(task)
    BY <2>2, <2>4, <2>5 DEF TaskSound, Retagged
  <2>7. tasks' = [tasks EXCEPT ![h] = task] /\ Goes(c, [Idle EXCEPT !.answer = "done"])
    BY <1>3, <1>5, <2>1, <2>3 DEF Retag, Ends
  <2>8. /\ tasks' = [g \in Harps |-> tasks'[g]]
        /\ \A g \in Harps : tasks'[g] = IF g = h THEN task ELSE tasks[g]
    BY <2>7 DEF WriteInv
  <2>9. /\ tasks' = [g \in Harps |-> [tags |-> tasks'[g].tags, head |-> tasks'[g].head]]
        /\ \A g \in Harps : TaskSound(tasks'[g])
    BY <2>4, <2>6, <2>8 DEF WriteInv
  <2>10. ASSUME NEW d \in Procs, d # c PROVE CallJudged(calls[d], schema, since[d], tasks')
    <3>1. CallJudged(calls[d], schema, since[d], tasks) /\ CallTyped(calls[d])
      BY DEF WriteInv
    <3>2. CASE calls[d].harp # h \/ calls[d].pc # "commit"
      BY <2>8, <3>1, <3>2 DEF CallJudged, CallTyped
    <3>3. CASE calls[d].harp = h /\ calls[d].pc = "commit"
      <4>1. calls[d].shaped.head <= tasks[h].head /\ calls[d].shaped.head \in Nat
        BY <3>1, <3>3 DEF CallJudged, CallTyped, Shapes
      <4>2. tasks'[h].head = tasks[h].head + 1 /\ tasks[h].head \in Nat
        BY <2>2, <2>4, <2>8 DEF TaskSound
      <4>3. calls[d].shaped.head <= tasks'[h].head /\ calls[d].shaped.head # tasks'[h].head
        BY <4>1, <4>2
      <4> QED BY <3>1, <3>3, <4>3 DEF CallJudged
    <3> QED BY <3>2, <3>3
  <2> DEFINE ended == [Idle EXCEPT !.answer = "done"]
  <2>20. CallTyped(ended) /\ CallJudged(ended, schema, since[c], tasks')
    BY IdleTyped, EndedJudged
  <2>21. Goes(c, ended)
    BY <2>7
  <2> HIDE DEF ended
  <2>11. \A d \in Procs : calls'[d] = IF d = c THEN ended ELSE calls[d]
    BY <2>21 DEF WriteInv, Goes
  <2>12. calls' = [d \in Procs |-> calls'[d]]
    BY <2>7 DEF WriteInv, Goes
  <2>13. \A d \in Procs : CallTyped(calls'[d]) /\ CallJudged(calls'[d], schema, since[d], tasks')
    BY <2>10, <2>20, <2>11 DEF WriteInv
  <2>14. /\ schema' \in Schemas /\ since' = [d \in Procs |-> since'[d]]
         /\ \A d \in Procs : since'[d] \subseteq SUBSET ConfigTags
         /\ owed' \subseteq ConfigTags /\ edits' \in 0..MaxEdits
         /\ ImportedTags(file') \subseteq ConfigTags /\ IsFile(file')
    BY <1>1 DEF WriteInv
  <2>15. \A d \in Procs : CallTyped(calls'[d]) /\ CallJudged(calls'[d], schema', since'[d], tasks')
    BY <1>1, <2>13
  <2> QED BY <2>9, <2>12, <2>14, <2>15 DEF WriteInv
<1> QED BY <1>4, <1>5 DEF CommitTask

LEMMA InitWrites == Init => WriteInv
<1> SUFFICES ASSUME Init PROVE WriteInv
  OBVIOUS
<1>1. schema \in Schemas
  <2>1. CASE schema = Unread
    BY <2>1 DEF Schemas, Unread
  <2>2. ASSUME NEW old \in OldSchemas, schema = [tags |-> old, declared |-> TRUE, head |-> 1]
        PROVE  schema \in Schemas
    <3>1. old \in SUBSET ConfigTags
      BY TypesAssumption
    <3> QED BY <2>2, <3>1 DEF Schemas
  <2> QED BY <2>1, <2>2 DEF Init
<1>2. \A h \in Harps : /\ TaskSound(tasks[h])
                       /\ tasks[h] = [tags |-> tasks[h].tags, head |-> tasks[h].head]
  <2> SUFFICES ASSUME NEW h \in Harps
               PROVE  /\ TaskSound(tasks[h])
                      /\ tasks[h] = [tags |-> tasks[h].tags, head |-> tasks[h].head]
    OBVIOUS
  <2>1. CASE tasks[h] = Nothing
    BY <2>1, FS_EmptySet DEF TaskSound, Nothing
  <2>2. ASSUME NEW held \in TagsHeld, tasks[h] = [tags |-> held, head |-> 1]
        PROVE  /\ TaskSound(tasks[h])
               /\ tasks[h] = [tags |-> tasks[h].tags, head |-> tasks[h].head]
    BY <2>2, TypesAssumption DEF TaskSound
  <2> QED BY <2>1, <2>2 DEF Init
<1>3. tasks = [h \in Harps |-> [tags |-> tasks[h].tags, head |-> tasks[h].head]]
  <2>1. tasks = [h \in Harps |-> tasks[h]]
    BY DEF Init
  <2> QED BY <1>2, <2>1
<1>4. IsFile(file) /\ ImportedTags(file) = {}
  BY ImportedPresent, NothingMoved DEF Init
<1>5. edits \in 0..MaxEdits
  BY TypesAssumption DEF Init
<1>6. \A c \in Procs : CallTyped(calls[c]) /\ CallJudged(calls[c], schema, since[c], tasks)
  <2>1. Idle = [Idle EXCEPT !.answer = "none"]
    <3>1. PICK none, made, unread, unshaped :
            none = <<>> /\ made = NoDeclare /\ unread = Unread /\ unshaped = Unshaped
      OBVIOUS
    <3>2. Idle = [pc |-> "idle", op |-> "none", harp |-> "none", add |-> none, remove |-> {},
                  declare |-> made, rules |-> {}, schema |-> unread, shaped |-> unshaped,
                  answer |-> "none"]
      BY <3>1 DEF Idle
    <3> QED BY <3>2
  <2>2. CallTyped(Idle) /\ \A c \in Procs : CallJudged(Idle, schema, since[c], tasks)
    BY <2>1, IdleTyped, EndedJudged
  <2> QED BY <2>2 DEF Init
<1>7. /\ calls = [c \in Procs |-> calls[c]] /\ since = [c \in Procs |-> since[c]]
      /\ \A c \in Procs : since[c] = {} /\ owed = {}
  BY DEF Init
<1>8. owed \subseteq ConfigTags
  BY DEF Init
<1> QED BY <1>1, <1>2, <1>3, <1>4, <1>5, <1>6, <1>7, <1>8 DEF WriteInv

LEMMA NextWrites == WriteInv /\ [Next]_vars => WriteInv'
<1> SUFFICES ASSUME WriteInv, [Next]_vars PROVE WriteInv'
  OBVIOUS
<1>1. CASE UNCHANGED vars
  BY <1>1 DEF WriteInv, vars
<1>2. CASE EditFile
  BY <1>2, FileWrites
<1>3. ASSUME NEW c \in Procs, NEW r \in Requests[c], Begin(c, r) \/ BeginImport(c, r)
      PROVE  WriteInv'
  BY <1>3, BeginWrites
<1>4. ASSUME NEW c \in Procs, Step(c) \/ Fail(c) PROVE WriteInv'
  BY <1>4, ReadingWrites, ReadSchemaWrites, SeedCommitWrites, ImportSeededWrites,
     DeclareCommitWrites, FileWrites, JudgeWrites, CommitTaskWrites DEF Step
<1> QED BY <1>1, <1>2, <1>3, <1>4 DEF Next

LEMMA SpecWrites == Spec => []WriteInv
<1>1. Init => WriteInv
  BY InitWrites
<1>2. WriteInv /\ [Next]_vars => WriteInv'
  BY NextWrites
<1> QED BY <1>1, <1>2, PTL DEF Spec

\* Whatever is declared, read, judged and sent, every part of the store and of
\* the calls on it is of its type (StoreRules, the whole state).
THEOREM StoreTyped == Spec => []TypeOK
<1>1. WriteInv => TypeOK
  <2> SUFFICES ASSUME WriteInv PROVE TypeOK
    OBVIOUS
  <2>1. tasks \in [Harps -> [tags: SUBSET Tags, head: Nat]]
    BY DEF WriteInv, TaskSound
  <2>2. schema \in [tags: SUBSET ConfigTags, declared: BOOLEAN, head: Nat]
    BY DEF WriteInv, Schemas
  <2>3. \A c \in Procs :
          /\ calls[c].pc \in {"idle", "rules", "read", "list", "seed", "seed_commit", "seeded",
                              "judge", "commit", "declare", "retire"}
          /\ calls[c].declare.add \cup calls[c].declare.remove \subseteq ConfigTags
          /\ calls[c].rules \subseteq ConfigTags
          /\ calls[c].shaped \in [add: SUBSET Tags, remove: SUBSET Tags, head: Nat]
          /\ since[c] \subseteq SUBSET ConfigTags
    BY DEF WriteInv, CallTyped, Pcs, Shapes
  <2> QED BY <2>1, <2>2, <2>3 DEF WriteInv, TypeOK
<1> QED BY <1>1, SpecWrites, PTL

\* A task is written by a call that sends what it judged at that head.
LEMMA WrittenByCommit ==
  ASSUME WriteInv, [Next]_vars, NEW h \in Harps, tasks'[h] # tasks[h]
  PROVE  \E c \in Procs :
           /\ calls[c].harp = h /\ calls[c].pc = "commit"
           /\ calls[c].shaped.head = tasks[h].head
           /\ \A g \in Harps : g # h => tasks'[g] = tasks[g]
           /\ tasks'[h].tags =
                Retagged(tasks[h].tags, calls[c].shaped.add, calls[c].shaped.remove)
           /\ UNCHANGED <<schema, since>>
<1>1. PICK c \in Procs : CommitTask(c) /\ tasks' # tasks
  BY DEF Next, vars, Step, AddJudged, RevokeRead, RevokeList, ReadSchema, SeedCommit,
         ImportSeeded, DeclareCommit, Retire, Judge, Fail, Begin, BeginImport, EditFile
<1>2. /\ Retag(c) /\ calls[c].pc = "commit" /\ UNCHANGED <<schema, since>>
      /\ tasks[calls[c].harp].head = calls[c].shaped.head
  BY <1>1 DEF CommitTask
<1>3. tasks' = [tasks EXCEPT ![calls[c].harp] =
         [tags |-> Retagged(@.tags, calls[c].shaped.add, calls[c].shaped.remove),
          head |-> @.head + 1]]
  BY <1>2 DEF Retag
<1>4. \A g \in Harps : g # calls[c].harp => tasks'[g] = tasks[g]
  BY <1>3 DEF WriteInv
<1>5. calls[c].harp = h
  BY <1>4
<1>6. tasks'[h].tags = Retagged(tasks[h].tags, calls[c].shaped.add, calls[c].shaped.remove)
  BY <1>3, <1>5 DEF WriteInv
<1> QED BY <1>2, <1>4, <1>5, <1>6

\* A write that reaches a task, however many writers and declares race it,
\* leaves lint nothing new to say by some rules the store had while it ran
\* (change.rs, retag; add.rs, add).
THEOREM WritesJudged == Spec => JudgedWithinCall
<1> DEFINE Judged ==
      \A h \in Harps : tasks'[h] # tasks[h] =>
       \E c \in Procs :
         /\ calls[c].harp = h
         /\ \E rules \in since[c] : \A closed \in SUBSET Harps :
              LintOf(rules, tasks', closed) \subseteq LintOf(rules, tasks, closed)
<1>1. WriteInv /\ [Next]_vars => [Judged]_vars
  <2> SUFFICES ASSUME WriteInv, [Next]_vars, NEW h \in Harps, tasks'[h] # tasks[h]
               PROVE  \E c \in Procs :
                        /\ calls[c].harp = h
                        /\ \E rules \in since[c] : \A closed \in SUBSET Harps :
                             LintOf(rules, tasks', closed) \subseteq LintOf(rules, tasks, closed)
    OBVIOUS
  <2>1. PICK c \in Procs :
           /\ calls[c].harp = h /\ calls[c].pc = "commit"
           /\ calls[c].shaped.head = tasks[h].head
           /\ \A g \in Harps : g # h => tasks'[g] = tasks[g]
           /\ tasks'[h].tags =
                Retagged(tasks[h].tags, calls[c].shaped.add, calls[c].shaped.remove)
    BY WrittenByCommit
  <2>2. /\ calls[c].rules \in since[c]
        /\ Sound(Validate(calls[c].rules, tasks[h].tags, calls[c].shaped.add,
                          calls[c].shaped.remove))
    BY <2>1 DEF WriteInv, CallJudged
  <2>3. IsFiniteSet(tasks[h].tags)
    BY DEF WriteInv, TaskSound
  <2>4. ASSUME NEW closed \in SUBSET Harps
        PROVE  LintOf(calls[c].rules, tasks', closed) \subseteq LintOf(calls[c].rules, tasks, closed)
    <3>1. ASSUME NEW g \in Harps
          PROVE  RuleFindings(calls[c].rules, tasks'[g].tags, g \in closed)
                   \subseteq RuleFindings(calls[c].rules, tasks[g].tags, g \in closed)
      <4>1. CASE g # h
        BY <2>1, <4>1
      <4>2. CASE g = h
        BY <2>1, <2>2, <2>3, <4>2, SoundAddsNoFinding
      <4> QED BY <4>1, <4>2
    <3> QED BY <3>1 DEF LintOf
  <2> QED BY <2>1, <2>2, <2>4
<1>2. [][Judged]_vars <=> JudgedWithinCall
  BY DEF JudgedWithinCall
<1> QED BY <1>1, <1>2, SpecWrites, PTL DEF Spec

------------------------------------------------------------------------------
(* Scalars: a task holds one value of each.                                 *)

NoScalars(tags) == \A tag \in tags : ~(tag.facet = "arity" /\ tag.value = "scalar")

OneValued(rules, tags) ==
  \A a, b \in tags : a.target = b.target /\ IsScalar(rules, a.target) => a = b

\* No target becomes a scalar once the store is there, and the tasks it starts
\* with hold one value of those that are.
ScalarsStand ==
  /\ \A c \in Procs : \A r \in Requests[c] : NoScalars(r.declare.add)
  /\ \A f \in Files : NoScalars(ImportedTags(f))
  /\ \A held \in TagsHeld : /\ OneValued(Seed, held)
                            /\ \A old \in OldSchemas : OneValued(old, held)

\* The targets that schema n makes scalars, schema s does.
Shrinks(s, n) == \A t : IsScalar(RulesOf(n), t) => IsScalar(RulesOf(s), t)

\* Call k, by the schema s and the tasks: what it declares makes no target a
\* scalar; what it seeds, at the schema's head, was shaped on that schema; it
\* judges by scalars that include the schema's; and its task, if that has not
\* moved since it was shaped, will hold one value of those.
CallOne(k, s, at) ==
  /\ NoScalars(k.declare.add)
  /\ k.pc = "seed_commit" => Follows(k.schema, s)
  /\ k.pc \in {"judge", "commit"} => \A t : IsScalar(RulesOf(s), t) => IsScalar(k.rules, t)
  /\ k.pc = "commit" /\ k.shaped.head = at[k.harp].head =>
       OneValued(RulesOf(s), Retagged(at[k.harp].tags, k.shaped.add, k.shaped.remove))

OneInv ==
  /\ WriteInv
  /\ SchemaSound(schema)
  /\ NoScalars(ImportedTags(file))
  /\ \A h \in Harps : OneValued(RulesOf(schema), tasks[h].tags)
  /\ \A c \in Procs : CallOne(calls[c], schema, tasks)

\* An allowlist has the scalars of the rules it is read from.
LEMMA AllowlistedScalars ==
  ASSUME NEW rules, NEW t
  PROVE  IsScalar(Allowlisted(rules), t) <=> IsScalar(rules, t)
<1> DEFINE tag == [facet |-> "arity", of |-> t, value |-> "scalar"]
<1>1. tag.facet = "arity"
  OBVIOUS
<1>2. \A p : tag # PermitTag(p)
  BY DEF PermitTag
<1>3. \A other : tag \notin Facet(other, "permit")
  BY <1>1 DEF Facet
<1> HIDE DEF tag
<1>4. tag \in Allowlisted(rules) <=> tag \in rules
  BY <1>2, <1>3 DEF Allowlisted
<1> QED BY <1>4 DEF IsScalar, tag

LEMMA DeclaredShrinks ==
  ASSUME NEW s, SchemaSound(s), NEW d, NoScalars(d.add)
  PROVE  Shrinks(s, Declared(s, d))
<1> DEFINE n == Declared(s, d)
<1> SUFFICES ASSUME NEW t, IsScalar(RulesOf(n), t) PROVE IsScalar(RulesOf(s), t)
  BY DEF Shrinks
<1> DEFINE tag == [facet |-> "arity", of |-> t, value |-> "scalar"]
<1>1. CASE n = s
  BY <1>1
<1>2. CASE n # s
  <2>1. n.declared /\ n.tags = TagsAfter(s, d)
    BY <1>2 DEF Declared
  <2>2. IsScalar(TagsAfter(s, d), t)
    BY <2>1, AllowlistedScalars DEF RulesOf
  <2>3. tag \notin d.add
    BY DEF NoScalars
  <2>4. tag \in s.tags
    BY <2>2, <2>3 DEF TagsAfter, IsScalar
  <2>5. s.declared
    BY <2>4 DEF SchemaSound
  <2> QED BY <2>4, <2>5, AllowlistedScalars DEF RulesOf, IsScalar
<1> QED BY <1>1, <1>2

LEMMA SeedingShrinks ==
  ASSUME NEW s, SchemaSound(s)
  PROVE  Shrinks(s, Declared(s, Seeding(s)))
<1> DEFINE n == Declared(s, Seeding(s))
<1> SUFFICES ASSUME NEW t, IsScalar(RulesOf(n), t) PROVE IsScalar(RulesOf(s), t)
  BY DEF Shrinks
<1>1. CASE n = s
  BY <1>1
<1>2. CASE n # s
  <2>1. n.declared /\ n.tags = TagsAfter(s, Seeding(s))
    BY <1>2 DEF Declared
  <2>2. TagsAfter(s, Seeding(s)) = RulesOf(s)
    BY DEF TagsAfter, Seeding
  <2> QED BY <2>1, <2>2, AllowlistedScalars DEF RulesOf
<1> QED BY <1>1, <1>2

\* Tasks hold one value by fewer scalars as well.
LEMMA OneByFewer ==
  ASSUME NEW s, NEW n, Shrinks(s, n), NEW tags, OneValued(RulesOf(s), tags)
  PROVE  OneValued(RulesOf(n), tags)
BY DEF Shrinks, OneValued

LEMMA OneAfter ==
  ASSUME NEW k, CallTyped(k), NEW s \in Schemas, NEW n \in Schemas, NEW at,
         CallOne(k, s, at), Follows(s, n), Shrinks(s, n)
  PROVE  CallOne(k, n, at)
<1>1. k.pc = "seed_commit" => Follows(k.schema, n)
  BY DEF CallOne, CallTyped, Follows, Schemas
<1>2. k.pc = "commit" /\ k.shaped.head = at[k.harp].head =>
        OneValued(RulesOf(n), Retagged(at[k.harp].tags, k.shaped.add, k.shaped.remove))
  BY OneByFewer DEF CallOne
<1>3. k.pc \in {"judge", "commit"} => \A t : IsScalar(RulesOf(n), t) => IsScalar(k.rules, t)
  BY DEF CallOne, Shrinks
<1> QED BY <1>1, <1>2, <1>3 DEF CallOne

\* A call moves, and the tasks stay.
LEMMA OneMoves ==
  ASSUME OneInv, WriteInv', NEW c \in Procs, NEW k, Goes(c, k), CallOne(k, schema', tasks),
         UNCHANGED tasks, SchemaSound(schema'), Follows(schema, schema'),
         Shrinks(schema, schema'), NoScalars(ImportedTags(file'))
  PROVE  OneInv'
<1>1. \A d \in Procs : calls'[d] = IF d = c THEN k ELSE calls[d]
  BY DEF OneInv, WriteInv, Goes
<1>2. \A d \in Procs : CallOne(calls[d], schema', tasks)
  BY OneAfter DEF OneInv, WriteInv
<1>3. \A d \in Procs : CallOne(calls'[d], schema', tasks')
  BY <1>1, <1>2
<1>4. \A h \in Harps : OneValued(RulesOf(schema'), tasks'[h].tags)
  BY OneByFewer DEF OneInv
<1> QED BY <1>3, <1>4 DEF OneInv

\* As does the schema, and the file imports no more.
LEMMA OneGoesOn ==
  ASSUME OneInv, WriteInv', NEW c \in Procs, NEW k, Goes(c, k), CallOne(k, schema, tasks),
         UNCHANGED <<schema, tasks>>,
         UNCHANGED file \/ ImportedTags(file') = {}
  PROVE  OneInv'
BY OneMoves DEF OneInv, Follows, Shrinks, NoScalars

LEMMA EndedOne ==
  ASSUME NEW said, NEW s, NEW at
  PROVE  CallOne([Idle EXCEPT !.answer = said], s, at)
BY DEF CallOne, Idle, NoDeclare, NoScalars

\* A call that goes on to no judging and no seeding.
LEMMA GoesOnOne ==
  ASSUME NEW k, CallTyped(k), NEW s, NEW at, CallOne(k, s, at),
         NEW pc \in {"list", "seed", "retire", "declare", "seeded"}
  PROVE  CallOne([k EXCEPT !.pc = pc], s, at)
<1> DEFINE n == [k EXCEPT !.pc = pc]
<1>1. n.pc = pc /\ n.declare = k.declare
  BY DEF CallTyped, IsCall
<1> HIDE DEF n
<1>2. CallOne(n, s, at)
  BY <1>1 DEF CallOne
<1> QED BY <1>2 DEF n

\* Where a call goes once the stream is seeded, by the rules it has now.
LEMMA SeededOne ==
  ASSUME NEW c \in Procs, NEW s, NEW at, CallTyped(calls[c]),
         calls[c].pc \in {"seed", "seed_commit"}, NoScalars(calls[c].declare.add),
         Seeded(c, RulesOf(s))
  PROVE  \E k : Goes(c, k) /\ CallOne(k, s, at)
<1>1. PICK held : held = calls[c]
  OBVIOUS
<1>2. PICK rules : rules = RulesOf(s)
  OBVIOUS
<1> DEFINE call == [calls[c] EXCEPT !.rules = rules]
<1>3. ASSUME NEW pc \in {"judge", "declare", "seeded"}, Goes(c, [call EXCEPT !.pc = pc])
      PROVE  \E k : Goes(c, k) /\ CallOne(k, s, at)
  <2>1. PICK k : k = [call EXCEPT !.pc = pc]
    OBVIOUS
  <2>2. k.pc = pc /\ k.declare = held.declare /\ k.rules = rules
    BY <1>1, <2>1 DEF CallTyped, IsCall
  <2>3. CallOne(k, s, at)
    BY <1>1, <1>2, <2>2 DEF CallOne
  <2> QED BY <1>3, <2>1, <2>3
<1>4. CASE Ends(c, "done")
  BY <1>4, EndedOne DEF Ends
<1>5. call.op = held.op /\ held.op \in Operations \cup {"importing"}
  BY <1>1 DEF CallTyped, IsCall
<1>6. CASE held.op \in {"add", "retag"}
  BY <1>2, <1>3, <1>5, <1>6 DEF Seeded
<1>7. CASE held.op \in {"declare", "revoke", "importing"}
  BY <1>2, <1>3, <1>5, <1>7 DEF Seeded
<1>8. CASE held.op = "import"
  BY <1>2, <1>3, <1>5, <1>8 DEF Seeded
<1>9. CASE held.op = "export"
  BY <1>2, <1>4, <1>5, <1>9 DEF Seeded
<1> QED BY <1>5, <1>6, <1>7, <1>8, <1>9 DEF Operations

LEMMA BeginOne ==
  ASSUME OneInv, WriteInv', ScalarsStand, NEW c \in Procs, NEW r \in Requests[c],
         Begin(c, r) \/ BeginImport(c, r)
  PROVE  OneInv'
<1>1. UNCHANGED <<schema, tasks, file>>
  BY DEF Begin, BeginImport
<1>2. IsCall(r) /\ NoScalars(r.declare.add)
  BY RequestTyped DEF ScalarsStand
<1>3. CASE Ends(c, "refused")
  BY <1>1, <1>3, EndedOne, OneGoesOn DEF Ends
<1>4. ASSUME NEW pc \in {"rules", "read", "seed"}, Goes(c, [r EXCEPT !.pc = pc])
      PROVE  OneInv'
  <2>1. CallOne([r EXCEPT !.pc = pc], schema, tasks)
    BY <1>2 DEF CallOne, IsCall
  <2> QED BY <1>1, <1>4, <2>1, OneGoesOn
<1>5. CASE Goes(c, [r EXCEPT !.pc = "seed", !.declare.add = ImportedTags(file)])
  <2> DEFINE k == [r EXCEPT !.pc = "seed", !.declare.add = ImportedTags(file)]
  <2>1. k.pc = "seed" /\ k.declare.add = ImportedTags(file)
    BY <1>2 DEF IsCall, IsDeclaration
  <2> HIDE DEF k
  <2>2. CallOne(k, schema, tasks)
    BY <2>1 DEF CallOne, OneInv
  <2> QED BY <1>1, <1>5, <2>2, OneGoesOn DEF k
<1> QED BY <1>3, <1>4, <1>5 DEF Begin, BeginImport

\* A call reads, dies, gives up, or takes the file's moved keys out.
LEMMA ReadingOne ==
  ASSUME OneInv, WriteInv', NEW c \in Procs,
         \/ AddJudged(c) \/ RevokeRead(c) \/ RevokeList(c) \/ ImportSeeded(c)
         \/ Retire(c) \/ Fail(c)
  PROVE  OneInv'
<1>1. /\ UNCHANGED <<schema, tasks>>
      /\ UNCHANGED file \/ ImportedTags(file') = {}
  BY NothingMoved DEF AddJudged, RevokeRead, RevokeList, ImportSeeded, Retire, Fail, OneInv, WriteInv
<1>2. CallTyped(calls[c]) /\ CallOne(calls[c], schema, tasks)
  BY DEF OneInv, WriteInv
<1>3. ASSUME NEW said, Ends(c, said) PROVE OneInv'
  BY <1>1, <1>3, EndedOne, OneGoesOn DEF Ends
<1>4. ASSUME NEW pc \in {"list", "seed", "retire"}, To(c, pc) PROVE OneInv'
  BY <1>1, <1>2, <1>4, GoesOnOne, OneGoesOn DEF To
<1>5. CASE Goes(c, [calls[c] EXCEPT !.pc = "seed", !.op = "importing"])
  <2> DEFINE k == [calls[c] EXCEPT !.pc = "seed", !.op = "importing"]
  <2>1. k.pc = "seed" /\ k.declare = calls[c].declare
    BY <1>2 DEF CallTyped, IsCall
  <2> HIDE DEF k
  <2>2. CallOne(k, schema, tasks)
    BY <1>2, <2>1 DEF CallOne
  <2> QED BY <1>1, <1>5, <2>2, OneGoesOn DEF k
<1> QED BY <1>3, <1>4, <1>5 DEF AddJudged, RevokeRead, RevokeList, ImportSeeded, Retire, Fail

LEMMA ReadSchemaOne == ASSUME OneInv, WriteInv', NEW c \in Procs, ReadSchema(c) PROVE OneInv'
<1>1. UNCHANGED <<schema, tasks, file>>
  BY DEF ReadSchema
<1>2. /\ calls[c].pc = "seed" /\ CallTyped(calls[c]) /\ CallOne(calls[c], schema, tasks)
  BY DEF OneInv, WriteInv, ReadSchema
<1>3. CASE Goes(c, [calls[c] EXCEPT !.pc = "seed_commit", !.schema = schema])
  <2> DEFINE k == [calls[c] EXCEPT !.pc = "seed_commit", !.schema = schema]
  <2>1. k.pc = "seed_commit" /\ k.declare = calls[c].declare /\ k.schema = schema
    BY <1>2 DEF CallTyped, IsCall
  <2> HIDE DEF k
  <2>2. CallOne(k, schema, tasks)
    BY <1>2, <2>1 DEF CallOne, Follows
  <2> QED BY <1>1, <1>3, <2>2, OneGoesOn DEF k
<1>4. CASE Seeded(c, RulesOf(schema))
  <2>1. PICK k : Goes(c, k) /\ CallOne(k, schema, tasks)
    BY <1>2, <1>4, SeededOne DEF CallOne
  <2> QED BY <1>1, <2>1, OneGoesOn
<1> QED BY <1>3, <1>4 DEF ReadSchema

LEMMA SeedCommitOne == ASSUME OneInv, WriteInv', NEW c \in Procs, SeedCommit(c) PROVE OneInv'
<1>1. UNCHANGED <<tasks, file>>
  BY DEF SeedCommit
<1>2. /\ calls[c].pc = "seed_commit" /\ CallTyped(calls[c]) /\ CallOne(calls[c], schema, tasks)
  BY DEF OneInv, WriteInv, SeedCommit
<1>3. CASE To(c, "seed") /\ UNCHANGED <<schema, since>>
  BY <1>1, <1>2, <1>3, GoesOnOne, OneGoesOn DEF To
<1>4. CASE /\ schema.head = calls[c].schema.head
           /\ Schema(Declared(schema, Seeding(calls[c].schema)))
           /\ Seeded(c, RulesOf(schema'))
  <2>1. calls[c].schema = schema
    BY <1>2, <1>4 DEF CallOne, Follows, CallTyped, Schemas, OneInv, WriteInv
  <2>2. schema' = Declared(schema, Seeding(schema))
    BY <1>4, <2>1 DEF Schema
  <2>3. SchemaSound(schema') /\ Follows(schema, schema') /\ Shrinks(schema, schema')
    BY <2>2, DeclaredSound, SeedingShrinks DEF OneInv
  <2>4. PICK k : Goes(c, k) /\ CallOne(k, schema', tasks)
    BY <1>2, <1>4, SeededOne DEF CallOne
  <2> QED BY <1>1, <2>3, <2>4, OneMoves DEF OneInv
<1> QED BY <1>3, <1>4 DEF SeedCommit

LEMMA DeclareCommitOne ==
  ASSUME OneInv, WriteInv', NEW c \in Procs, DeclareCommit(c)
  PROVE  OneInv'
<1>1. UNCHANGED <<tasks, file>> /\ schema' = Declared(schema, calls[c].declare)
  BY DEF DeclareCommit, Schema
<1>2. CallTyped(calls[c]) /\ CallOne(calls[c], schema, tasks)
  BY DEF OneInv, WriteInv
<1>3. SchemaSound(schema') /\ Follows(schema, schema') /\ Shrinks(schema, schema')
  BY <1>1, <1>2, DeclaredSound, DeclaredShrinks DEF OneInv, CallOne
<1>4. CallOne(calls[c], schema', tasks)
  BY <1>2, <1>3, OneAfter DEF OneInv, WriteInv
<1>5. CASE To(c, "retire")
  BY <1>1, <1>2, <1>3, <1>4, <1>5, GoesOnOne, OneMoves DEF To, OneInv
<1>6. CASE Ends(c, "done")
  BY <1>1, <1>3, <1>6, EndedOne, OneMoves DEF Ends, OneInv
<1> QED BY <1>5, <1>6 DEF DeclareCommit

LEMMA EditOne == ASSUME OneInv, WriteInv', ScalarsStand, EditFile PROVE OneInv'
<1>1. PICK f \in Files : file' = f
  BY DEF EditFile
<1>2. UNCHANGED <<schema, tasks, calls>>
  BY DEF EditFile
<1> QED BY <1>1, <1>2 DEF OneInv, ScalarsStand

\* Of the tags added, one of each scalar is kept.
LEMMA KeptOne ==
  ASSUME NEW rules, NEW add \in Seq(Tags), NEW a \in Kept(rules, add), NEW b \in Kept(rules, add),
         a.target = b.target, IsScalar(rules, a.target)
  PROVE  a = b
<1> DEFINE T == Tags
<1>1. DOMAIN add = 1..Len(add) /\ Len(add) \in Nat
  <2>1. add \in Seq(T)
    OBVIOUS
  <2> HIDE DEF T
  <2> QED BY <2>1
<1>2. PICK i \in DOMAIN add : /\ a = add[i]
                              /\ IsScalar(rules, add[i].target) =>
                                   \A j \in DOMAIN add : j > i => add[j].target # add[i].target
  BY DEF Kept
<1>3. PICK j \in DOMAIN add : /\ b = add[j]
                              /\ IsScalar(rules, add[j].target) =>
                                   \A l \in DOMAIN add : l > j => add[l].target # add[j].target
  BY DEF Kept
<1>4. ~(j > i) /\ ~(i > j)
  BY <1>2, <1>3
<1>5. i = j
  BY <1>1, <1>4
<1> QED BY <1>2, <1>3, <1>5

\* What is shaped on a task that holds one value of each scalar leaves it one.
LEMMA ShapedOne ==
  ASSUME NEW rules, NEW held \in SUBSET Tags, NEW add \in Seq(Tags), NEW taken,
         NEW fewer, \A t : IsScalar(fewer, t) => IsScalar(rules, t), OneValued(fewer, held)
  PROVE  OneValued(fewer, Retagged(held, Kept(rules, add),
                                   taken \cup Displaced(rules, held, add)))
<1> DEFINE kept == Kept(rules, add)
           after == Retagged(held, kept, taken \cup Displaced(rules, held, add))
<1> SUFFICES ASSUME NEW a \in after, NEW b \in after, a.target = b.target,
                    IsScalar(fewer, a.target)
             PROVE  a = b
  BY DEF OneValued
<1>1. /\ a \in held \cup kept /\ b \in held \cup kept
      /\ a \notin Displaced(rules, held, add) /\ b \notin Displaced(rules, held, add)
  BY DEF Retagged
<1>2. IsScalar(rules, a.target) /\ IsScalar(rules, b.target)
  OBVIOUS
<1>3. a \in Tags /\ b \in Tags
  BY <1>1, KeptSound
<1>4. CASE a \in held /\ b \in held
  BY <1>4 DEF OneValued
<1>5. CASE a \in kept /\ b \in kept
  BY <1>2, <1>5, KeptOne
<1>6. a.value = b.value => a = b
  BY <1>3 DEF Tags
<1> HIDE DEF kept, after
<1>7. CASE a \in held /\ b \in kept
  BY <1>1, <1>2, <1>6, <1>7 DEF Displaced, kept
<1>8. CASE b \in held /\ a \in kept
  BY <1>1, <1>2, <1>6, <1>8 DEF Displaced, kept
<1> QED BY <1>1, <1>4, <1>5, <1>7, <1>8

LEMMA JudgeOne == ASSUME OneInv, WriteInv', NEW c \in Procs, Judge(c) PROVE OneInv'
<1>1. UNCHANGED <<schema, tasks, file>>
  BY DEF Judge
<1>2. PICK held : held = calls[c]
  OBVIOUS
<1>3. /\ held.pc = "judge" /\ CallTyped(held) /\ CallOne(held, schema, tasks)
      /\ held.op \in {"add", "retag"}
  BY <1>2 DEF OneInv, WriteInv, Judge, CallJudged
<1>4. PICK h \in Harps : h = held.harp
  BY <1>3 DEF CallTyped
<1>5. tasks[h].tags \in SUBSET Tags /\ OneValued(RulesOf(schema), tasks[h].tags)
  BY DEF OneInv, WriteInv, TaskSound
<1>6. PICK add : add = Kept(held.rules, held.add)
  OBVIOUS
<1>7. PICK remove : remove = held.remove \cup Displaced(held.rules, tasks[h].tags, held.add)
  OBVIOUS
<1>8. PICK shaped : shaped = [add |-> add, remove |-> remove, head |-> tasks[h].head]
  OBVIOUS
<1>9. CASE Ends(c, "refused")
  BY <1>1, <1>9, EndedOne, OneGoesOn DEF Ends
<1>10. ASSUME Goes(c, [held EXCEPT !.pc = "commit", !.shaped = shaped])
       PROVE  OneInv'
  <2>1. OneValued(RulesOf(schema), Retagged(tasks[h].tags, add, remove))
    <3>1. \A t : IsScalar(RulesOf(schema), t) => IsScalar(held.rules, t)
      BY <1>3 DEF CallOne
    <3>2. held.add \in Seq(Tags)
      BY <1>3 DEF CallTyped
    <3> QED BY <1>5, <1>6, <1>7, <3>1, <3>2, ShapedOne
  <2>2. PICK k : k = [held EXCEPT !.pc = "commit", !.shaped = shaped]
    OBVIOUS
  <2>3. /\ k.pc = "commit" /\ k.harp = h /\ k.declare = held.declare /\ k.rules = held.rules
        /\ k.shaped.add = add /\ k.shaped.remove = remove
    BY <1>3, <1>4, <1>8, <2>2 DEF CallTyped, IsCall
  <2>4. CallOne(k, schema, tasks)
    BY <1>3, <2>1, <2>3 DEF CallOne
  <2> QED BY <1>1, <1>10, <2>2, <2>4, OneGoesOn
<1> QED BY <1>2, <1>4, <1>6, <1>7, <1>8, <1>9, <1>10 DEF Judge

LEMMA CommitTaskOne == ASSUME OneInv, WriteInv', NEW c \in Procs, CommitTask(c) PROVE OneInv'
<1>1. UNCHANGED <<schema, file>>
  BY DEF CommitTask
<1>2. /\ calls[c].pc = "commit" /\ CallTyped(calls[c]) /\ CallOne(calls[c], schema, tasks)
      /\ calls[c].op \in {"add", "retag"}
  BY DEF OneInv, WriteInv, CommitTask, CallJudged
<1>3. PICK h \in Harps : h = calls[c].harp
  BY <1>2 DEF CallTyped
<1>4. CASE To(c, "judge") /\ UNCHANGED tasks
  <2> DEFINE k == [calls[c] EXCEPT !.pc = "judge"]
  <2>1. k.pc = "judge" /\ k.declare = calls[c].declare /\ k.rules = calls[c].rules
    BY <1>2 DEF CallTyped, IsCall
  <2> HIDE DEF k
  <2>2. CallOne(k, schema, tasks)
    BY <1>2, <2>1 DEF CallOne
  <2> QED BY <1>1, <1>4, <2>2, OneGoesOn DEF To, k
<1>5. CASE tasks[calls[c].harp].head = calls[c].shaped.head /\ Retag(c)
  <2>1. PICK shaped : shaped = calls[c].shaped
    OBVIOUS
  <2>2. OneValued(RulesOf(schema), Retagged(tasks[h].tags, shaped.add, shaped.remove))
    BY <1>2, <1>3, <1>5, <2>1 DEF CallOne
  <2>3. PICK task : task = [tags |-> Retagged(tasks[h].tags, shaped.add, shaped.remove),
                            head |-> tasks[h].head + 1]
    OBVIOUS
  <2>4. OneValued(RulesOf(schema), task.tags) /\ task.head = tasks[h].head + 1
    BY <2>2, <2>3
  <2>5. tasks' = [tasks EXCEPT ![h] = task] /\ Goes(c, [Idle EXCEPT !.answer = "done"])
    BY <1>3, <1>5, <2>1, <2>3 DEF Retag, Ends
  <2>6. \A g \in Harps : tasks'[g] = IF g = h THEN task ELSE tasks[g]
    BY <2>5 DEF OneInv, WriteInv
  <2>7. \A g \in Harps : OneValued(RulesOf(schema), tasks'[g].tags)
    BY <2>4, <2>6 DEF OneInv
  <2>8. ASSUME NEW d \in Procs, d # c PROVE CallOne(calls[d], schema, tasks')
    <3>1. /\ CallOne(calls[d], schema, tasks) /\ CallTyped(calls[d])
          /\ CallJudged(calls[d], schema, since[d], tasks)
      BY DEF OneInv, WriteInv
    <3>2. CASE calls[d].pc # "commit"
      BY <3>1, <3>2 DEF CallOne
    <3>3. CASE calls[d].pc = "commit" /\ calls[d].harp # h
      <4>1. calls[d].harp \in Harps
        BY <3>1, <3>3 DEF CallJudged, CallTyped
      <4>2. tasks'[calls[d].harp] = tasks[calls[d].harp]
        BY <2>6, <3>3, <4>1
      <4> QED BY <3>1, <4>2 DEF CallOne
    <3>4. CASE calls[d].pc = "commit" /\ calls[d].harp = h
      <4>1. calls[d].shaped.head <= tasks[h].head /\ calls[d].shaped.head \in Nat
        BY <3>1, <3>4 DEF CallJudged, CallTyped, Shapes
      <4>2. tasks'[h].head = tasks[h].head + 1 /\ tasks[h].head \in Nat
        BY <2>4, <2>6 DEF OneInv, WriteInv, TaskSound
      <4>3. calls[d].shaped.head # tasks'[calls[d].harp].head
        BY <3>4, <4>1, <4>2
      <4> QED BY <3>1, <3>4, <4>3 DEF CallOne
    <3> QED BY <3>2, <3>3, <3>4
  <2> DEFINE ended == [Idle EXCEPT !.answer = "done"]
  <2>9. CallOne(ended, schema, tasks') /\ Goes(c, ended)
    BY <2>5, EndedOne
  <2> HIDE DEF ended
  <2>10. \A d \in Procs : calls'[d] = IF d = c THEN ended ELSE calls[d]
    BY <2>9 DEF OneInv, WriteInv, Goes
  <2>11. \A d \in Procs : CallOne(calls'[d], schema, tasks')
    BY <2>8, <2>9, <2>10
  <2> QED BY <1>1, <2>7, <2>11 DEF OneInv
<1> QED BY <1>4, <1>5 DEF CommitTask

LEMMA InitOne == ASSUME ScalarsStand PROVE Init => OneInv
<1> SUFFICES ASSUME Init PROVE OneInv
  OBVIOUS
<1>1. WriteInv
  BY InitWrites
<1>2. SchemaSound(schema)
  <2>1. CASE schema = Unread
    BY <2>1 DEF SchemaSound, Unread
  <2>2. ASSUME NEW old \in OldSchemas, schema = [tags |-> old, declared |-> TRUE, head |-> 1]
        PROVE  SchemaSound(schema)
    BY <2>2 DEF SchemaSound
  <2> QED BY <2>1, <2>2 DEF Init
<1>3. NoScalars(ImportedTags(file))
  <2>1. PICK f \in Files : file = WithoutMoved(f)
    BY DEF Init
  <2>2. ImportedTags(file) = {}
    BY <2>1, ImportedPresent, NothingMoved
  <2> QED BY <2>2 DEF NoScalars
<1>4. ASSUME NEW h \in Harps PROVE OneValued(RulesOf(schema), tasks[h].tags)
  <2>1. CASE tasks[h] = Nothing
    BY <2>1 DEF Nothing, OneValued
  <2>2. ASSUME NEW held \in TagsHeld, tasks[h] = [tags |-> held, head |-> 1]
        PROVE  OneValued(RulesOf(schema), tasks[h].tags)
    <3>1. CASE schema = Unread
      BY <2>2, <3>1 DEF RulesOf, Unread, ScalarsStand
    <3>2. ASSUME NEW old \in OldSchemas, schema = [tags |-> old, declared |-> TRUE, head |-> 1]
          PROVE  OneValued(RulesOf(schema), tasks[h].tags)
      <4>1. OneValued(old, held) /\ RulesOf(schema) = Allowlisted(old)
        BY <3>2 DEF RulesOf, ScalarsStand
      <4> QED BY <2>2, <4>1, AllowlistedScalars DEF OneValued
    <3> QED BY <3>1, <3>2 DEF Init
  <2> QED BY <2>1, <2>2 DEF Init
<1>5. \A c \in Procs : CallOne(calls[c], schema, tasks)
  <2>1. CallOne(Idle, schema, tasks)
    BY DEF CallOne, Idle, NoDeclare, NoScalars
  <2> QED BY <2>1 DEF Init
<1> QED BY <1>1, <1>2, <1>3, <1>4, <1>5 DEF OneInv

LEMMA NextOne == ASSUME ScalarsStand PROVE OneInv /\ [Next]_vars => OneInv'
<1> SUFFICES ASSUME OneInv, [Next]_vars PROVE OneInv'
  OBVIOUS
<1>1. WriteInv'
  BY NextWrites DEF OneInv
<1>2. CASE UNCHANGED vars
  BY <1>1, <1>2 DEF OneInv, vars
<1>3. CASE EditFile
  BY <1>1, <1>3, EditOne
<1>4. ASSUME NEW c \in Procs, NEW r \in Requests[c], Begin(c, r) \/ BeginImport(c, r)
      PROVE  OneInv'
  BY <1>1, <1>4, BeginOne
<1>5. ASSUME NEW c \in Procs, Step(c) \/ Fail(c) PROVE OneInv'
  BY <1>1, <1>5, ReadingOne, ReadSchemaOne, SeedCommitOne, DeclareCommitOne, JudgeOne,
     CommitTaskOne DEF Step
<1> QED BY <1>2, <1>3, <1>4, <1>5 DEF Next

\* A task holds one value of each scalar, whoever retags it at once and whatever
\* is seeded, declared or revoked meanwhile: where no target becomes a scalar
\* over tasks that already hold it (tags.rs, collapse; change.rs, retag).
THEOREM AlwaysOnePerScalar == ASSUME ScalarsStand PROVE Spec => []OneValuePerScalar
<1>1. Init => OneInv
  BY InitOne
<1>2. OneInv /\ [Next]_vars => OneInv'
  BY NextOne
<1>3. OneInv => OneValuePerScalar
  BY DEF OneInv, OneValued, OneValuePerScalar
<1> QED BY <1>1, <1>2, <1>3, PTL DEF Spec
=============================================================================
