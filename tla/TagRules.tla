------------------------------ MODULE TagRules ------------------------------
(***************************************************************************)
(* The rules of a store's tags, as pure operators: what a schema stream's  *)
(* tags are read as, the declare that seeds it, a declare decided, a       *)
(* permit, and how an add or a retag is collapsed and judged.              *)
(*                                                                         *)
(* A tag is a target (its namespace and key) and a value.  The rules are   *)
(* tags too, config tags: a facet, what it is about and a value.           *)
(***************************************************************************)
EXTENDS Naturals, Sequences, FiniteSets

CONSTANTS
  Targets,       \* what a tag may be about
  NamespaceOf,   \* target -> its namespace
  Values,        \* values a tag may carry
  Retired,       \* targets retired
  Reserved,      \* namespaces that hold config alone
  Seed           \* the config tags a store is seeded with

NoValue == "<no value>"

Namespaces == {NamespaceOf[t] : t \in Targets}
Tags == [target: Targets, value: Values \cup {NoValue}]
Patterns == Targets \cup Namespaces
ConfigTags ==
  [facet: {"permit", "arity", "enum", "keys"}, of: Patterns,
   value: Values \cup {NoValue, "true", "false", "scalar", "one"}]

ASSUME NamespacesAssumption ==
  /\ Namespaces \cap Targets = {}
  /\ Seed \subseteq ConfigTags
  /\ \E tag \in Seed : tag.facet = "permit" /\ tag.value = NoValue

------------------------------------------------------------------------------
(* What a schema is read as. *)

Facet(rules, facet) == {tag \in rules : tag.facet = facet}

PermitTag(pattern) == [facet |-> "permit", of |-> pattern, value |-> NoValue]

\* Rules from before permits were presences, read as an allowlist's.
Allowlisted(rules) ==
  IF \E tag \in Facet(rules, "permit") : tag.value = NoValue THEN rules
  ELSE (rules \ Facet(rules, "permit"))
         \cup {PermitTag(tag.of) : tag \in {t \in Facet(rules, "permit") : t.value = "true"}}
         \cup Facet(Seed, "permit")

\* StoreRules::of: the seed where nothing was declared.
RulesOf(schema) == IF schema.declared THEN Allowlisted(schema.tags) ELSE Seed

\* The declare that leaves a schema holding what it is read as.
Seeding(schema) ==
  [add |-> RulesOf(schema) \ schema.tags, remove |-> schema.tags \ RulesOf(schema)]

IsDeclare(declare) == declare.add \cup declare.remove # {}

\* The schema's tags after a declare, and apply_schema: an event only where
\* they change.
TagsAfter(schema, declare) == (schema.tags \cup declare.add) \ declare.remove
Declared(schema, declare) ==
  IF TagsAfter(schema, declare) = schema.tags THEN schema
  ELSE [tags |-> TagsAfter(schema, declare), declared |-> TRUE, head |-> schema.head + 1]

------------------------------------------------------------------------------
(* Permits. *)

\* A pattern admits a target, or every target of a namespace.
Admits(pattern, tag) == pattern \in {tag.target, NamespaceOf[tag.target]}

Permits(rules) == {tag.of : tag \in {t \in Facet(rules, "permit") : t.value = NoValue}}

Permitted(rules, tag) == \E pattern \in Permits(rules) : Admits(pattern, tag)

\* The targets rules constrain, which a config file permitted by that alone.
Constrained(rules) == {tag.of : tag \in Facet(rules, "arity") \cup Facet(rules, "enum")}

\* Mutant of ImportedTags: an open namespace's permit keeps its word.
ImportedOpen(file) == {[facet |-> "permit", of |-> p, value |-> "open"] : p \in file.permits}

\* A config file's old declarations and permits, as config tags: an enum one
\* tag a value, a namespace open or by its keys.
ImportedTags(file) ==
  LET rules == UNION {{[facet |-> old.facet, of |-> old.of, value |-> v] : v \in old.values} :
                        old \in file.schema}
  IN rules \cup {PermitTag(p) : p \in Constrained(rules) \cup file.permits}

------------------------------------------------------------------------------
(* A task's tags. *)

IsScalar(rules, target) == [facet |-> "arity", of |-> target, value |-> "scalar"] \in rules

\* What a write may add whatever the store's rules.
Admissible(tag) == NamespaceOf[tag.target] \notin Reserved /\ tag.target \notin Retired

\* Of the tags added, in order, a scalar target's last.
Kept(rules, add) ==
  {add[i] : i \in {i \in DOMAIN add :
     IsScalar(rules, add[i].target) =>
       \A j \in DOMAIN add : j > i => add[j].target # add[i].target}}

\* Mutant of Displaced: the value held before stays.
DisplacedKept(rules, held, add) == {}

\* The tags held that a scalar's new value displaces.
Displaced(rules, held, add) ==
  {tag \in held : /\ IsScalar(rules, tag.target)
                  /\ \E new \in Kept(rules, add) :
                       new.target = tag.target /\ new.value # tag.value}

\* Retagged, folded: a tag both added and removed ends up removed.
Retagged(held, add, remove) == (held \cup add) \ remove

Finding(code, of, introduced) == [code |-> code, of |-> of, introduced |-> introduced]

KeysIn(tags, ns) == {t \in {tag.target : tag \in tags} : NamespaceOf[t] = ns}

\* What tagma finds on a task holding `held`, were `add` added and then
\* `remove` removed: each violated rule, and whether the change brings it.
Validate(rules, held, add, remove) ==
  LET after == Retagged(held, add, remove)
      enums(tag) == {e.value : e \in {e \in Facet(rules, "enum") : e.of = tag.target}}
  IN {Finding("not-permitted", tag, tag \notin held) :
        tag \in {t \in after : ~Permitted(rules, t)}}
     \cup {Finding("not-in-enum", tag, tag \notin held) :
        tag \in {t \in after : enums(t) # {} /\ t.value \notin enums(t)}}
     \cup {Finding("too-many-keys", [target |-> k.of, value |-> NoValue],
                ~ KeysIn(after, k.of) \subseteq KeysIn(held, k.of)) :
        k \in {k \in Facet(rules, "keys") : Cardinality(KeysIn(after, k.of)) > 1}}

\* judged: a write that would introduce a finding is refused.
Sound(findings) == \A f \in findings : ~f.introduced

\* What lint says of a task: what it carries already; a closed one's permits
\* and keys are its history.
RuleFindings(rules, tags, closed) ==
  {f \in Validate(rules, tags, {}, {}) :
     ~(closed /\ f.code \in {"not-permitted", "too-many-keys"})}

\* The tasks carrying a tag that `pattern` admits.
Carrying(tasks, pattern) ==
  {h \in DOMAIN tasks : \E tag \in tasks[h].tags : Admits(pattern, tag)}
=============================================================================
