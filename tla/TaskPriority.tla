----------------------------- MODULE TaskPriority -----------------------------
(***************************************************************************)
(* A task's priority, derived when read: what a formula's placeholders     *)
(* read of a task, its raw score, the rank-normalized priorities of a      *)
(* project's tasks, and the warnings a ranking that means little earns.    *)
(*                                                                         *)
(* A formula is its placeholders and what it does with what they read, its *)
(* `result`: a sum, or no score.  expr-lang itself is outside the          *)
(* repository.  A tag's name stands for its target and value (TagOf), and  *)
(* TagOrder is their spelling order.  A priority is counted in Scale-ths.  *)
(***************************************************************************)
EXTENDS TaskRules, Sequences, SequencesExt

CONSTANTS
  TagOf,          \* tag name -> [target, value]
  TagOrder,       \* the tag names, in spelling order
  NumberOf,       \* value -> the number it spells, 0 where it spells none
  EnumOf,         \* target -> the values it admits; any, where it has no enum
  ExploitedInWild, \* the target that forces the highest priority
  Scale           \* a priority is counted in this many parts of one

Bare == "<bare>"   \* a tag with no value, a placeholder naming none
Star == "*"        \* a placeholder reading any value
MaxPriority == 5 * Scale

TagValues == {TagOf[tag].value : tag \in TagNames}
TagTargets == {TagOf[tag].target : tag \in TagNames}

Builtins(facet) ==
  IF facet = "priority_fn" THEN {"age_days", "age_factor"} ELSE {"age_days"}

Placeholders ==
  [builtin: {"age_days", "age_factor", "unknown"}]
    \cup [target: TagTargets, value: TagValues \cup {Bare, Star}]
Results == {"sum", "malformed", "unevaluable", "text", "infinite"}
FormulasOn == [target: TagTargets, reads: Seq(Placeholders), result: Results]

IsTag(placeholder) == "target" \in DOMAIN placeholder

ASSUME TagOrderAssumption ==
  /\ DOMAIN TagOf = TagNames
  /\ \A tag \in TagNames : \E i \in DOMAIN TagOrder : TagOrder[i] = tag
  /\ TagValues \subseteq DOMAIN NumberOf \cup {Bare}
  /\ DOMAIN EnumOf = TagTargets
  /\ Scale \in Nat \ {0}

------------------------------------------------------------------------------
(* Formulas. *)

\* Why one formula does not compile, or Sound: a built-in its facet has not,
\* met first; then what expr-lang cannot read.
CompileRefusal(facet, formula) ==
  IF \E i \in DOMAIN formula.reads :
       ~IsTag(formula.reads[i]) /\ formula.reads[i].builtin \notin Builtins(facet)
    THEN "UnknownBuiltin"
  ELSE IF formula.result = "malformed" THEN "Malformed"
  ELSE Sound

\* Every formula declared must compile; then more than one of a facet is
\* ambiguous, never resolved by a pick.
FacetRefusal(facet, declared) ==
  LET bad == {f \in declared : CompileRefusal(facet, f) # Sound} IN
  IF bad # {} THEN CompileRefusal(facet, CHOOSE f \in bad : TRUE)
  ELSE IF Cardinality(declared) > 1 THEN "Ambiguous"
  ELSE Sound

FormulasRefusal(declared) ==
  IF FacetRefusal("priority_fn", declared.priority) # Sound
    THEN FacetRefusal("priority_fn", declared.priority)
    ELSE FacetRefusal("decay_fn", declared.decay)

TheOne(declared) == CHOOSE f \in declared : TRUE

\* What a formula's placeholder reads of a task holding `tags`: any value and
\* a value named read presence; the target alone, its last value's number.
ReadOf(tags, placeholder) ==
  LET named == SelectSeq(TagOrder, LAMBDA tag :
                 tag \in tags /\ TagOf[tag].target = placeholder.target)
      last == TagOf[named[Len(named)]].value IN
  IF named = <<>> THEN 0
  ELSE IF placeholder.value = Star THEN 1
  ELSE IF placeholder.value # Bare
    THEN IF \E i \in DOMAIN named : TagOf[named[i]].value = placeholder.value THEN 1 ELSE 0
  ELSE IF last = Bare THEN 1 ELSE NumberOf[last]

\* What a formula comes to, each placeholder bound: a tag's to what it reads,
\* a built-in's to its value.
Total(reads, tags, builtins) ==
  LET bound(p) == IF IsTag(p) THEN ReadOf(tags, p) ELSE builtins[p.builtin]
      sum[n \in 0..Len(reads)] == IF n = 0 THEN 0 ELSE sum[n-1] + bound(reads[n])
  IN sum[Len(reads)]

\* A compiled formula's result for a task: a score, or the failure's name.
Evaluated(formula, tags, builtins) ==
  IF formula.result = "sum"
    THEN [failure |-> Sound, score |-> Total(formula.reads, tags, builtins)]
    ELSE [failure |-> CASE formula.result = "text" -> "NotANumber"
                        [] formula.result = "infinite" -> "NonFinite"
                        [] OTHER -> "Unevaluable", score |-> 0]

------------------------------------------------------------------------------
(* One task's raw score, at an instant. *)

\* A task created after now (a clock set back) is no age, never a negative one.
AgeDays(task, now) == IF now > task.created_at THEN now - task.created_at ELSE 0

\* A deferred task does not age: its factor is 1, as with no decay_fn.
AgeFactor(task, declared, now) ==
  IF declared.decay = {} \/ task.status = Defers THEN [failure |-> Sound, score |-> 1]
  ELSE Evaluated(TheOne(declared.decay), task.tags, [age_days |-> AgeDays(task, now)])

RawScore(task, declared, now) ==
  LET factor == AgeFactor(task, declared, now) IN
  IF task.created_at = 0 THEN [failure |-> "NoCreatedAt", score |-> 0]
  ELSE IF factor.failure \notin {Sound, "NonFinite"} THEN factor
  ELSE IF declared.priority = {} THEN [failure |-> Sound, score |-> 0]
  ELSE IF factor.failure = "NonFinite"
          /\ [builtin |-> "age_factor"] \in Range(TheOne(declared.priority).reads) THEN factor
  ELSE Evaluated(TheOne(declared.priority), task.tags,
                 [age_days |-> AgeDays(task, now), age_factor |-> factor.score])

------------------------------------------------------------------------------
(* The ranking of a project's tasks: `raw` is each one's raw score, `live`  *)
(* those not terminal.                                                      *)

\* The share of the live tasks scoring no higher.
RankNormalize(raw, live, h) ==
  (MaxPriority * Cardinality({g \in live : raw[g] <= raw[h]})) \div Cardinality(live)

Carries(tags, target) == \E tag \in tags : TagOf[tag].target = target

Priority(task, raw, live) ==
  IF task.harp_id \notin live THEN 0
  ELSE IF Carries(task.tags, ExploitedInWild) THEN MaxPriority
  ELSE RankNormalize(raw, live, task.harp_id)

\* The targets the formulas read, whatever value a placeholder names.
Referenced(declared) ==
  {p.target : p \in {q \in UNION {Range(f.reads) : f \in declared.priority \cup declared.decay} :
                       IsTag(q)}}

\* `tasks` ranked among themselves: harp -> priority, or the first failure.
Ranking(tasks, terminal, declared, now) ==
  LET byHarp(h) == CHOOSE t \in tasks : t.harp_id = h
      harps == {t.harp_id : t \in tasks}
      live == {t.harp_id : t \in {u \in tasks : u.status \notin terminal}}
      scored == [h \in harps |-> RawScore(byHarp(h), declared, now)]
      raw == [h \in harps |-> scored[h].score]
      failed == {h \in harps : scored[h].failure # Sound} IN
  IF failed # {} THEN [failure |-> scored[CHOOSE h \in failed : TRUE].failure]
  ELSE [failure |-> Sound, priority |-> [h \in harps |-> Priority(byHarp(h), raw, live)]]

\* Warned of: no priority_fn, alone; or a tie among the live, and each target
\* that fewer than half of them carry.
Warnings(tasks, terminal, declared, now) ==
  LET live == {t \in tasks : t.status \notin terminal}
      carried(target) == Cardinality({t \in live : Carries(t.tags, target)})
      scores == {RawScore(t, declared, now).score : t \in live} IN
  IF declared.priority = {} THEN {<<"NoPriorityFn">>}
  ELSE {<<"AllTied">> : s \in IF Cardinality(live) > 1 /\ Cardinality(scores) = 1
                                THEN scores ELSE {}}
         \cup {<<IF carried(target) = 0 THEN "Inert" ELSE "Thin", target>> :
                 target \in {t \in Referenced(declared) :
                               live # {} /\ 2 * carried(t) < Cardinality(live)}}

\* lint: the placeholders naming a value their target's enum does not admit.
FormulaFindings(declared) ==
  {p \in UNION {Range(f.reads) : f \in declared.priority \cup declared.decay} :
     IsTag(p) /\ p.value \notin {Star, Bare} /\ p.value \notin EnumOf[p.target]}
=============================================================================
