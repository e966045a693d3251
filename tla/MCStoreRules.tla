---------------------------- MODULE MCStoreRules ----------------------------
(***************************************************************************)
(* StoreRules on one task, with a scalar target, a namespace of one key a  *)
(* task, a retired target and a reserved namespace.                        *)
(***************************************************************************)
EXTENDS StoreRules, TLC

MCTargets == {"level", "cli", "gui", "plan", "fn"}
MCNamespaceOf ==
  [t \in MCTargets |-> CASE t = "level" -> "triage" [] t = "plan" -> "ctxloom"
                         [] t = "fn" -> "taskloom" [] OTHER -> "area"]
MCSeed ==
  {[facet |-> "arity", of |-> "level", value |-> "scalar"],
   [facet |-> "keys", of |-> "area", value |-> "one"],
   PermitTag("level"), PermitTag("gui")}

\* A store made before every store was an allowlist.
MCOldSchemas ==
  {{[facet |-> "arity", of |-> "level", value |-> "scalar"],
    [facet |-> "permit", of |-> "cli", value |-> "true"],
    [facet |-> "permit", of |-> "area", value |-> "false"]}}

MCFiles ==
  {[schema |-> {[facet |-> "enum", of |-> "level", values |-> {"v1"}]}, permits |-> {"cli"},
    rest |-> "homing"]}

Level(v) == [target |-> "level", value |-> v]
Flag(t) == [target |-> t, value |-> NoValue]

MCTagsHeld == {{Level("v1")}}

Writing ==
  {AddRequest("h1", <<Level("v1"), Flag("cli"), Level("v2")>>),
   AddRequest("h1", <<Flag("plan")>>), AddRequest("h1", <<Flag("fn")>>),
   RetagRequest("h1", <<Level("v2")>>, {}),
   RetagRequest("h1", <<Flag("cli")>>, {Flag("gui")}),
   RetagRequest("h1", <<Flag("gui"), Level("v1")>>, {})}
Ruling ==
  {PermitRequest("cli"), RevokeRequest("cli"),
   DeclareRequest({}, {[facet |-> "enum", of |-> "level", value |-> "v1"]}),
   DeclareRequest({}, {}), ImportRequest, ExportRequest}
MCRequests == [c \in {"a", "b"} |-> Writing \cup Ruling]
TwoEach == [c \in {"a", "b"} |-> 2]
=============================================================================
