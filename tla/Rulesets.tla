------------------------------ MODULE Rulesets ------------------------------
(***************************************************************************)
(* The rule sets of the data plane's AI modules: cache rules and their     *)
(* semantic settings, context compression rules and their settings,        *)
(* traffic mirror rules, and the intent questions.  Every one is replaced  *)
(* as a whole by a PUT (a transaction that deletes all rows and inserts    *)
(* the submitted ones in order), and exported as one file that the data    *)
(* plane loads or rejects as a whole.                                      *)
(*                                                                         *)
(* A submitted rule has its required fields and "opts", a function from    *)
(* the optional fields that are present (and not null) to their values.    *)
(* Ratios are percentages.  Header lists are sets.                         *)
(***************************************************************************)
EXTENDS Tables, Integers, Sequences, TLC

CONSTANTS CacheBodies, SemanticBodies, ContextBodies, ContextSettingsBodies,
          MirrorBodies, IntentBodies,   \* the bodies submitted, valid or not
          Conditions,                   \* the conditions that compile
          Piped,                        \* option names containing '|'
          MirrorClusters,               \* cluster names mirror rules may name
          RulesetAdmins,                \* concurrent requests
          MaxRulesetWrites, MaxSeconds

ASSUME RulesetsAssumption ==
    MaxRulesetWrites \in Nat /\ MaxSeconds \in Nat /\ "" \notin Conditions

VARIABLES ruleset,      \* rows of the three rule tables, ordered by id
          settings,     \* rows of the two settings tables, ordered by id
          intent,       \* the intent row, a set with at most one member
          targets,      \* the clusters that exist
          putting,      \* the PUT each admin is in the middle of
          second,       \* the wall clock
          asked         \* the bodies last accepted, for each document

rulesetVars == <<ruleset, settings, intent, targets, putting, second, asked>>

-----------------------------------------------------------------------------
(* Validation: any failure rejects the whole body.                         *)

Distinct(rs, key(_)) == \A i, j \in DOMAIN rs : key(rs[i]) = key(rs[j]) => i = j
Within(opts, legal(_, _)) == \A f \in DOMAIN opts : legal(f, opts[f])
ConditionExpression(cond) == cond \in Conditions
CondOf(r) == r.cond
NameOf(r) == r.name

CacheField(f, v) ==
    CASE f = "strategy" -> v \in {"lastQuestion", "allQuestions", "disabled"}
      [] f = "ttl" -> v >= 0
      [] f \in {"body", "value"} -> v > 0
      [] f = "semantic" -> v \in BOOLEAN

AICacheRules(rs) ==
    /\ Distinct(rs, NameOf) /\ Distinct(rs, CondOf)
    /\ \A i \in DOMAIN rs : /\ rs[i].name # "" /\ ConditionExpression(rs[i].cond)
                            /\ Within(rs[i].opts, CacheField)

SemanticField(f, v) ==
    CASE f = "topK" -> v \in 1..10
      [] f = "threshold" -> v \in 0..200
      [] f = "relation" -> v \in {"lt", "lte", "gt", "gte"}

AICacheSemanticSettings(opts) == Within(opts, SemanticField)

AIContextRules(rs) ==
    /\ Distinct(rs, CondOf)
    /\ \A i \in DOMAIN rs : /\ ConditionExpression(rs[i].cond)
                            /\ rs[i].mode \in {"off", "conservative", "balanced", "aggressive"}
                            /\ Within(rs[i].opts, LAMBDA f, v : v >= 0)

ContextField(f, v) ==
    CASE f \in {"triggerRatio", "survivalRate"} -> v \in 1..100
      [] f \in {"keepImages", "toolChars", "imageTokens"} -> v >= 0
      [] f = "charsPerToken" -> v >= 1
      [] f = "thinking" -> v \in {"trim-all-but-last", "keep"}
      [] f = "strength" -> v \in {"lite", "full"}

AIContextSettings(opts) == Within(opts, ContextField)

\* A path rewrite is empty or starts with a slash; the only body field that can
\* be rewritten is the model.
MirrorField(f, v) ==
    CASE f = "percentage" -> v \in 0..100
      [] f = "removeHeaders" -> "" \notin v
      [] f = "setHeaders" -> \A h \in v : h[1] # "" /\ h[2] # ""
      [] f = "bodyRewrites" -> \A i \in DOMAIN v : v[i].path = "model" /\ v[i].value # ""
      [] f = "pathRewrite" -> v \in {"", "/shadow"}

TrafficMirrorRules(rs) ==
    /\ Distinct(rs, NameOf) /\ Distinct(rs, CondOf)
    /\ \A i \in DOMAIN rs : /\ rs[i].name # "" /\ ConditionExpression(rs[i].cond)
                            /\ rs[i].cluster # ""
                            /\ Within(rs[i].opts, MirrorField)

checkMirrorClustersExist(rs) == \A i \in DOMAIN rs : rs[i].cluster \in targets

validateConfidence(conf) == \A c \in conf : c \in 0..100

\* Criteria is the set of the options of a choice, levels the list of the names
\* of a score's levels.
QuestionValid(q) ==
    /\ q.name # "" /\ q.type \in {"choice", "score"} /\ q.instructions # ""
    /\ validateConfidence(q.confidence)
    /\ q.type = "choice" => /\ q.levels = <<>> /\ Cardinality(q.criteria) \in 1..10
                            /\ \A o \in q.criteria : o # "" /\ o \notin Piped
    /\ q.type = "score" => /\ q.criteria = {} /\ Len(q.levels) \in 1..10
                           /\ \A i \in DOMAIN q.levels : q.levels[i] # ""
                           /\ Distinct(q.levels, LAMBDA l : l)

ValidateIntentConfig(doc) ==
    /\ Len(doc.questions) <= 10
    /\ Distinct(doc.questions, NameOf)
    /\ \A i \in DOMAIN doc.questions : QuestionValid(doc.questions[i])
    /\ validateConfidence(doc.confidence)

-----------------------------------------------------------------------------
(* Rows: omitted fields get their defaults, except those a mirror rule     *)
(* keeps NULL (a set with at most one member).                             *)

CacheDefaults == [strategy |-> "lastQuestion", ttl |-> 0, body |-> 1048576,
                  value |-> 1048576, semantic |-> FALSE]
SemanticDefaults == [topK |-> 1, threshold |-> 15, relation |-> "lt"]
ContextDefaults == [maxTokens |-> 0, reserve |-> 0]
ContextSettingsDefaults ==
    [triggerRatio |-> 70, keepImages |-> 2, toolChars |-> 2000,
     thinking |-> "trim-all-but-last", charsPerToken |-> 4, imageTokens |-> 1200,
     strength |-> "lite", survivalRate |-> 95]
DefaultSensitiveHeaders == {"Authorization", "Cookie", "X-Api-Key"}

Each(rs, row(_)) == [i \in DOMAIN rs |-> row(rs[i])]
Nullable(opts, f) == IF f \in DOMAIN opts THEN {opts[f]} ELSE {}

aiCacheRuleParamFromShared(r) ==
    [name |-> r.name, cond |-> r.cond] @@ r.opts @@ CacheDefaults
semanticSettingsRowFromShared(opts) == opts @@ SemanticDefaults
contextRuleRowFromShared(r) ==
    [cond |-> r.cond, mode |-> r.mode] @@ r.opts @@ ContextDefaults
settingsRowFromShared(opts) == opts @@ ContextSettingsDefaults

\* An empty list of body rewrites is stored as NULL; an empty list of headers to
\* remove is not.
trafficMirrorRuleParamFromShared(r) ==
    [name |-> r.name, cond |-> r.cond, cluster |-> r.cluster,
     percentage |-> Given(Nullable(r.opts, "percentage"), 100),
     removeHeaders |-> Nullable(r.opts, "removeHeaders"),
     setHeaders |-> Nullable(r.opts, "setHeaders"),
     bodyRewrites |-> {b \in Nullable(r.opts, "bodyRewrites") : b # <<>>},
     pathRewrite |-> Nullable(r.opts, "pathRewrite")]

\* A new version: the clock, or one second past the stored version.
newConfigVersion(row) ==
    IF row = {} THEN second
    ELSE LET next == (CHOOSE r \in row : TRUE).version + 1
         IN IF second < next THEN next ELSE second

intentConfigParamToStorage(doc, version) ==
    [version |-> version, confidence |-> Given(doc.confidence, 60),
     questions |-> doc.questions]

-----------------------------------------------------------------------------
(* Reads: what GET returns, in the vocabulary of the request.              *)

Present(row, fields) == [f \in {g \in fields : row[g] # {}} |-> Given(row[f], 0)]
Fields(row, fields) == [f \in fields |-> row[f]]

GetAICacheRules ==
    Each(ruleset.cache, LAMBDA r : [name |-> r.name, cond |-> r.cond,
                                    opts |-> Fields(r, DOMAIN CacheDefaults)])
GetAIContextRules ==
    Each(ruleset.context, LAMBDA r : [cond |-> r.cond, mode |-> r.mode,
                                      opts |-> Fields(r, DOMAIN ContextDefaults)])
GetTrafficMirrorRules ==
    Each(ruleset.mirror,
         LAMBDA r : [name |-> r.name, cond |-> r.cond, cluster |-> r.cluster,
                     opts |-> ("percentage" :> r.percentage) @@
                              Present(r, {"removeHeaders", "setHeaders",
                                          "bodyRewrites", "pathRewrite"})])

\* The row with the smallest id, or the defaults of an empty table.
SettingsGet(rows, defaults) == IF rows = <<>> THEN defaults ELSE Head(rows)
GetSemanticSettings == SettingsGet(settings.cache, SemanticDefaults)
GetContextSettings == SettingsGet(settings.context, ContextSettingsDefaults)

-----------------------------------------------------------------------------
(* Exports, generated from rows read in one transaction.                   *)

AICacheRuleGenerator(rows, semantic) ==
    [semantic |-> semantic,
     rules |-> Each(rows, LAMBDA r : Fields(r, {"cond"} \cup DOMAIN CacheDefaults))]

ContextRuleGenerator(rows, defaults) == [defaults |-> defaults, rules |-> rows]

TrafficMirrorRuleGenerator(rows) ==
    Each(rows, LAMBDA r : [cond |-> r.cond, cluster |-> r.cluster,
                           percentage |-> r.percentage,
                           pathRewrite |-> Given(r.pathRewrite, ""),
                           removeHeaders |-> Given(r.removeHeaders, DefaultSensitiveHeaders),
                           setHeaders |-> Given(r.setHeaders, {}),
                           bodyRewrites |-> Given(r.bodyRewrites, <<>>)])

intentQuestionsForExport(questions) ==
    Each(questions, LAMBDA q : [name |-> q.name, type |-> q.type,
                                confidence |-> q.confidence,
                                criteria |-> IF q.type = "choice" THEN q.criteria ELSE {},
                                levels |-> IF q.type = "score" THEN q.levels ELSE <<>>])

\* Nothing is exported before the first PUT.
IntentConfigGenerator(row) ==
    {[confidence |-> r.confidence, questions |-> intentQuestionsForExport(r.questions)] : r \in row}

-----------------------------------------------------------------------------
(* PUT.  ReplaceAll and Upsert run in a transaction; a row the database    *)
(* refuses rolls it back, so the deletion that came first is undone.       *)

NoPut == [what |-> "none"]
ReplaceTable(table, rows) == ruleset' = [ruleset EXCEPT ![table] = rows]

Upsert(rows, row) == <<row>>

\* Mutant: the deletion is not part of the transaction.
RolledBack_Deleted(rows) == <<>>

RolledBack(rows) == rows
Asked(document, body) == asked' = [asked EXCEPT ![document] = body]

SetAICacheRules(b) ==
    /\ AICacheRules(b) /\ Write(MaxRulesetWrites)
    /\ ReplaceTable("cache", Each(b, aiCacheRuleParamFromShared)) /\ Asked("cache", b)
    /\ UNCHANGED <<settings, intent, targets, putting, second>>

SetSemanticSettings(b) ==
    /\ AICacheSemanticSettings(b) /\ Write(MaxRulesetWrites)
    /\ settings' = [settings EXCEPT !.cache = Upsert(@, semanticSettingsRowFromShared(b))]
    /\ Asked("semantic", b)
    /\ UNCHANGED <<ruleset, intent, targets, putting, second>>

SetRules(b) ==
    /\ AIContextRules(b) /\ Write(MaxRulesetWrites)
    /\ ReplaceTable("context", Each(b, contextRuleRowFromShared)) /\ Asked("context", b)
    /\ UNCHANGED <<settings, intent, targets, putting, second>>

SetSettings(b) ==
    /\ AIContextSettings(b) /\ Write(MaxRulesetWrites)
    /\ settings' = [settings EXCEPT !.context = Upsert(@, settingsRowFromShared(b))]
    /\ Asked("contextSettings", b)
    /\ UNCHANGED <<ruleset, intent, targets, putting, second>>

ReplaceFails(table) ==
    /\ Write(MaxRulesetWrites)
    /\ ruleset' = [ruleset EXCEPT ![table] = RolledBack(@)]
    /\ UNCHANGED <<settings, intent, targets, putting, second, asked>>

\* The clusters are looked up before the transaction.
TrafficMirrorRulesUpdateAction(a, b) ==
    /\ putting[a] = NoPut /\ writes < MaxRulesetWrites
    /\ TrafficMirrorRules(b) /\ checkMirrorClustersExist(b)
    /\ putting' = [putting EXCEPT ![a] = [what |-> "mirror", body |-> b]]
    /\ UNCHANGED <<ruleset, settings, intent, targets, second, asked, writes>>

SetTrafficMirrorRules(a) ==
    /\ putting[a].what = "mirror" /\ Write(MaxRulesetWrites)
    /\ ReplaceTable("mirror", Each(putting[a].body, trafficMirrorRuleParamFromShared))
    /\ Asked("mirror", putting[a].body)
    /\ putting' = [putting EXCEPT ![a] = NoPut]
    /\ UNCHANGED <<settings, intent, targets, second>>

\* The stored row is read before the transaction, and an error of that read is
\* ignored.
PutReads(a, b) ==
    /\ putting[a] = NoPut /\ writes < MaxRulesetWrites
    /\ ValidateIntentConfig(b)
    /\ \E seen \in {intent, {}} :
          putting' = [putting EXCEPT ![a] = [what |-> "intent", body |-> b, seen |-> seen,
                                             version |-> newConfigVersion(seen)]]
    /\ UNCHANGED <<ruleset, settings, intent, targets, second, asked, writes>>

Put(a) ==
    /\ putting[a].what = "intent" /\ Write(MaxRulesetWrites)
    /\ intent' = {intentConfigParamToStorage(putting[a].body, putting[a].version)}
    /\ Asked("intent", {putting[a].body})
    /\ putting' = [putting EXCEPT ![a] = NoPut]
    /\ UNCHANGED <<ruleset, settings, targets, second>>

\* A mirror rule's cluster is created and deleted by the cluster catalogue, which
\* does not look at the mirror rules.
ClusterChanges(c) ==
    /\ Write(MaxRulesetWrites)
    /\ targets' = IF c \in targets THEN targets \ {c} ELSE targets \cup {c}
    /\ UNCHANGED <<ruleset, settings, intent, putting, second, asked>>

\* The wall clock may also be set back.
ClockSet(t) ==
    /\ writes < MaxRulesetWrites /\ t # second /\ second' = t
    /\ UNCHANGED <<ruleset, settings, intent, targets, putting, asked, writes>>

RulesetsInit ==
    /\ ruleset = [cache |-> <<>>, context |-> <<>>, mirror |-> <<>>]
    /\ settings = [cache |-> <<>>, context |-> <<>>]
    /\ intent = {} /\ targets = MirrorClusters /\ second = 0
    /\ putting = [a \in RulesetAdmins |-> NoPut]
    /\ asked = [cache |-> <<>>, semantic |-> <<>>, context |-> <<>>,
                contextSettings |-> <<>>, mirror |-> <<>>, intent |-> {}]

RulesetsNext ==
    \/ \E b \in CacheBodies : SetAICacheRules(b)
    \/ \E b \in SemanticBodies : SetSemanticSettings(b)
    \/ \E b \in ContextBodies : SetRules(b)
    \/ \E b \in ContextSettingsBodies : SetSettings(b)
    \/ \E table \in DOMAIN ruleset : ReplaceFails(table)
    \/ \E a \in RulesetAdmins, b \in MirrorBodies : TrafficMirrorRulesUpdateAction(a, b)
    \/ \E a \in RulesetAdmins : SetTrafficMirrorRules(a)
    \/ \E a \in RulesetAdmins, b \in IntentBodies : PutReads(a, b)
    \/ \E a \in RulesetAdmins : Put(a)
    \/ \E c \in MirrorClusters : ClusterChanges(c)
    \/ \E t \in 0..MaxSeconds : ClockSet(t)

-----------------------------------------------------------------------------
(* Properties.                                                             *)

\* The settings tables, which nothing in the schema makes singletons, never hold
\* two rows, and the requests in progress are well formed.
RulesetsTypeOK ==
    /\ \A t \in DOMAIN settings : Len(settings[t]) <= 1
    /\ Cardinality(intent) <= 1 /\ targets \subseteq MirrorClusters
    /\ \A a \in RulesetAdmins : putting[a].what \in {"none", "mirror", "intent"}
    /\ second \in 0..MaxSeconds

GivenOrDefault(exported, opts, defaults) ==
    \A f \in DOMAIN defaults :
        exported[f] = IF f \in DOMAIN opts THEN opts[f] ELSE defaults[f]

\* The exported files say what the last accepted bodies said, whatever failed or
\* was overwritten in between: rules in the submitted order (the data plane takes
\* the first that matches), given fields as given, omitted ones at the documented
\* defaults.  A mirror rule that says nothing of the headers to remove removes the
\* sensitive ones; one that says "none" removes none.
ExportIsAsAsked ==
    /\ LET file == AICacheRuleGenerator(ruleset.cache, GetSemanticSettings)
       IN /\ GivenOrDefault(file.semantic, asked.semantic, SemanticDefaults)
          /\ Len(file.rules) = Len(asked.cache)
          /\ \A i \in DOMAIN asked.cache :
                /\ file.rules[i].cond = asked.cache[i].cond
                /\ GivenOrDefault(file.rules[i], asked.cache[i].opts, CacheDefaults)
    /\ LET file == ContextRuleGenerator(ruleset.context, GetContextSettings)
       IN /\ GivenOrDefault(file.defaults, asked.contextSettings, ContextSettingsDefaults)
          /\ Len(file.rules) = Len(asked.context)
          /\ \A i \in DOMAIN asked.context :
                /\ file.rules[i].cond = asked.context[i].cond
                /\ file.rules[i].mode = asked.context[i].mode
                /\ GivenOrDefault(file.rules[i], asked.context[i].opts, ContextDefaults)
    /\ LET file == TrafficMirrorRuleGenerator(ruleset.mirror)
       IN /\ Len(file) = Len(asked.mirror)
          /\ \A i \in DOMAIN asked.mirror :
                /\ file[i].cond = asked.mirror[i].cond
                /\ GivenOrDefault(file[i], asked.mirror[i].opts,
                                  [percentage |-> 100, pathRewrite |-> "", setHeaders |-> {},
                                   removeHeaders |-> DefaultSensitiveHeaders,
                                   bodyRewrites |-> <<>>])
    /\ {q.questions : q \in IntentConfigGenerator(intent)}
         = {intentQuestionsForExport(b.questions) : b \in asked.intent}

\* The data plane accepts every exported file: it rejects a whole file on a
\* condition that occurs twice or does not compile, on an unknown mode or strategy,
\* on a column out of range, and on a question without the options of its type.
FilesLoad ==
    /\ \A t \in {"cache", "context", "mirror"} :
          /\ Distinct(ruleset[t], CondOf)
          /\ \A i \in DOMAIN ruleset[t] : ruleset[t][i].cond \in Conditions
    /\ \A i \in DOMAIN ruleset.cache :
          LET r == ruleset.cache[i]
          IN r.strategy \in {"lastQuestion", "allQuestions", "disabled"} /\ r.body > 0 /\ r.value > 0
    /\ \A i \in DOMAIN ruleset.context :
          ruleset.context[i].mode \in {"off", "conservative", "balanced", "aggressive"}
    /\ GetSemanticSettings.topK \in 1..10
    /\ GetContextSettings.charsPerToken > 0 /\ GetContextSettings.triggerRatio \in 1..100
    /\ \A file \in IntentConfigGenerator(intent) :
          /\ Distinct(file.questions, NameOf)
          /\ \A i \in DOMAIN file.questions :
                LET q == file.questions[i] IN (q.criteria = {}) # (q.levels = <<>>)

\* What GET returns can be submitted again: it is accepted, and the export stays
\* the same.  An administrator who edits one rule of a set resubmits all others
\* this way.
ReadBackIsStable ==
    /\ AICacheRules(GetAICacheRules)
    /\ Each(GetAICacheRules, aiCacheRuleParamFromShared) = ruleset.cache
    /\ AICacheSemanticSettings(GetSemanticSettings)
    /\ AIContextRules(GetAIContextRules)
    /\ Each(GetAIContextRules, contextRuleRowFromShared) = ruleset.context
    /\ AIContextSettings(GetContextSettings)
    /\ TrafficMirrorRules(GetTrafficMirrorRules)
    /\ TrafficMirrorRuleGenerator(Each(GetTrafficMirrorRules, trafficMirrorRuleParamFromShared))
         = TrafficMirrorRuleGenerator(ruleset.mirror)
=============================================================================
