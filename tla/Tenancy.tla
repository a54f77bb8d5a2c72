------------------------------ MODULE Tenancy ------------------------------
(***************************************************************************)
(* Entity types, entities and API keys (model/entity, model/api_key), the  *)
(* quota plan, rate-limit policy and route rules each entity and key owns, *)
(* and the files generated from them for the data plane: the tokens        *)
(* (mod_api_key), the route tables (ai_route) and the policy bindings.     *)
(* The handlers of entities, and of the deletion of a type, check what     *)
(* they need before their transaction: the check and the transaction are   *)
(* two steps.  All other requests are one transaction.                     *)
(***************************************************************************)
EXTENDS Tables, Integers, Sequences, Relation

CONSTANTS
    TypeNames,         \* entity types
    LLMs,              \* model names; "*" stands for all of them
    TypeLevels,        \* levels requests give to types, in range or not
    EntityBodies,      \* bodies of entity creation
    EntityPatches,     \* bodies of entity update
    KeyBodies,         \* bodies of API key creation
    KeyPatches,        \* bodies of API key update
    TenantAdmins,      \* entity requests in progress at once
    Undocumented,      \* request fields outside the API documents: "level", "id"
    MaxOwners,         \* bound on the entities and keys ever created
    MaxTenancyWrites   \* bound on the writes

ASSUME TenancyAssumption ==
    /\ MaxOwners \in Nat /\ MaxTenancyWrites \in Nat
    /\ Undocumented \subseteq {"level", "id"}

VARIABLES
    etype,         \* type name -> row
    entity,        \* entity id -> row
    apiKey,        \* key id -> row
    quotaPlans,    \* plan id -> row
    policies,      \* policy id -> row
    routeTables,   \* route rules id -> row
    globalRules,   \* whether the global route rules are enabled
    job,           \* admin -> the entity request in progress, in a set
    nextRow,       \* the next number of the id generators and auto-increments
    overlapped     \* a write has been made while another request was between its steps

tenancyVars == <<etype, entity, apiKey, quotaPlans, policies, routeTables, globalRules, job,
                 nextRow, overlapped>>

\* A creation takes one number of each sequence: its id and its three rows'.
Ids == 1..MaxOwners
NoOwner == 0      \* an empty parent_id or entity_id

\* Mutant: only the entity itself is visited.
maxEntityHierarchyDepth_One == 1

maxEntityHierarchyDepth == 10
Levels == 1..5
Star == {"*"}
ModelLists == (SUBSET LLMs \ {{}}) \cup {Star}

TypeRow == [level : Levels]
EntityRow ==
    [type : TypeNames, parent : Ids \cup {NoOwner}, allow : ModelLists,
     block : ModelLists \cup {{}}, nested : Ids]
KeyRow ==
    [entity : Ids \cup {NoOwner}, models : ModelLists, enabled : BOOLEAN, unlimited : BOOLEAN,
     nested : Ids]
PlanRow == [unlimited : BOOLEAN]
PolicyRow == [on : BOOLEAN]
RouteRow == [type : {"entity", "api_key"}, owner : Ids, on : BOOLEAN]

TenancyInit ==
    /\ etype = EmptyTable(TypeNames)
    /\ entity = EmptyTable(Ids)
    /\ apiKey = EmptyTable(Ids)
    /\ quotaPlans = EmptyTable(Ids)
    /\ policies = EmptyTable(Ids)
    /\ routeTables = EmptyTable(Ids)
    /\ globalRules = FALSE
    /\ job = [a \in TenantAdmins |-> {}]
    /\ nextRow = 1
    /\ overlapped = FALSE

---------------------------------------------------------------------------
\* Entity types.

ChildrenOf(e) == {x \in Ids : \E r \in entity[x] : r.parent = e}
EntitiesOf(t) == {x \in Ids : \E r \in entity[x] : r.type = t}
KeysOf(e) == {k \in Ids : \E r \in apiKey[k] : r.entity = e}
Overlap(others) == overlapped' = (overlapped \/ \E b \in others : job[b] # {})

CreateEntityType(t, level) ==
    /\ level \in Levels
    /\ ~Exists(etype, t)
    /\ etype' = [etype EXCEPT ![t] = {[level |-> level]}]
    /\ UNCHANGED <<entity, apiKey, quotaPlans, policies, routeTables, globalRules, job, nextRow>>

\* PATCH of a type: the level is written when it is given, whatever it is.
UpdateEntityType(t, level) ==
    /\ level # {} => "level" \in Undocumented
    /\ Exists(etype, t)
    /\ etype' = [etype EXCEPT ![t] = {[level |-> Given(level, r.level)] : r \in @}]
    /\ UNCHANGED <<entity, apiKey, quotaPlans, policies, routeTables, globalRules, job, nextRow>>

EntityTypeDeleteAction(a, t) ==
    /\ job[a] = {}
    /\ Exists(etype, t)
    /\ EntitiesOf(t) = {}
    /\ job' = [job EXCEPT ![a] = {[op |-> "deleteType", type |-> t]}]

DeleteEntityType(a) ==
    \E j \in job[a] :
        /\ j.op = "deleteType"
        /\ Exists(etype, j.type)
        /\ etype' = [etype EXCEPT ![j.type] = {}]
        /\ UNCHANGED <<entity, apiKey, quotaPlans, policies, routeTables, nextRow>>

---------------------------------------------------------------------------
\* The rows an entity or an API key owns, created, updated and deleted with
\* it.  An update that leaves one out changes nothing of it.

CreateQuotaPlan(n, body) ==
    quotaPlans' = [quotaPlans EXCEPT ![n] = {[unlimited |-> u] : u \in body.plan}]
CreateRateLimitPolicy(n, body) ==
    policies' = [policies EXCEPT ![n] = {[on |-> on] : on \in body.policy}]
CreateRouteRules(n, type, body) ==
    routeTables' = [routeTables EXCEPT ![n] =
        {[type |-> type, owner |-> n, on |-> on] : on \in body.rules}]

Updated(table, n, field, value) ==
    [table EXCEPT ![n] = {[r EXCEPT ![field] = Given(value, @)] : r \in table[n]}]
UpdateQuotaPlan(n, body) == quotaPlans' = Updated(quotaPlans, n, "unlimited", body.plan)
UpdateRateLimitPolicy(n, body) == policies' = Updated(policies, n, "on", body.policy)
UpdateRouteTable(n, body) == routeTables' = Updated(routeTables, n, "on", body.rules)

DeleteQuotaPlan(n) == quotaPlans' = [quotaPlans EXCEPT ![n] = {}]
DeleteRateLimitPolicy(n) == policies' = [policies EXCEPT ![n] = {}]
DeleteRouteRules(n) == routeTables' = [routeTables EXCEPT ![n] = {}]

CreateNested(n, type, body) ==
    CreateQuotaPlan(n, body) /\ CreateRateLimitPolicy(n, body) /\ CreateRouteRules(n, type, body)
UpdateNested(n, body) ==
    UpdateQuotaPlan(n, body) /\ UpdateRateLimitPolicy(n, body) /\ UpdateRouteTable(n, body)
DeleteNested(n) == DeleteQuotaPlan(n) /\ DeleteRateLimitPolicy(n) /\ DeleteRouteRules(n)

---------------------------------------------------------------------------
\* Entities.

\* A creation that leaves them out gets an unlimited plan, and policy and route
\* rules that are off.
NestedDefaults(body) ==
    [body EXCEPT !.plan = {Given(@, TRUE)}, !.policy = {Given(@, FALSE)},
                 !.rules = {Given(@, FALSE)}]

\* The level of the parent's type is lower than the level of the type.
checkEntityLevel(type, parent) ==
    /\ Exists(etype, type)
    /\ Exists(entity, parent)
    /\ Exists(etype, Row(entity, parent).type)
    /\ Row(etype, Row(entity, parent).type).level < Row(etype, type).level

EntityCreateAction(a, body) ==
    /\ job[a] = {}
    /\ Exists(etype, body.type)
    /\ body.parent # NoOwner => checkEntityLevel(body.type, body.parent)
    /\ job' = [job EXCEPT ![a] = {[op |-> "create", body |-> NestedDefaults(body)]}]

\* An omitted whitelist is stored as "*".
entityDataToParam(body, n) ==
    [type |-> body.type, parent |-> body.parent,
     allow |-> IF body.allow = {} THEN Star ELSE body.allow, block |-> body.block, nested |-> n]

CreateEntity(a) ==
    \E j \in job[a] :
        /\ j.op = "create"
        /\ nextRow \in Ids
        /\ CreateNested(nextRow, "entity", j.body)
        /\ entity' = [entity EXCEPT ![nextRow] = {entityDataToParam(j.body, nextRow)}]
        /\ nextRow' = nextRow + 1
        /\ UNCHANGED <<etype, apiKey>>

EntityUpdateAction(a, e, patch) ==
    /\ job[a] = {}
    /\ patch.id # {} => "id" \in Undocumented
    /\ Exists(entity, e)
    /\ Given(patch.parent, NoOwner) # NoOwner
         => checkEntityLevel(Row(entity, e).type, Given(patch.parent, NoOwner))
    /\ job' = [job EXCEPT ![a] = {[op |-> "update", e |-> e, patch |-> patch]}]

\* Lists that are empty are skipped like lists that are left out.
entityDataToParamForUpdate(r, patch) ==
    [r EXCEPT !.parent = Given(patch.parent, @),
              !.allow = IF patch.allow = {} THEN @ ELSE patch.allow,
              !.block = IF patch.block = {} THEN @ ELSE patch.block]

\* The row keeps its id unless the body carries another one.
UpdateEntity(a) ==
    \E j \in job[a] :
        /\ j.op = "update"
        /\ Exists(entity, j.e)
        /\ LET id == Given(j.patch.id, j.e)
           IN /\ id # j.e => ~Exists(entity, id)
              /\ entity' = [[entity EXCEPT ![j.e] = {}] EXCEPT ![id] =
                    {entityDataToParamForUpdate(Row(entity, j.e), j.patch)}]
        /\ UpdateNested(Row(entity, j.e).nested, j.patch)
        /\ UNCHANGED <<etype, apiKey, nextRow>>

\* Mutant: the children alone are looked up.
EntityDeleteAction_ChildrenOnly(a, e) ==
    /\ job[a] = {}
    /\ Exists(entity, e)
    /\ ChildrenOf(e) = {}
    /\ job' = [job EXCEPT ![a] = {[op |-> "delete", e |-> e]}]

EntityDeleteAction(a, e) ==
    /\ job[a] = {}
    /\ Exists(entity, e)
    /\ ChildrenOf(e) = {}
    /\ KeysOf(e) = {}
    /\ job' = [job EXCEPT ![a] = {[op |-> "delete", e |-> e]}]

\* The transaction looks the children up again, and not the API keys.
DeleteEntity(a) ==
    \E j \in job[a] :
        /\ j.op = "delete"
        /\ Exists(entity, j.e)
        /\ ChildrenOf(j.e) = {}
        /\ DeleteNested(Row(entity, j.e).nested)
        /\ entity' = [entity EXCEPT ![j.e] = {}]
        /\ UNCHANGED <<etype, apiKey, nextRow>>

\* What the transaction of a request in progress refuses.
RefusedByTxn(j) ==
    \/ j.op = "deleteType" /\ ~Exists(etype, j.type)
    \/ j.op = "update" /\ ~Exists(entity, j.e)
    \/ j.op = "delete" /\ ~Exists(entity, j.e)
    \/ j.op = "delete" /\ ChildrenOf(j.e) # {}

CommitJob(a) ==
    \/ CreateEntity(a)
    \/ UpdateEntity(a)
    \/ DeleteEntity(a)
    \/ DeleteEntityType(a)

JobEnds(a) ==
    /\ \/ CommitJob(a) /\ Write(MaxTenancyWrites) /\ Overlap(TenantAdmins \ {a})
          /\ UNCHANGED globalRules
       \/ /\ \E j \in job[a] : RefusedByTxn(j)
          /\ UNCHANGED <<etype, entity, apiKey, quotaPlans, policies, routeTables, globalRules,
                         nextRow, overlapped, writes>>
    /\ job' = [job EXCEPT ![a] = {}]

EntityRequest(a) ==
    /\ writes < MaxTenancyWrites
    /\ \/ \E body \in EntityBodies : EntityCreateAction(a, body)
       \/ \E e \in Ids, patch \in EntityPatches : EntityUpdateAction(a, e, patch)
       \/ \E e \in Ids : EntityDeleteAction(a, e)
       \/ \E t \in TypeNames : EntityTypeDeleteAction(a, t)
    /\ UNCHANGED <<etype, entity, apiKey, quotaPlans, policies, routeTables, globalRules, nextRow,
                   overlapped, writes>>

---------------------------------------------------------------------------
\* API keys.

\* A creation that leaves enabled out gives an enabled key.
APIKeyCreateProcess(body) == [NestedDefaults(body) EXCEPT !.enabled = {Given(@, TRUE)}]

\* An omitted model list is stored as "*".
newAPIKeyDataToParam(body, n) ==
    [entity |-> Given(body.entity, NoOwner),
     models |-> IF body.models = {} THEN Star ELSE body.models,
     enabled |-> Given(body.enabled, TRUE), unlimited |-> Given(body.unlimited, FALSE),
     nested |-> n]

\* Handler and transaction both look the entity up.
EntityFound(body) ==
    Given(body.entity, NoOwner) # NoOwner => Exists(entity, Given(body.entity, NoOwner))

CreateAPIKey(body) ==
    /\ nextRow \in Ids
    /\ EntityFound(body)
    /\ CreateNested(nextRow, "api_key", body)
    /\ apiKey' = [apiKey EXCEPT ![nextRow] = {newAPIKeyDataToParam(body, nextRow)}]
    /\ nextRow' = nextRow + 1

\* The key value is fixed; fields left out and empty lists are skipped.
UpdatedAPIKey(r, body) ==
    [r EXCEPT !.entity = Given(body.entity, @),
              !.models = IF body.models = {} THEN @ ELSE body.models,
              !.enabled = Given(body.enabled, @),
              !.unlimited = Given(body.unlimited, @)]

UpdateAPIKey(k, body) ==
    /\ Exists(apiKey, k)
    /\ EntityFound(body)
    /\ UpdateNested(Row(apiKey, k).nested, body)
    /\ apiKey' = [apiKey EXCEPT ![k] = {UpdatedAPIKey(r, body) : r \in @}]
    /\ UNCHANGED nextRow

DeleteAPIKey(k) ==
    /\ Exists(apiKey, k)
    /\ DeleteNested(Row(apiKey, k).nested)
    /\ apiKey' = [apiKey EXCEPT ![k] = {}]
    /\ UNCHANGED nextRow

SetGlobalRouteRules(on) ==
    /\ globalRules' = on
    /\ UNCHANGED <<etype, entity, apiKey, quotaPlans, policies, routeTables, nextRow>>

OneTransaction ==
    /\ \/ \E t \in TypeNames, level \in TypeLevels : CreateEntityType(t, level)
       \/ \E t \in TypeNames, level \in {{}} \cup {{l} : l \in TypeLevels} : UpdateEntityType(t, level)
       \/ /\ \/ \E body \in KeyBodies : CreateAPIKey(APIKeyCreateProcess(body))
             \/ \E k \in Ids, body \in KeyPatches : UpdateAPIKey(k, body)
             \/ \E k \in Ids : DeleteAPIKey(k)
          /\ UNCHANGED <<etype, entity, globalRules>>
       \/ \E on \in BOOLEAN : on # globalRules /\ SetGlobalRouteRules(on)
    /\ Write(MaxTenancyWrites)
    /\ Overlap(TenantAdmins)
    /\ UNCHANGED job

TenancyNext == OneTransaction \/ \E a \in TenantAdmins : EntityRequest(a) \/ JobEnds(a)

---------------------------------------------------------------------------
\* The generated files.

\* The entity and its ancestors, nearest first, up to a number of them.
Hierarchy(depth, start) ==
    LET walk[d \in 0..depth] ==
            [x \in Ids \cup {NoOwner} |->
                IF d = 0 \/ x = NoOwner THEN <<>>
                ELSE IF ~Exists(entity, x) THEN <<>>
                ELSE <<x>> \o walk[d - 1][Row(entity, x).parent]]
    IN walk[depth][start]

Members(seq) == {seq[i] : i \in DOMAIN seq}
Ancestors(e) == Members(Hierarchy(maxEntityHierarchyDepth, e))

\* No list at all and lists without a common model both give the empty list.
intersectAllowModels(lists) == {m \in UNION lists : \A l \in lists : m \in l}

fetchEntityModelHierarchy(e) ==
    [allow |-> intersectAllowModels({Row(entity, x).allow : x \in Ancestors(e)} \ {Star}),
     block |-> UNION ({Row(entity, x).block : x \in Ancestors(e)} \ {Star})]

Limited(n) == \E p \in quotaPlans[n] : ~p.unlimited

fetchEntityQuotaPlanHierarchy(e) == {x \in Ancestors(e) : Limited(Row(entity, x).nested)}

fetchQuotaPlansWithEntityHierarchy(k) ==
    {x \in {k} : Limited(Row(apiKey, k).nested)}
        \cup fetchEntityQuotaPlanHierarchy(Row(apiKey, k).entity)

\* Some entity type on the way is missing: no token file is generated at all.
TokensFail == \E k \in Ids : \E r \in apiKey[k] :
    \E x \in Ancestors(r.entity) : ~Exists(etype, Row(entity, x).type)

\* The token of a key; an empty model list admits every model.
APIKeyRuleGenerator(k) ==
    LET r == Row(apiKey, k)
        ent == fetchEntityModelHierarchy(r.entity)
        own == r.models \ Star
        final == IF own = {} THEN ent.allow
                 ELSE IF ent.allow = {} THEN own
                 ELSE own \cap ent.allow
        plans == fetchQuotaPlansWithEntityHierarchy(k)
    IN [models |-> final,
        enabled |-> r.enabled /\ (own \cup ent.allow # {} => final # {}),
        block |-> ent.block,
        plans |-> plans,
        unlimited |-> r.unlimited \/ plans = {}]

\* The tables a key's requests are matched against, in this order.
AIRouteGenerator(k) ==
    LET on(n) == \E t \in routeTables[n] : t.on
        chain == Hierarchy(MaxOwners + 1, Row(apiKey, k).entity)
    IN SelectSeq(<<k>>, LAMBDA x : on(Row(apiKey, x).nested))
         \o SelectSeq(chain, LAMBDA x : on(Row(entity, x).nested))
         \o SelectSeq(<<NoOwner>>, LAMBDA x : globalRules)

fetchEntityRateLimitPolicyIDs(e) ==
    {Row(entity, x).nested : x \in Members(Hierarchy(MaxOwners + 1, e))}

RateLimitPolicyBindings(k) ==
    {n \in {Row(apiKey, k).nested} \cup fetchEntityRateLimitPolicyIDs(Row(apiKey, k).entity) :
        \E p \in policies[n] : p.on}

---------------------------------------------------------------------------
\* Properties.

\* Every table holds at most one row per key, with fields of the DDL's range:
\* levels stay within 1..5 and lists are never stored empty.
TenancyTypeOK ==
    /\ \A t \in TypeNames : etype[t] \subseteq TypeRow /\ Cardinality(etype[t]) <= 1
    /\ \A x \in Ids :
          /\ entity[x] \subseteq EntityRow /\ apiKey[x] \subseteq KeyRow
          /\ quotaPlans[x] \subseteq PlanRow /\ policies[x] \subseteq PolicyRow
          /\ routeTables[x] \subseteq RouteRow
          /\ Cardinality(entity[x] \cup apiKey[x]) <= 1
    /\ globalRules \in BOOLEAN /\ overlapped \in BOOLEAN
    /\ nextRow \in 1..(MaxOwners + 1)

\* Whatever requests overlap, the plan, policy and route rules of every
\* entity and key exist, belong to it alone, and go away with it: the
\* transactions of model/entity and model/api_key leave no orphan behind.
NestedRowsOwned ==
    LET owners == Rows(entity) \cup Rows(apiKey)
    IN \A n \in Ids :
        LET owned == {r \in owners : r.nested = n}
        IN /\ Cardinality(owned) <= 1
           /\ owned # {} <=> Exists(quotaPlans, n)
           /\ owned # {} <=> Exists(policies, n)
           /\ owned # {} <=> Exists(routeTables, n)
           /\ \A t \in routeTables[n] :
                 owned = IF t.type = "entity" THEN entity[t.owner] ELSE apiKey[t.owner]

\* As the entity API states it: an entity's type and parent exist, and the
\* parent's type has a lower level than its own; an API key's entity exists.
HierarchyHolds ==
    /\ \A e \in Ids : \A r \in entity[e] :
          /\ Exists(etype, r.type)
          /\ r.parent # NoOwner => checkEntityLevel(r.type, r.parent)
    /\ \A k \in Ids : \A r \in apiKey[k] : r.entity # NoOwner => Exists(entity, r.entity)

\* The same, as long as no request was overtaken between its checks and its
\* transaction: the guards of the handlers are enough when requests do not
\* overlap.
HierarchySound == ~overlapped => HierarchyHolds

\* As long as no requests overlap, the walk up the parents from any entity
\* ends after at most five entities: the loops of the exporters without a
\* bound end, the one with a bound is not cut off, and a missing entity type
\* never keeps the token file from being generated.
WalksEnd ==
    ~overlapped =>
        /\ \A e \in Ids : Len(Hierarchy(MaxOwners + maxEntityHierarchyDepth, e)) <= Cardinality(Levels)
        /\ ~TokensFail

Above ==
    TransitiveClosure([x, y \in Ids |-> Exists(entity, y) /\ \E r \in entity[x] : r.parent = y], Ids)

\* The plans, policies and route tables the data plane gets for a key are
\* those of the key, of its entity and of every entity above it, and no
\* others: the bounded loop, the recursion and the unbounded loop of the
\* three exporters agree with the parent relation.
ExportsFollowHierarchy ==
    \A k \in Ids : Exists(apiKey, k) =>
        LET e == Row(apiKey, k).entity
            over == IF e = NoOwner THEN {}
                    ELSE {x \in Ids : Exists(entity, e) /\ (x = e \/ Above[e, x])}
            nested(o) == IF o = k THEN Row(apiKey, k).nested ELSE Row(entity, o).nested
        IN /\ APIKeyRuleGenerator(k).plans = {o \in over \cup {k} : Limited(nested(o))}
           /\ RateLimitPolicyBindings(k) =
                 {n \in {nested(o) : o \in over \cup {k}} : \E p \in policies[n] : p.on}
           /\ Members(AIRouteGenerator(k)) \ {NoOwner} =
                 {o \in over \cup {k} : \E t \in routeTables[nested(o)] : t.on}

\* The models a key may use: those in its own whitelist and in the whitelist
\* of its entity and of every entity above it.
Usable(k) ==
    LET r == Row(apiKey, k)
        lists == ({Row(entity, x).allow : x \in Ancestors(r.entity)} \cup {r.models}) \ {Star}
    IN {m \in LLMs : \A l \in lists : m \in l}
Admitted(token) == IF ~token.enabled THEN {} ELSE IF token.models = {} THEN LLMs ELSE token.models

\* The token of an enabled key admits exactly the models of all whitelists
\* together, as long as the entities' own lists have a model in common.
TokenModelsExact ==
    \A k \in Ids : Exists(apiKey, k) =>
        LET lists == {Row(entity, x).allow : x \in Ancestors(Row(apiKey, k).entity)} \ {Star}
        IN (\E m \in LLMs : \A l \in lists : m \in l) =>
              Admitted(APIKeyRuleGenerator(k)) = IF Row(apiKey, k).enabled THEN Usable(k) ELSE {}
=============================================================================
