---------------------------- MODULE ClusterConf ----------------------------
(***************************************************************************)
(* The clusters of the gateway with the rows they own: an instance pool, a *)
(* sub-cluster bound to it and a scheduling matrix (model/icluster_conf),  *)
(* the provider each of them names, the routing rules that name clusters,  *)
(* and the configuration files generated from all of these.  A transaction *)
(* is one step.  PATCH and DELETE of a cluster read it first, outside      *)
(* their transaction, and work on that copy.                               *)
(***************************************************************************)
EXTENDS Provider

CONSTANTS
    Clusters,          \* cluster names
    Owners,            \* owners of routing rules: global, entities, API keys
    Admins,            \* requests to the cluster endpoints in progress at once
    ProviderBodies,    \* provider request bodies
    TierBodies,        \* bodies of the pricing-tiers request
    K8sLists,          \* instance lists the Kubernetes controller pushes
    ClusterBodies,     \* bodies of cluster creation
    ClusterPatches,    \* bodies of cluster update
    TargetSets,        \* sets of targets [cluster, model] of an owner's rules
    PatchK8s,          \* llm_config patches of clusters on k8s_pool providers too
    MaxId,             \* bound on the clusters ever created
    MaxClusterWrites   \* bound on the writes

ASSUME ClusterConfAssumption == MaxId \in Nat /\ MaxClusterWrites \in Nat /\ PatchK8s \in BOOLEAN

VARIABLES
    cluster,       \* name -> row
    pool,          \* name -> row of the pool of that cluster
    subCluster,    \* name -> row of the sub-cluster of that name
    lbMatrix,      \* ids of the clusters that have a scheduling matrix
    rules,         \* owner -> targets of its routing rules
    req,           \* admin -> the cluster request in progress, in a set
    nextId         \* the auto-increment of the three tables

clusterVars == <<cluster, pool, subCluster, lbMatrix, rules, req, nextId>>
catalogVars == <<providerVars, clusterVars>>

Strategies == {"CLIENT_IP_ONLY", "CLIENT_ID_ONLY", "CLIENT_ID_PREFERED"}
EppConfigKinds == {"none", "empty", "set"}    \* absent, {}, with some field
Sticky == [on : BOOLEAN, strategy : Strategies, header : BOOLEAN]
ClusterRow ==
    [id : 1..MaxId, provider : Providers, models : SUBSET Models, keys : SUBSET KeyNames,
     mode : {"WRR", "EPP"}, cfg : EppConfigKinds, sticky : Sticky]
PoolRow == [id : 1..MaxId, insts : SUBSET Insts, role : {"COMMON", "EPP"}]
SubRow == [id : 1..MaxId, clusterId : 1..MaxId, poolId : 1..MaxId]

ClusterInit ==
    /\ provider = EmptyTable(Providers)
    /\ k8sPool = EmptyTable(PoolNames)
    /\ cluster = EmptyTable(Clusters)
    /\ pool = EmptyTable(Clusters)
    /\ subCluster = EmptyTable(Clusters)
    /\ lbMatrix = {}
    /\ rules = [o \in Owners |-> {}]
    /\ req = [a \in Admins |-> {}]
    /\ nextId = 1

---------------------------------------------------------------------------
\* Providers.  Each request is one transaction that reads the row itself.

ReferencedBy(p) == {c \in Clusters : \E r \in cluster[c] : r.provider = p}

CreateProvider(p, body) ==
    /\ ValidateProviderParam(body)
    /\ body.models # {}
    /\ ~Exists(provider, p)
    /\ provider' = [provider EXCEPT ![p] = {CreatedProvider(body)}]

ProviderKeyRefChecker(p, new) == \A c \in ReferencedBy(p) : Row(cluster, c).keys \subseteq new.keys
ProviderModelRefChecker(p, new) ==
    \A c \in ReferencedBy(p) : Row(cluster, c).models \subseteq new.models

\* The pool a sub-cluster names by id.
PoolOf(c) == {n \in Clusters : \E s \in subCluster[c], r \in pool[n] : s.poolId = r.id}
FirstPoolId(c) == {s.poolId : s \in {t \in subCluster[c] : PoolOf(c) # {}}}

UpdatePool(ids, I) ==
    [n \in Clusters |-> {IF r.id \in ids THEN [r EXCEPT !.insts = I] ELSE r : r \in pool[n]}]

\* Mutant: an empty effective pool is skipped as a field that is not given.
SyncProviderEffectivePool_SkipEmpty(p, I) ==
    IF I = {} THEN pool
    ELSE UpdatePool(UNION {FirstPoolId(c) : c \in ReferencedBy(p)}, I)

\* Every pool of the clusters on provider p gets the instances I.
SyncProviderEffectivePool(p, I) == UpdatePool(UNION {FirstPoolId(c) : c \in ReferencedBy(p)}, I)

ProviderInstancePoolSyncer(p, old, new) ==
    IF EffectiveInstancePool(old) = EffectiveInstancePool(new) THEN pool
    ELSE SyncProviderEffectivePool(p, EffectiveInstancePool(new))

\* The hooks run when keys, models or the effective pool change.
UpdateProvider(p, body) ==
    LET old == Row(provider, p)
        new == applyProviderUpdate(old, body)
    IN /\ ValidateProviderParam(body)
       /\ Exists(provider, p)
       /\ validateProviderProtocolPaths(new.paths, body.protocols)
       /\ new.keys # old.keys => ProviderKeyRefChecker(p, new)
       /\ new.models # old.models => ProviderModelRefChecker(p, new)
       /\ provider' = [provider EXCEPT ![p] = {new}]
       /\ pool' = ProviderInstancePoolSyncer(p, old, new)

UpdatePricingTiers(p, ranges) ==
    /\ validatePricingTiers(ranges)
    /\ Exists(provider, p)
    /\ provider' = [provider EXCEPT ![p] = {[Row(provider, p) EXCEPT !.tiers = ranges]}]

\* Mutant: the reference check is dropped.
DeleteProvider_Unchecked(p) ==
    /\ Exists(provider, p)
    /\ provider' = [provider EXCEPT ![p] = {}]

DeleteProvider(p) ==
    /\ Exists(provider, p)
    /\ ReferencedBy(p) = {}
    /\ provider' = [provider EXCEPT ![p] = {}]

SyncMirrors(n, I) ==
    /\ provider' = syncProviderMirrors(n, I)
    /\ pool' = UpdatePool(UNION {FirstPoolId(c) : c \in UNION {ReferencedBy(p) : p \in Mirrors(n)}}, I)

ReplaceInstances(n, I) ==
    /\ ValidateInstances(I)
    /\ k8sPool' = [k8sPool EXCEPT ![n] = {I}]
    /\ SyncMirrors(n, I)

DeletePool(n) ==
    /\ Exists(k8sPool, n)
    /\ k8sPool' = [k8sPool EXCEPT ![n] = {}]
    /\ SyncMirrors(n, {})

---------------------------------------------------------------------------
validateClusterBalanceConfig(mode, cfg) == mode = "EPP" => cfg = "set"

\* Only what the request itself enables is checked.
validateStickySessions(s) ==
    Given(s.on, FALSE) /\ Given(s.strategy, "CLIENT_ID_ONLY") # "CLIENT_IP_ONLY"
        => Given(s.header, FALSE)

\* Every cluster serves some model.
LLMConfig(llm) == llm.models # {}

NoSticky == [on |-> {}, strategy |-> {}, header |-> {}]

\* The checks of a request body, made before anything is read.
ValidateUpsert(sticky, llms) ==
    validateStickySessions(Given(sticky, NoSticky)) /\ \A llm \in llms : LLMConfig(llm)

validateClusterLLMConfigAgainstProvider(llm, p) ==
    llm.models \subseteq p.models /\ llm.keys \subseteq p.keys

\* The hash settings stored for a new cluster, and after a patch.
normalizeStickySessions(s) ==
    [on |-> Given(s.on, FALSE), strategy |-> Given(s.strategy, "CLIENT_IP_ONLY"),
     header |-> Given(s.header, FALSE)]

PatchSticky(old, s) ==
    [on |-> Given(s.on, old.on), strategy |-> Given(s.strategy, old.strategy),
     header |-> Given(s.header, old.header)]

\* The rows of a new cluster, each with the next id of its table.
CreatedPool(I, mode) ==
    [id |-> nextId, insts |-> I, role |-> IF mode = "EPP" THEN "EPP" ELSE "COMMON"]

BoundSubCluster == [id |-> nextId, clusterId |-> nextId, poolId |-> nextId]

CreatedCluster(body) ==
    [id |-> nextId, provider |-> body.llm.provider, models |-> body.llm.models,
     keys |-> body.llm.keys, mode |-> body.mode, cfg |-> body.cfg,
     sticky |-> normalizeStickySessions(body.sticky)]

\* One transaction: the pool with the instances of the provider, the
\* sub-cluster on it, the cluster, its matrix and the binding of the two.
CreateCluster(c, body) ==
    LET p == Row(provider, body.llm.provider)
    IN /\ nextId <= MaxId
       /\ ValidateUpsert({body.sticky}, {body.llm})
       /\ validateClusterBalanceConfig(body.mode, body.cfg)
       /\ ~Exists(cluster, c)
       /\ Exists(provider, body.llm.provider)
       /\ validateClusterLLMConfigAgainstProvider(body.llm, p)
       /\ ~Exists(pool, c)
       /\ pool' = [pool EXCEPT ![c] = {CreatedPool(EffectiveInstancePool(p), body.mode)}]
       /\ subCluster' = [subCluster EXCEPT ![c] = {BoundSubCluster}]
       /\ cluster' = [cluster EXCEPT ![c] = {CreatedCluster(body)}]
       /\ lbMatrix' = lbMatrix \cup {nextId}
       /\ nextId' = nextId + 1

\* What the handler holds of a cluster it has read.
FetchCluster(c) ==
    [name |-> c, row |-> Row(cluster, c), subs |-> subCluster[c], pools |-> FirstPoolId(c)]

BeginUpdate(a, c, patch) ==
    /\ req[a] = {}
    /\ ValidateUpsert(patch.sticky, patch.llm)
    /\ Exists(cluster, c)
    /\ req' = [req EXCEPT ![a] = {[op |-> "update", old |-> FetchCluster(c), patch |-> {patch}]}]

BeginDelete(a, c) ==
    /\ req[a] = {}
    /\ Exists(cluster, c)
    /\ req' = [req EXCEPT ![a] = {[op |-> "delete", old |-> FetchCluster(c), patch |-> {}]}]

Targets == UNION {rules[o] : o \in Owners}

\* No rule targets a model that the patch drops from the cluster as read.
ClusterModelUpdateChecker(old, llm) ==
    \A t \in Targets : t.cluster = old.name => t.model \notin old.row.models \ llm.models

ClusterDeleteChecker(old) == \A t \in Targets : t.cluster # old.name

\* The update proper, as conditions on the copy and the patch.
UpdateAdmitted(old, patch) ==
    /\ validateClusterBalanceConfig(Given(patch.mode, old.row.mode), Given(patch.cfg, old.row.cfg))
    /\ \A llm \in patch.llm :
          /\ Exists(provider, llm.provider)
          /\ validateClusterLLMConfigAgainstProvider(llm, Row(provider, llm.provider))
          /\ ClusterModelUpdateChecker(old, llm)

\* The row written for the cluster of the copy's id: the fields of the patch.
PatchedRow(r, patch) ==
    LET llm == Given(patch.llm, [provider |-> r.provider, models |-> r.models, keys |-> r.keys])
    IN [r EXCEPT !.provider = llm.provider, !.models = llm.models, !.keys = llm.keys,
                 !.mode = Given(patch.mode, @), !.cfg = Given(patch.cfg, @),
                 !.sticky = IF patch.sticky = {} THEN @
                            ELSE PatchSticky(@, Given(patch.sticky, {}))]

ClusterUpdate(id, patch) ==
    [c \in Clusters |-> {IF r.id = id THEN PatchedRow(r, patch) ELSE r : r \in cluster[c]}]

\* The instances written are the provider's own instance_pool, whatever its
\* instance_source.
UpdateCluster(a) ==
    \E q \in req[a] : \E patch \in q.patch :
        /\ q.op = "update"
        /\ UpdateAdmitted(q.old, patch)
        /\ PatchK8s \/ \A llm \in patch.llm : Row(provider, llm.provider).source = "instance_pool"
        /\ pool' = IF patch.llm = {} THEN pool
                   ELSE UpdatePool(q.old.pools, Row(provider, Given(patch.llm, {}).provider).pool)
        /\ cluster' = ClusterUpdate(q.old.row.id, patch)
        /\ req' = [req EXCEPT ![a] = {}]
        /\ UNCHANGED <<provider, k8sPool, subCluster, lbMatrix, rules, nextId>>

ClusterDelete(id) ==
    /\ lbMatrix' = lbMatrix \ {id}
    /\ cluster' = [c \in Clusters |-> {r \in cluster[c] : r.id # id}]

\* Sub-cluster, cluster and matrix are deleted by id, the pool by its name.
\* A sub-cluster without a pool makes BindSubCluster panic.
DeleteCluster(a) ==
    \E q \in req[a] :
        /\ q.op = "delete"
        /\ ClusterDeleteChecker(q.old)
        /\ q.old.pools # {}
        /\ subCluster' = [c \in Clusters |-> subCluster[c] \ q.old.subs]
        /\ pool' = [pool EXCEPT ![q.old.name] = {}]
        /\ ClusterDelete(q.old.row.id)
        /\ req' = [req EXCEPT ![a] = {}]
        /\ UNCHANGED <<provider, k8sPool, rules, nextId>>

\* A request refused in its transaction ends and changes nothing.
Refused(a) ==
    /\ \E q \in req[a] :
          \/ q.op = "update" /\ \E patch \in q.patch : ~UpdateAdmitted(q.old, patch)
          \/ q.op = "delete" /\ (q.old.pools = {} \/ ~ClusterDeleteChecker(q.old))
    /\ req' = [req EXCEPT ![a] = {}]
    /\ UNCHANGED <<provider, k8sPool, cluster, pool, subCluster, lbMatrix, rules, nextId>>

\* The rules of an owner are replaced; their clusters and models are not
\* looked up.
UpdateRouteRules(o, T) == rules' = [rules EXCEPT ![o] = T]

---------------------------------------------------------------------------
\* The generated configuration.

clusterTable(c) == UNION {r.insts : r \in UNION {pool[n] : n \in PoolOf(c)}}

\* gslbConfGenerator stops at the first cluster without a scheduling matrix.
gslbReady(c) == \A r \in cluster[c] : r.id \in lbMatrix

normalizeBFEHashStrategy(s) ==
    IF ~s.on /\ ~s.header THEN "CLIENT_IP_ONLY" ELSE s.strategy

\* The keys exported for a cluster; one that its provider lacks has no value.
newAIConf(c) ==
    LET r == Row(cluster, c)
    IN [k \in r.keys |-> IF k \in Row(provider, r.provider).keys THEN "value" ELSE ""]

NewBfeClusterConf(c) ==
    LET s == Row(cluster, c).sticky
    IN [strategy |-> normalizeBFEHashStrategy(s), header |-> s.header, keys |-> newAIConf(c)]

---------------------------------------------------------------------------
ProviderStep ==
    /\ Write(MaxClusterWrites)
    /\ \/ \E p \in Providers, b \in ProviderBodies : CreateProvider(p, b) /\ UNCHANGED pool
       \/ \E p \in Providers, b \in ProviderBodies : UpdateProvider(p, b)
       \/ \E p \in Providers, t \in TierBodies : UpdatePricingTiers(p, t) /\ UNCHANGED pool
       \/ \E p \in Providers : DeleteProvider(p) /\ UNCHANGED pool
    /\ UNCHANGED <<k8sPool, cluster, subCluster, lbMatrix, rules, req, nextId>>

K8sStep ==
    /\ Write(MaxClusterWrites)
    /\ \E n \in PoolNames : DeletePool(n) \/ \E I \in K8sLists : ReplaceInstances(n, I)
    /\ UNCHANGED <<cluster, subCluster, lbMatrix, rules, req, nextId>>

ClusterBegin ==
    /\ Write(MaxClusterWrites)
    /\ \E c \in Clusters, a \in Admins :
          BeginDelete(a, c) \/ \E patch \in ClusterPatches : BeginUpdate(a, c, patch)
    /\ UNCHANGED <<provider, k8sPool, cluster, pool, subCluster, lbMatrix, rules, nextId>>

ClusterCreate ==
    /\ Write(MaxClusterWrites)
    /\ \E c \in Clusters, b \in ClusterBodies : CreateCluster(c, b)
    /\ UNCHANGED <<provider, k8sPool, rules, req>>

ClusterEnd ==
    /\ \E a \in Admins : UpdateCluster(a) \/ DeleteCluster(a) \/ Refused(a)
    /\ UNCHANGED writes

RulesStep ==
    /\ Write(MaxClusterWrites)
    /\ \E o \in Owners, T \in TargetSets : UpdateRouteRules(o, T)
    /\ UNCHANGED <<provider, k8sPool, cluster, pool, subCluster, lbMatrix, req, nextId>>

ClusterNext == ProviderStep \/ K8sStep \/ ClusterCreate \/ ClusterBegin \/ ClusterEnd \/ RulesStep

---------------------------------------------------------------------------
\* The tables hold rows of their types, and no id is used before its time.
ClusterTypeOK ==
    /\ \A p \in Providers : provider[p] \subseteq ProviderRow /\ Cardinality(provider[p]) <= 1
    /\ \A n \in PoolNames : k8sPool[n] \subseteq SUBSET Insts /\ Cardinality(k8sPool[n]) <= 1
    /\ \A c \in Clusters :
          /\ cluster[c] \subseteq ClusterRow /\ Cardinality(cluster[c]) <= 1
          /\ pool[c] \subseteq PoolRow /\ Cardinality(pool[c]) <= 1
          /\ subCluster[c] \subseteq SubRow /\ Cardinality(subCluster[c]) <= 1
    /\ lbMatrix \subseteq 1..(nextId - 1)

\* ProviderDeleteChecker, ProviderKeyRefChecker, ProviderModelRefChecker and
\* validateClusterLLMConfigAgainstProvider: whatever the order of provider
\* and cluster requests, a cluster names an existing provider, and only
\* models and keys that provider has, so every key is exported with a value.
ReferencesHold ==
    \A c \in Clusters : \A r \in cluster[c] :
        /\ Exists(provider, r.provider)
        /\ r.models \subseteq Row(provider, r.provider).models
        /\ \A k \in r.keys : NewBfeClusterConf(c).keys[k] = "value"

\* EffectiveInstancePool is "the single consumption contract for downstream
\* consumers (cluster creation snapshot, instance-pool sync, ...)": the
\* instances exported for a cluster are those its provider is served by now,
\* through every creation, patch, mode switch and push from Kubernetes.
ExportFollowsProvider ==
    \A c \in Clusters : \A r \in cluster[c] :
        clusterTable(c) = EffectiveInstancePool(Row(provider, r.provider))

\* CreateCluster and DeleteCluster: a cluster, its pool, its sub-cluster and
\* its matrix, without which gslbConfGenerator fails for all clusters, exist
\* together, and a deleted cluster leaves none of them.
OwnedRowsTogether ==
    /\ \A c \in Clusters : {r.id : r \in cluster[c]} = {s.clusterId : s \in subCluster[c]}
    /\ \A c \in Clusters : {s.poolId : s \in subCluster[c]} = {r.id : r \in pool[c]}
    /\ \A c \in Clusters : gslbReady(c)
    /\ lbMatrix \subseteq UNION {{r.id : r \in cluster[c]} : c \in Clusters}

\* UpdateProvider: "k8s_instance_pool is [] in instance_pool mode", and the
\* upstream paths are those of declared protocols even when a request changes
\* only one of the two lists.
MirrorAndPathsConsistent ==
    \A p \in Providers : \A r \in provider[p] :
        /\ r.source = "instance_pool" => r.mirror = {}
        /\ r.paths \subseteq r.protocols

Covers(r, day, t) == (r.days = {} \/ day \in r.days) /\ r.from <= t /\ t < r.to
Minutes == UNION {r.from..r.to : r \in TimeRanges}

\* validatePricingTiers: at every minute of the week at most one time range
\* of the peak tier applies.
OnePriceAtATime ==
    \A p \in Providers : \A r \in provider[p] : \A day \in 0..6, t \in Minutes :
        Cardinality({x \in r.tiers : Covers(x, day, t)}) <= 1

\* validateClusterBalanceConfig: "balance_mode=EPP requires a non-empty,
\* non-empty-object epp_config", through every order of patches of the two.
EppConfigured == \A c \in Clusters : \A r \in cluster[c] : r.mode = "EPP" => r.cfg = "set"
=============================================================================
