------------------------------ MODULE Provider ------------------------------
(***************************************************************************)
(* The providers and k8s_pools tables (model/iprovider, model/ik8s_pool    *)
(* and their storage).  A provider is an upstream with its models, its     *)
(* keys and its instances; the instances are maintained by hand            *)
(* (instance_pool) or mirrored from a pool that the Kubernetes controller  *)
(* pushes (k8s_pool).  An instance list is the set of its members.         *)
(***************************************************************************)
EXTENDS Tables

CONSTANTS
    Providers,     \* provider names
    PoolNames,     \* names of Kubernetes pools
    Models,        \* model names
    KeyNames,      \* names of upstream keys
    Insts,         \* instances, records [addr, weight]
    Protocols,     \* model protocols
    TimeRanges     \* time ranges of a pricing tier, [days, from, to]

VARIABLES
    provider,      \* name -> the row of that name, in a set, or {}
    k8sPool        \* name -> the instances of that pool, in a set, or {}

providerVars == <<provider, k8sPool>>

ProviderRow ==
    [models : SUBSET Models, keys : SUBSET KeyNames, source : {"instance_pool", "k8s_pool"},
     k8sName : PoolNames \cup {""}, pool : SUBSET Insts, mirror : SUBSET Insts,
     protocols : SUBSET Protocols, paths : SUBSET Protocols, tiers : SUBSET TimeRanges]

EffectiveInstancePool(p) == IF p.source = "k8s_pool" THEN p.mirror ELSE p.pool

SharesAddress(I) == \E i, j \in I : i # j /\ i.addr = j.addr

validateProviderInstancePool(I) ==
    /\ I # {}
    /\ ~SharesAddress(I)
    /\ \E i \in I : i.weight > 0

\* The rules follow the source the request names, instance_pool by default,
\* whatever the stored row says.
validateProviderInstanceSource(body) ==
    IF Given(body.source, "instance_pool") = "instance_pool"
    THEN validateProviderInstancePool(Given(body.pool, {}))
    ELSE body.k8sName # {}

validateProviderProtocolPaths(paths, protocols) == paths \subseteq protocols

timeRangesOverlap(a, b) ==
    /\ a.days = {} \/ b.days = {} \/ a.days \cap b.days # {}
    /\ a.from < b.to
    /\ b.from < a.to

validateTimeRange(r) == r.days \subseteq 0..6 /\ r.from < r.to

\* The only tier there is, "peak", has pairwise disjoint time ranges.
validatePricingTiers(ranges) ==
    /\ \A r \in ranges : validateTimeRange(r)
    /\ \A a, b \in ranges : a # b => ~timeRangesOverlap(a, b)

ValidateProviderParam(body) ==
    /\ validateProviderInstanceSource(body)
    /\ body.protocols # {}
    /\ validateProviderProtocolPaths(Given(body.paths, {}), body.protocols)
    /\ {} \notin body.models
    /\ validatePricingTiers(Given(body.tiers, {}))

\* The row a create request stores; every omitted list is empty.
CreatedProvider(body) ==
    [models |-> Given(body.models, {}), keys |-> Given(body.keys, {}),
     source |-> Given(body.source, "instance_pool"), k8sName |-> Given(body.k8sName, ""),
     pool |-> Given(body.pool, {}), mirror |-> {}, protocols |-> body.protocols,
     paths |-> Given(body.paths, {}), tiers |-> Given(body.tiers, {})]

\* An update writes the fields it carries; leaving the k8s_pool mode clears
\* the mirror.
applyProviderUpdate(row, body) ==
    LET source == Given(body.source, row.source)
    IN [models |-> Given(body.models, row.models), keys |-> Given(body.keys, row.keys),
        source |-> source, k8sName |-> Given(body.k8sName, row.k8sName),
        pool |-> Given(body.pool, row.pool),
        mirror |-> IF source = "instance_pool" THEN {} ELSE row.mirror,
        protocols |-> body.protocols, paths |-> Given(body.paths, row.paths),
        tiers |-> Given(body.tiers, row.tiers)]

\* The providers fed by the Kubernetes pool n.
Mirrors(n) ==
    {p \in Providers : Exists(provider, p) /\ Row(provider, p).source = "k8s_pool"
                          /\ Row(provider, p).k8sName = n}

syncProviderMirrors(n, I) ==
    [p \in Providers |->
        IF p \in Mirrors(n) THEN {[Row(provider, p) EXCEPT !.mirror = I]} ELSE provider[p]]

ValidateInstances(I) == ~SharesAddress(I)
=============================================================================
