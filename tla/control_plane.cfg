SPECIFICATION PlaneSpec
CONSTANTS
    \* cluster
    Providers = {"p1"}
    PoolNames = {"pool"}
    Models = {"m1", "m2"}
    KeyNames = {"k1"}
    Insts <- MCInsts
    Protocols = {"openai", "anthropic"}
    TimeRanges <- MCTimeRanges
    Clusters = {"c1"}
    Owners = {"global", "entity"}
    Admins = {"a1"}
    ProviderBodies <- MCProviderBodies
    TierBodies <- MCTierBodies
    K8sLists <- MCK8sLists
    ClusterBodies <- MCClusterBodies
    ClusterPatches <- MCClusterPatches
    TargetSets <- MCTargetSets
    PatchK8s = FALSE
    MaxId = 2
    MaxClusterWrites = 7
    \* tenancy
    TypeNames = {"dep", "team"}
    LLMs = {"m1", "m2"}
    TypeLevels = {1, 2, 6}
    EntityBodies <- MCEntityBodies
    EntityPatches <- MCEntityPatches
    KeyBodies <- MCKeyBodies
    KeyPatches <- MCKeyPatches
    TenantAdmins = {"a1", "a2"}
    Undocumented = {}
    MaxOwners = 3
    MaxTenancyWrites = 5
    \* limits
    LimitOwners = {"o1", "o2"}
    RuleNames = {"x", "y", "z"}
    extractRateLimitNameFromKey <- SameName
    PolicyBodies <- MCPolicyBodies
    MaxPolicies = 3
    MaxLimitWrites = 5
    \* access
    Usernames = {"admin", "u1"}
    TokenNames = {"t1"}
    Passwords = {"p1", "p2"}
    Legacy = {}
    Clients = {"c1", "c2"}
    Addresses = {"in", "out"}
    Paths <- MCPaths
    AccessConfs <- MCAccessConfs
    MaxAccessWrites = 3
    MaxKeys = 2
    \* rulesets
    CacheBodies <- MCCacheBodies
    SemanticBodies <- MCSemanticBodies
    ContextBodies <- MCContextBodies
    ContextSettingsBodies <- MCContextSettingsBodies
    MirrorBodies <- MCMirrorBodies
    IntentBodies <- MCIntentBodies
    Conditions = {"p", "q"}
    Piped = {"o|"}
    MirrorClusters = {"c1"}
    RulesetAdmins = {"a1", "a2"}
    MaxRulesetWrites = 3
    MaxSeconds = 1
    \* prices
    PriceBodies <- MCPriceBodies
    PricePatches <- MCPricePatches
    PriceFiles <- MCPriceFiles
    ValidModes = {"chat", "completion", "batch"}
    ValidPriceKeys = {"in", "out"}
    maxPriceFixedPoint = 10
    PriceAdmins = {"a1", "a2"}
    PageRows = 5
    MaxPriceWrites = 3
    \* certs
    CertNames = {"n1", "n2"}
    CertContents = {"crt1", "crt2"}
    KeyContents = {"key1", "key2"}
    CertPair <- MCCertPair
    CertAdmins = {"a1", "a2"}
    MaxCertWrites = 4
    \* views
    MaxViewOwners = 2
    ViewRows <- MCViewRows
    ViewFilters <- MCViewFilters
    ViewPageSize = 1
    ViewScale = 2
    ViewSentinel = 5
    CacheFails = TRUE
    MaxViewWrites = 2
    MaxSpent = 1
INVARIANTS
    PlaneConsistent
    
    TenancySound
    
    
    AccessSound
    RulesetsFaithful
    ExportedPairsServed
    
CHECK_DEADLOCK FALSE
