---------------------------- MODULE RateLimits -----------------------------
(***************************************************************************)
(* The rate-limit policy of an API key or entity: the requests that write  *)
(* it, the file generated for the data plane, and the Redis counters that  *)
(* the data plane keeps under the keys named in that file and that the     *)
(* managers delete with the rules (model/rate_limit_policy, model/shared). *)
(* The data plane is taken to work on the latest file.                     *)
(***************************************************************************)
EXTENDS Tables, Integers

CONSTANTS
    LimitOwners,      \* API keys and entities
    RuleNames,        \* names of tpm and rpm rules
    extractRateLimitNameFromKey,  \* name -> what is read back from a Redis key with it
    PolicyBodies,     \* rate_limit_policy objects of requests
    MaxPolicies,      \* bound on the policies ever created
    MaxLimitWrites    \* bound on the writes

Names(ruleset) == {r.name : r \in ruleset}

ASSUME LimitsAssumption ==
    /\ MaxPolicies \in Nat /\ MaxLimitWrites \in Nat
    /\ extractRateLimitNameFromKey \in [RuleNames -> RuleNames]
    /\ \A p \in PolicyBodies : \A r \in p.rules : Names(r.tpm) \cup Names(r.rpm) \subseteq RuleNames

VARIABLES
    policy,        \* owner -> row
    counters,      \* Redis keys that exist
    nextPolicy,    \* the auto-increment of the table
    moved          \* history: keys of rules that an update moved to the other kind

limitVars == <<policy, counters, nextPolicy, moved>>

MaxWindow == 360
MaxRules == 3
NoConcurrencyLimit == -1

LimitsInit ==
    /\ policy = EmptyTable(LimitOwners)
    /\ counters = {}
    /\ nextPolicy = 1
    /\ moved = {}

\* Configurations that differ in the name alone are refused.
NoDuplicates(ruleset) ==
    \A r, s \in ruleset : r # s => r.name # s.name /\ [r EXCEPT !.name = s.name] # s

WindowAdmitted(t) == t.window \in 1..MaxWindow /\ t.step \in 1..t.window

RateLimitPolicy(p) ==
    /\ Given(p.on, FALSE) => \E r \in p.rules :
          r.tpm # {} \/ r.rpm # {} \/ Given(r.conc, NoConcurrencyLimit) >= 0 \/ r.batch # {}
    /\ \A r \in p.rules :
          /\ Cardinality(r.tpm) <= MaxRules /\ Cardinality(r.rpm) <= MaxRules
          /\ \A n \in r.conc : n >= NoConcurrencyLimit
          /\ \A n \in r.batch : n >= 0
          /\ NoDuplicates(r.tpm) /\ NoDuplicates(r.rpm)
          /\ Names(r.tpm) \cap Names(r.rpm) = {}
          /\ \A t \in r.tpm : WindowAdmitted(t)
          /\ \A t \in r.rpm : t.window \in 1..MaxWindow

NoRules == [tpm |-> {}, rpm |-> {}, conc |-> {}, batch |-> {}]

\* The columns written: tpm, rpm and batch limits are always written, the
\* two scalars when they are given.
rateLimitPolicyDataToParam(old, p) ==
    LET rules == Given(p.rules, NoRules)
    IN [old EXCEPT !.on = Given(p.on, @), !.conc = Given(rules.conc, @),
                   !.tpm = rules.tpm, !.rpm = rules.rpm, !.batch = rules.batch]

\* The columns of a new row before anything is written, as in the DDL.
ColumnDefaults(id) ==
    [id |-> id, on |-> FALSE, conc |-> NoConcurrencyLimit, tpm |-> {}, rpm |-> {}, batch |-> {}]

\* What the create handlers put in for a policy that is left out.
DefaultPolicy == [on |-> {FALSE}, rules |-> {[NoRules EXCEPT !.conc = {0}]}]

---------------------------------------------------------------------------
\* The Redis keys of a policy.

BuildBFERateLimitRedisKey(id, kind, name) == [id |-> id, kind |-> kind, name |-> {name}]
BuildBatchRateLimitRedisKey(id) == [id |-> id, kind |-> "RL_BATCH", name |-> {}]
BatchRateLimitEnabled(r) == \E n \in r.batch : n > 0

buildTpmRpmRateLimitRedisKeys(r) ==
    {BuildBFERateLimitRedisKey(r.id, "RL_TPM", n) : n \in Names(r.tpm)}
        \cup {BuildBFERateLimitRedisKey(r.id, "RL_RPM", n) : n \in Names(r.rpm)}

\* Mutant: the counter of the batch limit is left behind.
BuildRateLimitRedisKeys_NoBatch(r) == buildTpmRpmRateLimitRedisKeys(r)

BuildRateLimitRedisKeys(r) ==
    buildTpmRpmRateLimitRedisKeys(r)
        \cup {b \in {BuildBatchRateLimitRedisKey(r.id)} : BatchRateLimitEnabled(r)}

\* The keys of the old rules whose name no new rule has.
DiffRateLimitRedisKeys(old, new) ==
    {k \in buildTpmRpmRateLimitRedisKeys(old) :
        \A n \in k.name : extractRateLimitNameFromKey[n] \notin Names(new.tpm) \cup Names(new.rpm)}
    \cup {b \in {BuildBatchRateLimitRedisKey(old.id)} :
             BatchRateLimitEnabled(old) /\ ~BatchRateLimitEnabled(new)}

\* The keys of the rules that become rules of the other kind under their names: the
\* match by name does not count them as removed.
MovedKeys(old, new) ==
    {BuildBFERateLimitRedisKey(old.id, "RL_TPM", n) : n \in Names(old.tpm) \cap Names(new.rpm)}
        \cup {BuildBFERateLimitRedisKey(old.id, "RL_RPM", n) : n \in Names(old.rpm) \cap Names(new.tpm)}

exportBatchLimits(r) == {b \in {BuildBatchRateLimitRedisKey(r.id)} : \E n \in r.batch : n > 0}

\* The keys in the generated file: those of the enabled policies.
RateLimitPolicyGenerator ==
    UNION {buildTpmRpmRateLimitRedisKeys(r) \cup exportBatchLimits(r) : r \in {p \in Rows(policy) : p.on}}

---------------------------------------------------------------------------
\* Requests.

\* body: the policy of the request, or none.
CreateOwner(o, body) ==
    /\ ~Exists(policy, o)
    /\ nextPolicy <= MaxPolicies
    /\ \A p \in body : RateLimitPolicy(p)
    /\ policy' = [policy EXCEPT ![o] =
          {rateLimitPolicyDataToParam(ColumnDefaults(nextPolicy), Given(body, DefaultPolicy))}]
    /\ nextPolicy' = nextPolicy + 1
    /\ UNCHANGED <<counters, moved>>

UpdatePolicy(o, p) ==
    /\ RateLimitPolicy(p)
    /\ \E old \in policy[o] :
          LET new == rateLimitPolicyDataToParam(old, p)
          IN /\ policy' = [policy EXCEPT ![o] = {new}]
             /\ counters' = counters \ DiffRateLimitRedisKeys(old, new)
             /\ moved' = moved \cup MovedKeys(old, new)
    /\ UNCHANGED nextPolicy

DeleteOwner(o) ==
    /\ Exists(policy, o)
    /\ policy' = [policy EXCEPT ![o] = {}]
    /\ counters' = counters \ BuildRateLimitRedisKeys(Row(policy, o))
    /\ UNCHANGED <<nextPolicy, moved>>

\* The data plane counts a request under a key of the file it has.
CountRequest ==
    \E k \in RateLimitPolicyGenerator \ counters :
        counters' = counters \cup {k} /\ UNCHANGED <<policy, nextPolicy, moved, writes>>

LimitsNext ==
    \/ /\ Write(MaxLimitWrites)
       /\ \E o \in LimitOwners :
             \/ \E body \in {{}} \cup {{p} : p \in PolicyBodies} : CreateOwner(o, body)
             \/ \E p \in PolicyBodies : UpdatePolicy(o, p)
             \/ DeleteOwner(o)
    \/ CountRequest

LimitsSpec == LimitsInit /\ writes = 0 /\ [][LimitsNext]_<<limitVars, writes>>

---------------------------------------------------------------------------
\* Properties.

\* At most one policy per owner, each with its own id, and every stored rule
\* set respects the limits on windows and steps that the request was checked
\* for: no partial update combines into one that was never checked.
LimitsTypeOK ==
    /\ \A o \in LimitOwners : Cardinality(policy[o]) <= 1
    /\ \A r, s \in Rows(policy) : r.id = s.id => r = s
    /\ \A r \in Rows(policy) :
          /\ r.id \in 1..MaxPolicies /\ r.on \in BOOLEAN /\ r.conc >= NoConcurrencyLimit
          /\ \A t \in r.tpm : t.step <= t.window /\ t.window <= MaxWindow
    /\ nextPolicy \in 1..(MaxPolicies + 1)

\* Every counter left in Redis is that of a rule, or of a batch limit, that a stored
\* policy still has: what updates and deletions remove does not survive in Redis,
\* whatever order requests and counting happen in.  The one exception is the counter
\* of a rule that moved between tpm and rpm under its name: DiffRateLimitRedisKeys
\* keeps it, and no later update or deletion names its key any more.
CountersFollowRules ==
    \A k \in counters \ moved : \E r \in Rows(policy) : k \in BuildRateLimitRedisKeys(r)
=============================================================================
