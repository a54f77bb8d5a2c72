----------------------------- MODULE QuotaReset -----------------------------
(***************************************************************************)
(* Quota plans and the remaining quota kept in Redis (model/quota,         *)
(* model/quotacache, and the quota part of the api-key and entity          *)
(* managers).                                                              *)
(*                                                                         *)
(* The database table quota_plans holds the granted quota; Redis holds     *)
(* QUOTA_<owner>, what is left of it, which the gateway decrements.  The   *)
(* two are written by actors that share no lock:                           *)
(*   - Runs: executions of QuotaResetScheduler.resetQuotas, the periodic   *)
(*     reset, one per instance, behind a Redis lock with a TTL.  One       *)
(*     database transaction surrounds the listing, the claims and the      *)
(*     Redis SETs of all plans;                                            *)
(*   - Admins: management requests (create, delete and change an owner     *)
(*     with its plan, reset a balance by hand), which commit the database  *)
(*     first and write Redis afterwards with GET then INCRBY;              *)
(*   - the gateway, which spends.                                          *)
(*                                                                         *)
(* A plan is created nested in one api-key or entity, so one identifier    *)
(* stands for the plan row, its owner and the owner's Redis key.  Times    *)
(* are whole days.  Redis values are integers in the plan's unit: amounts  *)
(* of RMB are stored multiplied by a fixed scale.                          *)
(***************************************************************************)
EXTENDS Integers, Sequences, FiniteSets, Functions

CONSTANTS
  Runs,         \* executions of resetQuotas
  Token,        \* Token[r]: instanceToken of the instance that executes r
  Admins,       \* management requests in flight
  NPlans,       \* plans are 1..NPlans, in the order the table lists them
  Entities,     \* the plans owned by an entity; the others by an api-key
  InitRows,     \* the rows the plans may start with
  NewRows,      \* the plans a create request may carry
  Changes,      \* the plans an update request may carry
  ResetQuotas,  \* the quotas a manual reset may carry (optional)
  Days,         \* the days the clock may show
  MonthStarts,  \* the days that are the first of a month
  RmbScale,     \* fixed-point scale of RMB amounts in Redis (1e8)
  Sentinel,     \* remaining quota written for an unlimited plan (1e8)
  MaxSpend,     \* bound: units the gateway spends
  MaxOps,       \* bound: management requests
  Faults,       \* kinds of faults that may happen
  MaxFaults     \* bound: faults in a behaviour

Plans == 1..NPlans
FaultKinds == {"crash", "commit_fail", "db_fail", "redis_fail", "lock_lost"}

Null == -1      \* last_reset_at IS NULL
NoToken == "no token"

\* A row of quota_plans: last is last_reset_at.
Rows == [quota : Nat, unlimited : BOOLEAN, unit : {"total_token", "RMB"},
         period : {"none", "weekly", "monthly"}, last : Nat \cup {Null}]

\* A field of a request is optional (a pointer): the empty set when absent,
\* else the set of its value.
Optional(S) == {{}} \cup {{x} : x \in S}
Given(field, kept) == IF field = {} THEN kept ELSE CHOOSE x \in field : TRUE

\* The plan in the body of an update.
Bodies == [quota : SUBSET Nat, unlimited : Optional(BOOLEAN),
           unit : Optional({"total_token", "RMB"}),
           period : Optional({"none", "weekly", "monthly"})]

ASSUME ConstantsAssumption ==
  /\ NPlans \in Nat \ {0}
  /\ Entities \subseteq Plans
  /\ NoToken \notin {Token[r] : r \in Runs}
  /\ InitRows \subseteq Rows /\ NewRows \subseteq Rows /\ Changes \subseteq Bodies
  /\ ResetQuotas \subseteq SUBSET Nat
  /\ Days \subseteq Nat /\ Days # {} /\ MonthStarts \subseteq Nat /\ 0 \in MonthStarts
  /\ RmbScale \in Nat \ {0} /\ Sentinel \in Nat
  /\ MaxSpend \in Nat /\ MaxOps \in Nat /\ MaxFaults \in Nat
  /\ Faults \subseteq FaultKinds

VARIABLES
  live,      \* the plans that have a row (and so an owner)
  plan,      \* committed rows of quota_plans
  redis,     \* value of QUOTA_<owner>; 0 when the key is missing
  present,   \* the QUOTA_ keys that exist
  lock,      \* value of quota:reset:scheduler:lock, NoToken when it is free
  sched,     \* one record per run
  adm,       \* one record per management request
  clock,     \* the current day
  spent,     \* history: spent by the owner since its last full grant
  grants,    \* history: the period starts whose reset reached Redis
  lost,      \* history: runs whose lock expired under them
  budget     \* [spend, ops, faults]: what is left of each bound

vars == <<live, plan, redis, present, lock, sched, adm, clock, spent, grants, lost, budget>>
histories == <<spent, grants, lost>>

-----------------------------------------------------------------------------
(* The calendar.  Day 0 is 1 January 1970, a Thursday. *)

Weekday(d) == (d + 4) % 7          \* time.Weekday: 0 is Sunday

GetWeekStart(d) ==
  LET back == IF Weekday(d) = 0 THEN 6 ELSE Weekday(d) - 1
  IN  d - back

GetMonthStart(d) == CHOOSE s \in MonthStarts :
  s <= d /\ \A t \in MonthStarts : t <= d => t <= s

GetPeriodStart(period, d) ==
  CASE period = "weekly"  -> GetWeekStart(d)
    [] period = "monthly" -> GetMonthStart(d)
    [] OTHER              -> d

ShouldResetByPeriod(row, now) ==
  /\ row.period \in {"weekly", "monthly"}
  /\ \/ row.last = Null
     \/ GetPeriodStart(row.period, now) > GetPeriodStart(row.period, row.last)

-----------------------------------------------------------------------------
Max0(n) == IF n > 0 THEN n ELSE 0

\* golibquota.PtrToRedisValue: an amount as the integer kept in Redis.
ToRedis(amount, unit) == IF unit = "RMB" THEN amount * RmbScale ELSE amount

\* Mutant: the claims are committed one by one, not with the Redis writes.
RowLocked_Never(p) == FALSE

\* The row lock a claim holds until its transaction ends.
RowLocked(p) == \E r \in Runs : p \in sched[r].claims

Fault(kind) == /\ kind \in Faults
               /\ budget.faults > 0
               /\ budget' = [budget EXCEPT !.faults = @ - 1]

IdleRun == [pc |-> "idle", now |-> 0, todo |-> {}, claims |-> {}]
NoRow == [quota |-> 0, unlimited |-> FALSE, unit |-> "total_token",
          period |-> "none", last |-> Null]
NoBody == [quota |-> {}, unlimited |-> {}, unit |-> {}, period |-> {}]
IdleAdm == [pc |-> "idle", p |-> 1, body |-> NoBody, old |-> NoRow,
            full |-> FALSE, target |-> 0, cur |-> 0, seen |-> 0]

Init ==
  /\ live = Plans
  /\ plan \in [Plans -> InitRows]
  /\ present = {p \in Plans : plan[p].unlimited => p \in Entities}
  /\ redis = [p \in Plans |->
                IF p \notin present THEN 0
                ELSE ToRedis(IF plan[p].unlimited THEN Sentinel ELSE plan[p].quota,
                             plan[p].unit)]
  /\ lock = NoToken
  /\ sched = [r \in Runs |-> IdleRun]
  /\ adm = [a \in Admins |-> IdleAdm]
  /\ clock = CHOOSE d \in Days : \A e \in Days : d <= e
  /\ spent = [p \in Plans |-> 0]
  /\ grants = [p \in Plans |-> <<>>]
  /\ lost = {}
  /\ budget = [spend |-> MaxSpend, ops |-> MaxOps, faults |-> MaxFaults]

-----------------------------------------------------------------------------
(* The periodic reset: resetQuotas and ResetExpiredBalances. *)

\* A tick of run or a TriggerReset: the lock is taken only if the key does
\* not exist; a run that does not get it, or an error, ends at once.
Acquire(r) ==
  /\ sched[r].pc = "idle" /\ lock = NoToken
  /\ lock' = Token[r]
  /\ sched' = [sched EXCEPT ![r] = [IdleRun EXCEPT !.pc = "locked"]]
  /\ lost' = lost \ {r}
  /\ UNCHANGED <<live, plan, redis, present, adm, clock, spent, grants, budget>>

\* The transaction starts and lists quota_plans.  The filter on reset_period
\* and unlimited is dropped by quotaPlanFilterToParam: all rows come back.
\* The plans that are due are known from this snapshot and the time read.
ListPlans(r) ==
  /\ sched[r].pc = "locked"
  /\ LET due == {p \in live : ShouldResetByPeriod(plan[p], clock)}
     IN  sched' = [sched EXCEPT ![r].pc = "plans", ![r].now = clock,
                     ![r].todo = {[p |-> p, start |-> GetPeriodStart(plan[p].period, clock)]
                                    : p \in due}]
  /\ UNCHANGED <<live, plan, redis, present, lock, adm, clock, histories, budget>>

\* Mutant: the claim does not test last_reset_at.
Claimable_Always(p, start) == p \in live

\* Mutant: last_reset_at < ? is not true of NULL in SQL.
Claimable_NotNull(p, start) ==
  p \in live /\ plan[p].last # Null /\ plan[p].last < start

\* The loop over the listed plans, in the order of their ids.
FirstOf(todo) == CHOOSE w \in todo : \A v \in todo : w.p <= v.p

\* TQuotaPlanClaimPeriodReset on a row nobody else has locked: the affected
\* row is locked and its new last_reset_at is visible to others at commit.
Claimable(p, start) ==
  p \in live /\ (plan[p].last = Null \/ plan[p].last < start)

Claim(r) ==
  /\ sched[r].pc = "plans" /\ sched[r].todo # {}
  /\ LET w == FirstOf(sched[r].todo)
     IN  /\ ~RowLocked(w.p)
         /\ sched' = IF Claimable(w.p, w.start)
                     THEN [sched EXCEPT ![r].pc = "claimed", ![r].claims = @ \cup {w.p}]
                     ELSE [sched EXCEPT ![r].todo = @ \ {w}]
  /\ UNCHANGED <<live, plan, redis, present, lock, adm, clock, histories, budget>>

\* The claim fails (a lock wait timeout, for instance): the plan is skipped.
ClaimFail(r) ==
  /\ sched[r].pc = "plans" /\ sched[r].todo # {}
  /\ Fault("db_fail")
  /\ sched' = [sched EXCEPT ![r].todo = @ \ {FirstOf(@)}]
  /\ UNCHANGED <<live, plan, redis, present, lock, adm, clock, histories>>

\* resetAPIKeysRedisUsage: SET of the owner's key to the quota of the row as
\* this transaction, which holds the row lock, reads it.
ResetRedis(r) ==
  /\ sched[r].pc = "claimed"
  /\ LET p == FirstOf(sched[r].todo).p
     IN  /\ redis' = [redis EXCEPT ![p] = ToRedis(plan[p].quota, plan[p].unit)]
         /\ present' = present \cup {p}
         /\ spent' = [spent EXCEPT ![p] = 0]
         /\ grants' = [grants EXCEPT ![p] = Append(@, FirstOf(sched[r].todo).start)]
  /\ sched' = [sched EXCEPT ![r].pc = "plans", ![r].todo = @ \ {FirstOf(@)}]
  /\ UNCHANGED <<live, plan, lock, adm, clock, lost, budget>>

\* The SET fails: logged, the claim stays.
ResetRedisFail(r) ==
  /\ sched[r].pc = "claimed"
  /\ Fault("redis_fail")
  /\ sched' = [sched EXCEPT ![r].pc = "plans", ![r].todo = @ \ {FirstOf(@)}]
  /\ UNCHANGED <<live, plan, redis, present, lock, adm, clock, histories>>

Commit(r) ==
  /\ sched[r].pc = "plans" /\ sched[r].todo = {}
  /\ plan' = [p \in Plans |-> IF p \in sched[r].claims
                              THEN [plan[p] EXCEPT !.last = sched[r].now]
                              ELSE plan[p]]
  /\ sched' = [sched EXCEPT ![r].pc = "release", ![r].claims = {}]
  /\ UNCHANGED <<live, redis, present, lock, adm, clock, histories, budget>>

\* The commit fails and the claims are undone; what was SET in Redis stays.
CommitFail(r) ==
  /\ sched[r].pc = "plans" /\ sched[r].todo = {}
  /\ Fault("commit_fail")
  /\ sched' = [sched EXCEPT ![r].pc = "release", ![r].claims = {}]
  /\ UNCHANGED <<live, plan, redis, present, lock, adm, clock, histories>>

\* Mutant: DEL without comparing the token.
Release_Any(r) ==
  /\ sched[r].pc = "release"
  /\ lock' = NoToken
  /\ sched' = [sched EXCEPT ![r] = IdleRun]
  /\ UNCHANGED <<live, plan, redis, present, adm, clock, histories, budget>>

\* lockReleaseScript: deletes the lock if it still holds this token.
Release(r) ==
  /\ sched[r].pc = "release"
  /\ lock' = IF lock = Token[r] THEN NoToken ELSE lock
  /\ sched' = [sched EXCEPT ![r] = IdleRun]
  /\ UNCHANGED <<live, plan, redis, present, adm, clock, histories, budget>>

ReleaseFail(r) ==
  /\ sched[r].pc = "release"
  /\ Fault("redis_fail")
  /\ sched' = [sched EXCEPT ![r] = IdleRun]
  /\ UNCHANGED <<live, plan, redis, present, lock, adm, clock, histories>>

\* The process dies; the server rolls its transaction back.
Crash(r) ==
  /\ sched[r].pc # "idle"
  /\ Fault("crash")
  /\ sched' = [sched EXCEPT ![r] = IdleRun]
  /\ UNCHANGED <<live, plan, redis, present, lock, adm, clock, histories>>

Running(r) == sched[r].pc # "idle"

\* The TTL runs out: no live run renews the lock.
LockExpire ==
  /\ lock # NoToken
  /\ \A r \in Runs : Running(r) => Token[r] # lock
  /\ lock' = NoToken
  /\ UNCHANGED <<live, plan, redis, present, sched, adm, clock, histories, budget>>

\* The TTL runs out under a run: startRenew gave up at a failed Renew, or the
\* process was suspended.  The run goes on: nothing tells it.
LockLost(r) ==
  /\ Running(r) /\ lock = Token[r]
  /\ Fault("lock_lost")
  /\ lock' = NoToken
  /\ lost' = lost \cup {r}
  /\ UNCHANGED <<live, plan, redis, present, sched, adm, clock, spent, grants>>

-----------------------------------------------------------------------------
(* Management requests.  Each takes one of MaxOps. *)

Begin(a, p) == /\ adm[a].pc = "idle"
               /\ budget.ops > 0
               /\ budget' = [budget EXCEPT !.ops = @ - 1]

\* Where a request goes once its database part is done: to SetRemaining with
\* this target, which is a full grant or an adjustment that keeps the usage.
SetTarget(a, p, target, full) ==
  [adm EXCEPT ![a].pc = "get", ![a].p = p, ![a].target = target, ![a].full = full]

\* CreateAPIKey, CreateEntity: rows in one transaction, then SetRemaining; an
\* unlimited plan is written to Redis for entities only.  last_reset_at of a
\* periodic plan is the creation time.  The row is a new one: its history
\* starts empty.
Create(a, p) ==
  /\ Begin(a, p) /\ p \notin live
  /\ \E row \in NewRows :
       /\ plan' = [plan EXCEPT ![p] = [row EXCEPT
                     !.last = IF row.period = "none" THEN Null ELSE clock]]
       /\ adm' = IF row.unlimited
                 THEN IF p \in Entities
                      THEN SetTarget(a, p, ToRedis(Sentinel, row.unit), TRUE)
                      ELSE adm
                 ELSE SetTarget(a, p, ToRedis(row.quota, row.unit), TRUE)
  /\ live' = live \cup {p}
  /\ grants' = [grants EXCEPT ![p] = <<>>]
  /\ UNCHANGED <<redis, present, lock, sched, clock, spent, lost>>

\* Mutant: the plan row is not deleted with its owner's transaction and no
\* lock is waited for.
Delete_NoWait(a, p) ==
  /\ Begin(a, p) /\ p \in live
  /\ live' = live \ {p}
  /\ adm' = [adm EXCEPT ![a].pc = "del", ![a].p = p]
  /\ UNCHANGED <<plan, redis, present, lock, sched, clock, histories>>

\* DeleteAPIKey, DeleteEntity: the rows go in one transaction, which waits
\* for the row lock of a claim; the key is deleted after the commit.
Delete(a, p) ==
  /\ Begin(a, p) /\ p \in live /\ ~RowLocked(p)
  /\ live' = live \ {p}
  /\ adm' = [adm EXCEPT ![a].pc = "del", ![a].p = p]
  /\ UNCHANGED <<plan, redis, present, lock, sched, clock, histories>>

\* cleanupRedisKeys: DEL.
DeleteKey(a) ==
  /\ adm[a].pc = "del"
  /\ present' = present \ {adm[a].p}
  /\ redis' = [redis EXCEPT ![adm[a].p] = 0]
  /\ spent' = [spent EXCEPT ![adm[a].p] = 0]
  /\ adm' = [adm EXCEPT ![a] = IdleAdm]
  /\ UNCHANGED <<live, plan, lock, sched, clock, grants, lost, budget>>

\* ResetBalance: refused for an unlimited plan; a quota in the body is saved
\* first, which waits for the row lock.  last_reset_at stays.
ResetBalance(a, p) ==
  /\ Begin(a, p) /\ p \in live /\ ~plan[p].unlimited
  /\ \E q \in ResetQuotas :
       /\ q # {} => ~RowLocked(p)
       /\ LET quota == Given(q, plan[p].quota)
          IN  /\ plan' = [plan EXCEPT ![p].quota = quota]
              /\ adm' = SetTarget(a, p, ToRedis(quota, plan[p].unit), TRUE)
  /\ UNCHANGED <<live, redis, present, lock, sched, clock, histories>>

\* The update endpoint reads the owner with its plan before anything else.
Update(a, p) ==
  /\ Begin(a, p) /\ p \in live
  /\ \E body \in Changes :
       adm' = [adm EXCEPT ![a].pc = "update", ![a].p = p,
                          ![a].body = body, ![a].old = plan[p]]
  /\ UNCHANGED <<live, plan, redis, present, lock, sched, clock, histories>>

\* UpdateAPIKey, UpdateEntity: the fields of the body are saved; the owner may
\* have gone, and the row lock of a claim is waited for.
Save(a) ==
  LET p == adm[a].p  body == adm[a].body
  IN  /\ adm[a].pc = "update" /\ ~RowLocked(p)
      /\ IF p \notin live
         THEN adm' = [adm EXCEPT ![a] = IdleAdm] /\ UNCHANGED plan
         ELSE /\ plan' = [plan EXCEPT ![p] =
                            [quota     |-> Given(body.quota, @.quota),
                             unlimited |-> Given(body.unlimited, @.unlimited),
                             unit      |-> Given(body.unit, @.unit),
                             period    |-> Given(body.period, @.period),
                             last      |-> @.last]]
              /\ adm' = [adm EXCEPT ![a].pc = "apply"]
      /\ UNCHANGED <<live, redis, present, lock, sched, clock, histories, budget>>

QuotaPlanChanged(old, body) ==
  \/ body.unlimited \notin {{}, {old.unlimited}}
  \/ body.quota \notin {{}, {old.quota}}
  \/ body.unit \notin {{}, {old.unit}}

\* ApplyQuotaPlanChange and the transaction of adjustQuota: nothing to do, a
\* full grant, or an adjustment that must know what is left.  The plan is
\* read again, the old one is the one the endpoint read.
ApplyQuotaPlanChange(a) ==
  LET p == adm[a].p  body == adm[a].body  old == adm[a].old
      newUnlimited == Given(body.unlimited, old.unlimited)
      newUnit == Given(body.unit, old.unit)
      newQuota == Given(body.quota, plan[p].quota)
  IN  /\ adm[a].pc = "apply"
      /\ adm' =
           IF p \notin live \/ ~QuotaPlanChanged(old, body)
           THEN [adm EXCEPT ![a] = IdleAdm]
           ELSE IF newUnlimited
           THEN SetTarget(a, p, ToRedis(Sentinel, plan[p].unit), TRUE)
           ELSE IF old.unlimited \/ old.unit # newUnit
           THEN SetTarget(a, p, ToRedis(newQuota, plan[p].unit), TRUE)
           ELSE [adm EXCEPT ![a].pc = "batch",
                            ![a].target = ToRedis(newQuota, plan[p].unit),
                            ![a].seen = ToRedis(old.quota, plan[p].unit)]
      /\ UNCHANGED <<live, plan, redis, present, lock, sched, clock, histories, budget>>

\* Mutant: the whole old quota counts as used.
KeepUsed_None(newQuota, oldQuota, remaining) == Max0(newQuota - oldQuota)

\* BatchGetRemaining and the targets computed from it: a missing key reads 0.
KeepUsed(newQuota, oldQuota, remaining) == Max0(newQuota - Max0(oldQuota - remaining))

BatchGetRemaining(a) ==
  /\ adm[a].pc = "batch"
  /\ adm' = SetTarget(a, adm[a].p,
                      KeepUsed(adm[a].target, adm[a].seen, redis[adm[a].p]), FALSE)
  /\ UNCHANGED <<live, plan, redis, present, lock, sched, clock, histories, budget>>

\* SetRemaining: GET, a missing key reads 0 ...
GetCurrent(a) ==
  /\ adm[a].pc = "get"
  /\ adm' = [adm EXCEPT ![a].pc = "incr", ![a].cur = redis[adm[a].p],
                        ![a].seen = spent[adm[a].p]]
  /\ UNCHANGED <<live, plan, redis, present, lock, sched, clock, histories, budget>>

\* ... then INCRBY of the difference.  After a full grant only what was spent
\* since the GET counts as spent.
IncrBy(a) ==
  LET p == adm[a].p
  IN  /\ adm[a].pc = "incr"
      /\ redis' = [redis EXCEPT ![p] = @ + (adm[a].target - adm[a].cur)]
      /\ present' = present \cup {p}
      /\ spent' = IF adm[a].full
                  THEN [spent EXCEPT ![p] = Max0(@ - adm[a].seen)] ELSE spent
      /\ adm' = [adm EXCEPT ![a] = IdleAdm]
      /\ UNCHANGED <<live, plan, lock, sched, clock, grants, lost, budget>>

\* A Redis command of a request fails: logged, the request ends.
AdminRedisFail(a) ==
  /\ adm[a].pc \in {"batch", "get", "incr", "del"}
  /\ Fault("redis_fail")
  /\ adm' = [adm EXCEPT ![a] = IdleAdm]
  /\ UNCHANGED <<live, plan, redis, present, lock, sched, clock, histories>>

-----------------------------------------------------------------------------
(* The environment. *)

\* The gateway takes one unit for a request.
Spend(p) ==
  /\ p \in live /\ p \in present /\ budget.spend > 0
  /\ redis' = [redis EXCEPT ![p] = @ - 1]
  /\ spent' = [spent EXCEPT ![p] = @ + 1]
  /\ budget' = [budget EXCEPT !.spend = @ - 1]
  /\ UNCHANGED <<live, plan, present, lock, sched, adm, clock, grants, lost>>

NextDay ==
  /\ clock' \in {d \in Days : d > clock /\ \A e \in Days : e <= clock \/ d <= e}
  /\ UNCHANGED <<live, plan, redis, present, lock, sched, adm, histories, budget>>

RunStep(r) ==
  \/ Acquire(r) \/ ListPlans(r) \/ Claim(r) \/ ResetRedis(r) \/ Commit(r) \/ Release(r)

RunFault(r) ==
  \/ ClaimFail(r) \/ ResetRedisFail(r) \/ CommitFail(r) \/ ReleaseFail(r)
  \/ Crash(r) \/ LockLost(r)

AdminStep(a) ==
  \/ DeleteKey(a) \/ Save(a) \/ ApplyQuotaPlanChange(a) \/ BatchGetRemaining(a)
  \/ GetCurrent(a) \/ IncrBy(a)

AdminStart(a, p) == Create(a, p) \/ Delete(a, p) \/ ResetBalance(a, p) \/ Update(a, p)

Next ==
  \/ \E r \in Runs : RunStep(r) \/ RunFault(r)
  \/ LockExpire
  \/ \E a \in Admins : AdminStep(a) \/ AdminRedisFail(a) \/ \E p \in Plans : AdminStart(a, p)
  \/ \E p \in Plans : Spend(p)
  \/ NextDay

Spec == Init /\ [][Next]_vars

\* The scheduler's minute ticker keeps every run going, the lock's TTL runs
\* out, requests are executed, days pass.
Fairness ==
  /\ \A r \in Runs : WF_vars(RunStep(r))
  /\ WF_vars(LockExpire)
  /\ \A a \in Admins : WF_vars(AdminStep(a))
  /\ WF_vars(NextDay)

FairSpec == Spec /\ Fairness

-----------------------------------------------------------------------------
(* Properties. *)

RunStates ==
  [pc : {"idle", "locked", "plans", "claimed", "release"}, now : Nat,
   todo : SUBSET [p : Plans, start : Int], claims : SUBSET Plans]
AdmStates ==
  [pc : {"idle", "update", "apply", "batch", "get", "incr", "del"}, p : Plans,
   body : Bodies, old : Rows, full : BOOLEAN, target : Nat, cur : Int, seen : Nat]

\* Every variable stays in its range; a run that is not in the middle of its
\* transaction holds no row lock.
TypeOK ==
  /\ live \subseteq Plans /\ present \subseteq Plans
  /\ plan \in [Plans -> Rows]
  /\ redis \in [Plans -> Int] /\ spent \in [Plans -> Nat]
  /\ lock \in {NoToken} \cup {Token[r] : r \in Runs}
  /\ sched \in [Runs -> RunStates] /\ adm \in [Admins -> AdmStates]
  /\ \A r \in Runs :
       /\ sched[r].pc \notin {"plans", "claimed"} => sched[r].claims = {}
       /\ sched[r].pc = "claimed" =>
            sched[r].todo # {} /\ FirstOf(sched[r].todo).p \in sched[r].claims
  /\ clock \in Days
  /\ grants \in [Plans -> Seq(Int)]
  /\ lost \subseteq Runs
  /\ budget \in [spend : 0..MaxSpend, ops : 0..MaxOps, faults : 0..MaxFaults]

\* In one period the balances of a plan are reset at most once, whatever the
\* number of instances and even after a run lost the scheduler lock: the
\* conditional update of last_reset_at under its row lock decides
\* (ResetExpiredBalances, ClaimQuotaPlanReset).
OncePerPeriod == \A p \in Plans : IsInjective(grants[p])

\* Two executions of resetQuotas overlap only if one of them outlived its
\* lock: a run never frees a lock it no longer owns (lockReleaseScript
\* compares the token).
ResetMutex ==
  \A r, q \in Runs : Running(r) /\ Running(q) /\ r # q => r \in lost \/ q \in lost

\* Between the claim of a plan and the end of the transaction nobody deletes
\* the plan or changes its quota or unit, so what is SET in Redis is the
\* quota of the table (the row lock of the claim's UPDATE).  And last_reset_at
\* never goes back while a plan exists, even if a run that read an earlier day
\* commits late (TQuotaPlanClaimPeriodReset).
ClaimFreezesRow ==
  [][/\ \A r \in Runs : \A p \in sched[r].claims \cap sched'[r].claims :
          /\ p \in live'
          /\ plan'[p].quota = plan[p].quota /\ plan'[p].unit = plan[p].unit
     /\ \A p \in live \cap live' : plan'[p].last >= plan[p].last]_vars

\* No management request on p is under way.
Settled(p) == \A a \in Admins : adm[a].pc # "idle" => adm[a].p # p

\* Once an owner is deleted and its key cleaned up the key stays deleted: the
\* periodic reset cannot write it again, because DeleteQuotaPlan waits for
\* the row lock of a claim and a claim finds no deleted row.
NoOrphanKey == \A p \in Plans : p \notin live /\ Settled(p) => p \notin present

Limited(p) == p \in live /\ p \in present /\ ~plan[p].unlimited /\ Settled(p)
                /\ ~RowLocked(p)
Granted(p) == ToRedis(plan[p].quota, plan[p].unit)

\* When nobody is working on a limited plan its owner has at most the quota of
\* the plan left, and no less than the quota minus what it spent since it was
\* last granted the full quota: a change of the quota gives nothing away and
\* takes nothing that was not used (adjustQuota, ResetBalance,
\* ResetToQuotaAtomic).
BalanceWithinGrant ==
  \A p \in Plans :
    Limited(p) => Granted(p) - spent[p] <= redis[p] /\ redis[p] <= Granted(p)

\* The periodic reset leaves unlimited plans alone.
UnlimitedNeverReset ==
  [][\A p \in Plans : p \in live /\ plan[p].unlimited => grants'[p] = grants[p]]_vars

Due(p) == p \in live /\ ShouldResetByPeriod(plan[p], clock)

\* A plan whose period began is claimed, or deleted, sooner or later: lost
\* locks, crashes and failed commits only delay it (the minute ticker of run).
DueIsReset == \A p \in Plans : Due(p) ~> ~Due(p)
=============================================================================
