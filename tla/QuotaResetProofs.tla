-------------------------- MODULE QuotaResetProofs --------------------------
(***************************************************************************)
(* Theorems about QuotaReset, for any number of instances, plans, requests *)
(* and faults: the lock of the scheduler, then what the row locks achieve: *)
(* claimed rows stand still, and no period is granted twice; then, for     *)
(* requests that do not overlap, the keys of deleted owners and balances.  *)
(***************************************************************************)
EXTENDS QuotaReset, WellFoundedInduction, TLAPS

\* Instances draw their instanceToken with uuid.NewString.
DistinctTokens == \A r, q \in Runs : Token[r] = Token[q] => r = q

\* The records of the runs keep their shape.
RunShape ==
  /\ sched = [r \in Runs |-> sched[r]]
  /\ \A r \in Runs : sched[r] = [pc |-> sched[r].pc, now |-> sched[r].now,
                                 todo |-> sched[r].todo, claims |-> sched[r].claims]

\* A run that did not lose its lock holds it.
LockHeld == \A r \in Runs : Running(r) /\ r \notin lost => lock = Token[r]

LockInv == RunShape /\ LockHeld

LEMMA LockInit == Init => LockInv
  BY DEF Init, LockInv, RunShape, LockHeld, Running, IdleRun

\* Steps that leave the lock alone and start no run keep LockHeld.
LEMMA LockUntouched ==
  ASSUME LockHeld, lock' = lock, lost' = lost, \A r \in Runs : Running(r)' => Running(r)
  PROVE  LockHeld'
  BY DEF LockHeld

LEMMA LockNext ==
  ASSUME DistinctTokens, LockInv, [Next]_vars
  PROVE  LockInv'
<1> USE DEF LockInv
<1>1. ASSUME NEW r \in Runs, Acquire(r)
      PROVE  LockInv'
  <2>1. RunShape'
    BY <1>1, Zenon DEF Acquire, RunShape, IdleRun
  <2>2. \A q \in Runs : q # r => sched'[q] = sched[q]
    BY <1>1 DEF Acquire, RunShape
  <2>3. \A q \in Runs : Running(q) => q \in lost
    BY <1>1, ConstantsAssumption DEF Acquire, LockHeld
  <2>4. LockHeld'
    BY <1>1, <2>2, <2>3 DEF Acquire, LockHeld, Running
  <2> QED
    BY <2>1, <2>4
<1>2. ASSUME NEW r \in Runs, ListPlans(r) \/ Claim(r) \/ ClaimFail(r) \/ ResetRedis(r)
                              \/ ResetRedisFail(r) \/ Commit(r) \/ CommitFail(r)
      PROVE  LockInv'
  <2>1. lock' = lock /\ lost' = lost
    BY <1>2, Zenon DEF ListPlans, Claim, ClaimFail, ResetRedis, ResetRedisFail, Commit,
                CommitFail, histories
  <2>2. RunShape' /\ \A q \in Runs : q # r => sched'[q] = sched[q]
    <3>1. CASE ListPlans(r)
      BY <3>1, Zenon DEF ListPlans, RunShape
    <3>2. CASE Claim(r)
      BY <3>2, Zenon DEF Claim, RunShape
    <3>3. CASE ClaimFail(r)
      BY <3>3, Zenon DEF ClaimFail, RunShape
    <3>4. CASE ResetRedis(r)
      BY <3>4, Zenon DEF ResetRedis, RunShape
    <3>5. CASE ResetRedisFail(r)
      BY <3>5, Zenon DEF ResetRedisFail, RunShape
    <3>6. CASE Commit(r)
      BY <3>6, Zenon DEF Commit, RunShape
    <3>7. CASE CommitFail(r)
      BY <3>7, Zenon DEF CommitFail, RunShape
    <3> QED
      BY <1>2, <3>1, <3>2, <3>3, <3>4, <3>5, <3>6, <3>7
  <2>3. Running(r)
    BY <1>2, Zenon DEF ListPlans, Claim, ClaimFail, ResetRedis, ResetRedisFail, Commit,
                CommitFail, Running
  <2>4. \A q \in Runs : Running(q)' => Running(q)
    BY <2>2, <2>3 DEF Running
  <2> QED
    BY <2>1, <2>2, <2>4, LockUntouched
<1>3. ASSUME NEW r \in Runs, Release(r) \/ ReleaseFail(r) \/ Crash(r)
      PROVE  LockInv'
  <2>1. sched' = [sched EXCEPT ![r] = IdleRun] /\ lost' = lost
    BY <1>3 DEF Release, ReleaseFail, Crash, histories
  <2>2. RunShape'
    BY <2>1, Zenon DEF RunShape, IdleRun
  <2>3. \A q \in Runs : Running(q)' => Running(q) /\ q # r
    BY <2>1 DEF RunShape, Running, IdleRun
  <2>4. lock' = lock \/ (lock = Token[r] /\ lock' = NoToken)
    BY <1>3 DEF Release, ReleaseFail, Crash
  <2>5. LockHeld'
    BY <2>1, <2>3, <2>4 DEF LockHeld, DistinctTokens
  <2> QED
    BY <2>2, <2>5
<1>4. ASSUME NEW r \in Runs, LockLost(r)
      PROVE  LockInv'
  BY <1>4 DEF LockLost, RunShape, LockHeld, Running, DistinctTokens
<1>5. CASE LockExpire
  BY <1>5 DEF LockExpire, RunShape, LockHeld, Running, histories
<1>6. CASE UNCHANGED <<lock, sched, lost>>
  BY <1>6 DEF RunShape, LockHeld, Running
<1>7. ASSUME NEW a \in Admins, AdminStep(a) \/ AdminRedisFail(a)
      PROVE  UNCHANGED <<lock, sched, lost>>
  BY <1>7, Zenon DEF AdminStep, DeleteKey, Save, ApplyQuotaPlanChange, BatchGetRemaining,
              GetCurrent, IncrBy, AdminRedisFail, histories
<1>8. ASSUME NEW a \in Admins, NEW p \in Plans, AdminStart(a, p)
      PROVE  UNCHANGED <<lock, sched, lost>>
  BY <1>8, Zenon DEF AdminStart, Create, Delete, ResetBalance, Update, histories
<1>9. ASSUME NEW p \in Plans, Spend(p)
      PROVE  UNCHANGED <<lock, sched, lost>>
  BY <1>9 DEF Spend
<1>10. NextDay => UNCHANGED <<lock, sched, lost>>
  BY DEF NextDay, histories
<1>11. CASE UNCHANGED vars
  BY <1>6, <1>11 DEF vars
<1>12. CASE Next
  BY <1>1, <1>2, <1>3, <1>4, <1>5, <1>6, <1>7, <1>8, <1>9, <1>10, <1>12
     DEF Next, RunStep, RunFault
<1> QED
  BY <1>11, <1>12

\* Two executions of resetQuotas overlap only if one of them outlived its
\* lock, for any number of instances and faults (lockAcquireScript,
\* lockReleaseScript, startRenew).
THEOREM SchedulerMutex ==
  ASSUME DistinctTokens
  PROVE  Spec => []ResetMutex
<1>1. LockInv => ResetMutex
  BY DEF LockInv, LockHeld, ResetMutex, DistinctTokens
<1> QED
  BY <1>1, LockInit, LockNext, PTL DEF Spec

-----------------------------------------------------------------------------
(* The operators. *)

\* A set of natural numbers that is not empty has a least element.
LEMMA LeastNat ==
  ASSUME NEW T \in SUBSET Nat, T # {}
  PROVE  \E x \in T : \A y \in T : x <= y
<1>1. \E x \in T : \A y \in T : ~ (<<y, x>> \in OpToRel(<, Nat))
  BY WFMin, NatLessThanWellFounded, Zenon
<1>2. PICK x \in T : \A y \in T : ~ (y < x)
  BY <1>1, Zenon DEF OpToRel
<1> QED
  BY <1>2

\* The calendar always has a first of the month on or before a day.
LEMMA MonthStartExists ==
  ASSUME NEW d \in Nat
  PROVE  \E s \in MonthStarts : s <= d /\ \A t \in MonthStarts : t <= d => t <= s
<1> DEFINE T == {n \in Nat : n <= d /\ d - n \in MonthStarts}
<1>1. d \in T
  BY ConstantsAssumption
<1>2. T \in SUBSET Nat /\ T # {}
  BY <1>1
<1>5. PICK x \in T : \A y \in T : x <= y
  <2> HIDE DEF T
  <2> QED
    BY <1>2, LeastNat
<1>3. d - x \in MonthStarts /\ d - x <= d /\ x \in Nat
  BY <1>5
<1>4. ASSUME NEW t \in MonthStarts, t <= d
      PROVE  t <= d - x
  <2>1. t \in Nat
    BY ConstantsAssumption
  <2>2. d - t \in T
    BY <1>4, <2>1
  <2>3. x <= d - t
    <3> HIDE DEF T
    <3> QED
      BY <1>5, <2>2
  <2> QED
    BY <1>3, <2>1, <2>3
<1> QED
  BY <1>3, <1>4

\* A period starts on or before the days that are in it.
LEMMA PeriodStartBefore ==
  ASSUME NEW d \in Nat, NEW period
  PROVE  GetPeriodStart(period, d) \in Int /\ GetPeriodStart(period, d) <= d
<1>1. Weekday(d) \in 0..6
  BY DEF Weekday
<1>2. GetWeekStart(d) \in Int /\ GetWeekStart(d) <= d
  BY <1>1 DEF GetWeekStart
<1>3. GetMonthStart(d) \in MonthStarts /\ GetMonthStart(d) <= d
  BY MonthStartExists, Zenon DEF GetMonthStart
<1>4. GetMonthStart(d) \in Int
  <2>1. \A s \in MonthStarts : s \in Int
    BY ConstantsAssumption
  <2> QED
    BY <1>3, <2>1
<1> QED
  BY <1>2, <1>3, <1>4 DEF GetPeriodStart

\* The next plan of the loop is one of those that are left.
LEMMA FirstOfIn ==
  ASSUME NEW todo \in SUBSET [p : Plans, start : Int], todo # {}
  PROVE  FirstOf(todo) \in todo
<1> DEFINE T == {w.p : w \in todo}
<1>1. T \in SUBSET Nat /\ T # {}
  BY DEF Plans
<1>2. PICK x \in T : \A y \in T : x <= y
  BY <1>1, LeastNat, Zenon
<1>3. PICK w \in todo : w.p = x
  BY <1>2
<1>4. \A v \in todo : w.p <= v.p
  BY <1>2, <1>3
<1> QED
  BY <1>4, Zenon DEF FirstOf

LEMMA ToRedisNat ==
  ASSUME NEW amount \in Nat, NEW unit
  PROVE  ToRedis(amount, unit) \in Nat
  BY ConstantsAssumption DEF ToRedis

\* An optional field, given or kept, has the type of the column.
LEMMA GivenIn ==
  ASSUME NEW S, NEW field \in SUBSET S, NEW kept \in S
  PROVE  Given(field, kept) \in S
  BY DEF Given

-----------------------------------------------------------------------------
(* Type correctness. *)

RunRecord(s) ==
  /\ s \in RunStates
  /\ s.pc \notin {"plans", "claimed"} => s.claims = {}
  /\ s.pc = "claimed" => s.todo # {} /\ FirstOf(s.todo).p \in s.claims

RunsOK == sched \in [Runs -> RunStates] /\ \A r \in Runs : RunRecord(sched[r])

LEMMA RunsTyped ==
  ASSUME TypeOK, NEW r \in Runs, RunStep(r) \/ RunFault(r)
  PROVE  RunsOK'
<1>0. /\ RunsOK /\ RunRecord(sched[r]) /\ sched[r] \in RunStates /\ sched \in [Runs -> RunStates]
      /\ live \subseteq Plans /\ plan \in [Plans -> Rows] /\ clock \in Nat
  BY ConstantsAssumption DEF TypeOK, RunsOK, RunRecord
<1>1. ASSUME NEW s, RunRecord(s), sched' = [sched EXCEPT ![r] = s]
      PROVE  RunsOK'
  BY <1>0, <1>1 DEF RunsOK, RunRecord
<1>2. RunRecord(IdleRun) /\ RunRecord([IdleRun EXCEPT !.pc = "locked"])
  BY DEF RunRecord, IdleRun, RunStates
<1>3. CASE Acquire(r)
  BY <1>1, <1>2, <1>3, Zenon DEF Acquire
<1>4. CASE ListPlans(r)
  <2> DEFINE due == {p \in live : ShouldResetByPeriod(plan[p], clock)}
             todo == {[p |-> p, start |-> GetPeriodStart(plan[p].period, clock)] : p \in due}
             s == [sched[r] EXCEPT !.pc = "plans", !.now = clock, !.todo = todo]
  <2>1. todo \in SUBSET [p : Plans, start : Int]
    BY <1>0, PeriodStartBefore
  <2>2. sched' = [sched EXCEPT ![r] = s]
    BY <1>0, <1>4, Zenon DEF ListPlans
  <2> HIDE DEF todo
  <2>3. RunRecord(s)
    BY <1>0, <2>1, Zenon DEF RunRecord, RunStates
  <2> QED
    BY <1>1, <2>2, <2>3, Zenon
<1>5. CASE Claim(r)
  <2> DEFINE w == FirstOf(sched[r].todo)
             taken == [sched[r] EXCEPT !.pc = "claimed", !.claims = @ \cup {w.p}]
             left == [sched[r] EXCEPT !.todo = @ \ {w}]
  <2>1. sched[r].pc = "plans" /\ sched[r].todo # {}
    BY <1>5 DEF Claim
  <2>2. w \in sched[r].todo /\ w.p \in Plans
    BY <1>0, <2>1, FirstOfIn DEF RunStates
  <2>3. sched' = [sched EXCEPT ![r] = taken] \/ sched' = [sched EXCEPT ![r] = left]
    BY <1>0, <1>5, Zenon DEF Claim
  <2>4. taken.todo = sched[r].todo /\ w.p \in taken.claims
    BY <1>0 DEF RunStates
  <2>5. RunRecord(taken)
    BY <1>0, <2>1, <2>2, <2>4, Zenon DEF RunRecord, RunStates
  <2>6. RunRecord(left)
    BY <1>0, <2>1 DEF RunRecord, RunStates
  <2> QED
    BY <1>1, <2>3, <2>5, <2>6
<1>6. CASE ClaimFail(r) \/ ResetRedis(r) \/ ResetRedisFail(r)
  <2> DEFINE left == [sched[r] EXCEPT !.pc = "plans", !.todo = @ \ {FirstOf(@)}]
  <2>1. sched' = [sched EXCEPT ![r] = left]
    <3>1. CASE ClaimFail(r)
      <4>1. sched[r].pc = "plans" /\ sched' = [sched EXCEPT ![r].todo = @ \ {FirstOf(@)}]
        BY <3>1 DEF ClaimFail
      <4>2. [sched[r] EXCEPT !.todo = @ \ {FirstOf(@)}] = left
        BY <1>0, <4>1, Zenon DEF RunStates
      <4> QED
        BY <1>0, <4>1, <4>2, Zenon
    <3>2. CASE ResetRedis(r) \/ ResetRedisFail(r)
      BY <1>0, <3>2, Zenon DEF ResetRedis, ResetRedisFail
    <3> QED
      BY <1>6, <3>1, <3>2
  <2>2. RunRecord(left)
    BY <1>0, Zenon DEF RunRecord, RunStates
  <2> QED
    BY <1>1, <2>1, <2>2, Zenon
<1>7. CASE Commit(r) \/ CommitFail(r)
  <2> DEFINE s == [sched[r] EXCEPT !.pc = "release", !.claims = {}]
  <2>1. sched' = [sched EXCEPT ![r] = s]
    BY <1>0, <1>7, Zenon DEF Commit, CommitFail
  <2>2. RunRecord(s)
    BY <1>0, Zenon DEF RunRecord, RunStates
  <2> QED
    BY <1>1, <2>1, <2>2, Zenon
<1>8. CASE Release(r) \/ ReleaseFail(r) \/ Crash(r)
  BY <1>1, <1>2, <1>8 DEF Release, ReleaseFail, Crash
<1>9. CASE LockLost(r)
  BY <1>0, <1>9 DEF LockLost, RunsOK
<1> QED
  BY <1>3, <1>4, <1>5, <1>6, <1>7, <1>8, <1>9 DEF RunStep, RunFault

LEMMA IdleAdmTyped == IdleAdm \in AdmStates
<1>1. NPlans \in Nat \ {0}
  BY ConstantsAssumption, Zenon
<1>2. 1 \in Plans
  BY <1>1 DEF Plans
<1>3. NoRow \in Rows
  BY DEF NoRow, Rows, Null
<1>4. NoBody \in Bodies
  BY DEF NoBody, Bodies, Optional
<1> QED
  BY <1>2, <1>3, <1>4 DEF IdleAdm, AdmStates

LEMMA AdminsTyped ==
  ASSUME TypeOK, NEW a \in Admins,
         AdminStep(a) \/ AdminRedisFail(a) \/ \E p \in Plans : AdminStart(a, p)
  PROVE  adm' \in [Admins -> AdmStates]
<1>0. /\ adm[a] \in AdmStates /\ adm \in [Admins -> AdmStates]
      /\ adm[a].p \in Plans /\ adm[a].body \in Bodies /\ adm[a].old \in Rows
      /\ live \subseteq Plans /\ plan \in [Plans -> Rows]
      /\ redis \in [Plans -> Int] /\ spent \in [Plans -> Nat]
  BY Zenon DEF TypeOK, AdmStates
<1>1. ASSUME NEW s \in AdmStates, adm' = [adm EXCEPT ![a] = s]
      PROVE  adm' \in [Admins -> AdmStates]
  BY <1>0, <1>1
<1>2. IdleAdm \in AdmStates
  BY IdleAdmTyped
<1>3. ASSUME NEW p \in Plans, NEW target \in Nat, NEW full \in BOOLEAN,
             adm' = SetTarget(a, p, target, full)
      PROVE  adm' \in [Admins -> AdmStates]
  <2> DEFINE s == [adm[a] EXCEPT !.pc = "get", !.p = p, !.target = target, !.full = full]
  <2>1. s \in AdmStates
    BY <1>0, Zenon DEF AdmStates
  <2>2. adm' = [adm EXCEPT ![a] = s]
    BY <1>0, <1>3, Zenon DEF SetTarget
  <2> QED
    BY <1>1, <2>1, <2>2, Zenon
<1>4. CASE DeleteKey(a) \/ IncrBy(a) \/ AdminRedisFail(a)
  BY <1>1, <1>2, <1>4 DEF DeleteKey, IncrBy, AdminRedisFail
<1>5. CASE Save(a)
  <2>1. [adm[a] EXCEPT !.pc = "apply"] \in AdmStates
    BY <1>0 DEF AdmStates
  <2> QED
    BY <1>0, <1>1, <1>2, <1>5, <2>1 DEF Save
<1>6. CASE ApplyQuotaPlanChange(a)
  <2> DEFINE p == adm[a].p
             newQuota == Given(adm[a].body.quota, plan[p].quota)
             target == ToRedis(newQuota, plan[p].unit)
             seen == ToRedis(adm[a].old.quota, plan[p].unit)
  <2>1. newQuota \in Nat /\ adm[a].old.quota \in Nat
    BY <1>0, GivenIn, Zenon DEF Rows, Bodies
  <2>2. target \in Nat /\ seen \in Nat /\ ToRedis(Sentinel, plan[p].unit) \in Nat
    BY <2>1, ToRedisNat, ConstantsAssumption
  <2>3. \/ adm' = [adm EXCEPT ![a] = IdleAdm]
        \/ adm' = SetTarget(a, p, ToRedis(Sentinel, plan[p].unit), TRUE)
        \/ adm' = SetTarget(a, p, target, TRUE)
        \/ adm' = [adm EXCEPT ![a].pc = "batch", ![a].target = target, ![a].seen = seen]
    BY <1>6, Zenon DEF ApplyQuotaPlanChange
  <2> HIDE DEF target, seen, newQuota
  <2>4. CASE adm' = [adm EXCEPT ![a].pc = "batch", ![a].target = target, ![a].seen = seen]
    <3> DEFINE s == [adm[a] EXCEPT !.pc = "batch", !.target = target, !.seen = seen]
    <3>1. s \in AdmStates
      BY <1>0, <2>2, Zenon DEF AdmStates
    <3>2. adm' = [adm EXCEPT ![a] = s]
      BY <1>0, <2>4, Zenon
    <3> QED
      BY <1>1, <3>1, <3>2, Zenon
  <2> QED
    BY <1>0, <1>1, <1>2, <1>3, <2>2, <2>3, <2>4, Zenon
<1>7. CASE BatchGetRemaining(a)
  <2>1. KeepUsed(adm[a].target, adm[a].seen, redis[adm[a].p]) \in Nat
    BY <1>0 DEF KeepUsed, Max0, AdmStates
  <2> QED
    BY <1>0, <1>3, <1>7, <2>1, Zenon DEF BatchGetRemaining
<1>8. CASE GetCurrent(a)
  <2> DEFINE s == [adm[a] EXCEPT !.pc = "incr", !.cur = redis[adm[a].p], !.seen = spent[adm[a].p]]
  <2>1. s \in AdmStates
    BY <1>0, Zenon DEF AdmStates
  <2>2. adm' = [adm EXCEPT ![a] = s]
    BY <1>0, <1>8, Zenon DEF GetCurrent
  <2> QED
    BY <1>1, <2>1, <2>2, Zenon
<1>9. ASSUME NEW p \in Plans, Create(a, p)
      PROVE  adm' \in [Admins -> AdmStates]
  <2>1. PICK row \in NewRows :
          adm' = IF row.unlimited
                 THEN IF p \in Entities
                      THEN SetTarget(a, p, ToRedis(Sentinel, row.unit), TRUE)
                      ELSE adm
                 ELSE SetTarget(a, p, ToRedis(row.quota, row.unit), TRUE)
    BY <1>9, Zenon DEF Create
  <2>2. row.quota \in Nat
    BY ConstantsAssumption DEF Rows
  <2>3. ToRedis(row.quota, row.unit) \in Nat /\ ToRedis(Sentinel, row.unit) \in Nat
    BY <2>2, ToRedisNat, ConstantsAssumption
  <2> QED
    BY <1>0, <1>3, <2>1, <2>3, Zenon
<1>10. ASSUME NEW p \in Plans, Delete(a, p)
      PROVE  adm' \in [Admins -> AdmStates]
  <2> DEFINE s == [adm[a] EXCEPT !.pc = "del", !.p = p]
  <2>1. s \in AdmStates
    BY <1>0, Zenon DEF AdmStates
  <2>2. adm' = [adm EXCEPT ![a] = s]
    BY <1>0, <1>10, Zenon DEF Delete
  <2> QED
    BY <1>1, <2>1, <2>2, Zenon
<1>11. ASSUME NEW p \in Plans, ResetBalance(a, p)
      PROVE  adm' \in [Admins -> AdmStates]
  <2>1. PICK q \in ResetQuotas :
          adm' = SetTarget(a, p, ToRedis(Given(q, plan[p].quota), plan[p].unit), TRUE)
    BY <1>11, Zenon DEF ResetBalance
  <2>2. Given(q, plan[p].quota) \in Nat
    BY <1>0, GivenIn, ConstantsAssumption, Zenon DEF Rows
  <2> QED
    BY <1>3, <2>1, <2>2, ToRedisNat, Zenon
<1>12. ASSUME NEW p \in Plans, Update(a, p)
      PROVE  adm' \in [Admins -> AdmStates]
  <2>1. PICK body \in Changes :
          adm' = [adm EXCEPT ![a].pc = "update", ![a].p = p,
                             ![a].body = body, ![a].old = plan[p]]
    BY <1>12, Zenon DEF Update
  <2> DEFINE s == [adm[a] EXCEPT !.pc = "update", !.p = p, !.body = body, !.old = plan[p]]
  <2>2. s \in AdmStates
    BY <1>0, ConstantsAssumption, Zenon DEF AdmStates
  <2>3. adm' = [adm EXCEPT ![a] = s]
    BY <1>0, <2>1, Zenon
  <2> QED
    BY <1>1, <2>2, <2>3, Zenon
<1> QED
  BY <1>4, <1>5, <1>6, <1>7, <1>8, <1>9, <1>10, <1>11, <1>12 DEF AdminStep, AdminStart

\* The variables other than the records of runs and requests.
DataOK ==
  /\ live \subseteq Plans /\ present \subseteq Plans
  /\ plan \in [Plans -> Rows]
  /\ redis \in [Plans -> Int] /\ spent \in [Plans -> Nat]
  /\ lock \in {NoToken} \cup {Token[r] : r \in Runs}
  /\ clock \in Days
  /\ grants \in [Plans -> Seq(Int)]
  /\ lost \subseteq Runs
  /\ budget \in [spend : 0..MaxSpend, ops : 0..MaxOps, faults : 0..MaxFaults]

LEMMA TypeParts == TypeOK <=> DataOK /\ RunsOK /\ adm \in [Admins -> AdmStates]
  BY DEF TypeOK, DataOK, RunsOK, RunRecord

\* A bound that is used stays in its range.
LEMMA BudgetTyped ==
  ASSUME DataOK, \/ \E kind \in FaultKinds : Fault(kind)
                 \/ \E a \in Admins, p \in Plans : Begin(a, p)
                 \/ budget.spend > 0 /\ budget' = [budget EXCEPT !.spend = @ - 1]
  PROVE  budget' \in [spend : 0..MaxSpend, ops : 0..MaxOps, faults : 0..MaxFaults]
<1>0. /\ budget \in [spend : 0..MaxSpend, ops : 0..MaxOps, faults : 0..MaxFaults]
      /\ MaxSpend \in Nat /\ MaxOps \in Nat /\ MaxFaults \in Nat
  BY ConstantsAssumption DEF DataOK
<1>1. CASE budget.faults > 0 /\ budget' = [budget EXCEPT !.faults = @ - 1]
  BY <1>0, <1>1
<1>2. CASE budget.ops > 0 /\ budget' = [budget EXCEPT !.ops = @ - 1]
  BY <1>0, <1>2
<1>3. CASE budget.spend > 0 /\ budget' = [budget EXCEPT !.spend = @ - 1]
  BY <1>0, <1>3
<1> QED
  BY <1>1, <1>2, <1>3 DEF Fault, Begin

LEMMA RunData ==
  ASSUME TypeOK, NEW r \in Runs, RunStep(r) \/ RunFault(r)
  PROVE  DataOK'
<1>0. DataOK /\ RunRecord(sched[r]) /\ sched[r] \in RunStates
  BY TypeParts DEF RunsOK
<1>1. CASE Acquire(r)
  BY <1>0, <1>1 DEF Acquire, DataOK
<1>2. CASE ListPlans(r) \/ Claim(r)
  BY <1>0, <1>2 DEF ListPlans, Claim, DataOK, histories
<1>3. CASE ClaimFail(r) \/ ResetRedisFail(r) \/ CommitFail(r) \/ ReleaseFail(r) \/ Crash(r)
  <2>1. \E kind \in FaultKinds : Fault(kind)
    BY <1>3 DEF ClaimFail, ResetRedisFail, CommitFail, ReleaseFail, Crash, FaultKinds
  <2>2. UNCHANGED <<live, plan, redis, present, lock, clock, spent, grants, lost>>
    BY <1>3 DEF ClaimFail, ResetRedisFail, CommitFail, ReleaseFail, Crash, histories
  <2> QED
    BY <1>0, <2>1, <2>2, BudgetTyped DEF DataOK
<1>4. CASE LockLost(r)
  <2>1. \E kind \in FaultKinds : Fault(kind)
    BY <1>4 DEF LockLost, FaultKinds
  <2> QED
    BY <1>0, <1>4, <2>1, BudgetTyped DEF LockLost, DataOK
<1>5. CASE ResetRedis(r)
  <2> DEFINE w == FirstOf(sched[r].todo)
  <2>1. w \in [p : Plans, start : Int]
    BY <1>0, <1>5, FirstOfIn DEF ResetRedis, RunRecord, RunStates
  <2> HIDE DEF w
  <2>2. plan[w.p] \in Rows /\ ToRedis(plan[w.p].quota, plan[w.p].unit) \in Nat
    BY <1>0, <2>1, ToRedisNat DEF DataOK, Rows
  <2>3. Append(grants[w.p], w.start) \in Seq(Int)
    BY <1>0, <2>1 DEF DataOK
  <2>4. /\ redis' = [redis EXCEPT ![w.p] = ToRedis(plan[w.p].quota, plan[w.p].unit)]
        /\ present' = present \cup {w.p}
        /\ spent' = [spent EXCEPT ![w.p] = 0]
        /\ grants' = [grants EXCEPT ![w.p] = Append(grants[w.p], w.start)]
        /\ UNCHANGED <<live, plan, lock, adm, clock, lost, budget>>
    BY <1>5 DEF ResetRedis, w
  <2> QED
    BY <1>0, <2>1, <2>2, <2>3, <2>4, SMTT(20) DEF DataOK
<1>6. CASE Commit(r)
  <2>1. sched[r].now \in Nat
    BY <1>0 DEF RunStates
  <2>2. \A p \in Plans : plan[p] \in Rows /\ [plan[p] EXCEPT !.last = sched[r].now] \in Rows
    <3>1. plan \in [Plans -> Rows] /\ sched[r].now \in Nat \cup {Null}
      BY <1>0, <2>1, Zenon DEF DataOK
    <3>2. \A o \in Rows, n \in Nat \cup {Null} : [o EXCEPT !.last = n] \in Rows
      BY Zenon DEF Rows
    <3> QED
      BY <3>1, <3>2, Zenon
  <2>3. plan' \in [Plans -> Rows]
    BY <1>6, <2>2 DEF Commit
  <2> QED
    BY <1>0, <1>6, <2>3 DEF Commit, DataOK, histories
<1>7. CASE Release(r)
  BY <1>0, <1>7 DEF Release, DataOK, histories
<1> QED
  BY <1>1, <1>2, <1>3, <1>4, <1>5, <1>6, <1>7 DEF RunStep, RunFault

LEMMA AdminData ==
  ASSUME TypeOK, NEW a \in Admins,
         AdminStep(a) \/ AdminRedisFail(a) \/ \E p \in Plans : AdminStart(a, p)
  PROVE  DataOK'
<1>0. DataOK /\ adm[a] \in AdmStates /\ adm[a].p \in Plans /\ adm[a].body \in Bodies
  BY TypeParts DEF AdmStates
<1>1. CASE DeleteKey(a)
  <2>1. redis' \in [Plans -> Int] /\ spent' \in [Plans -> Nat]
    <3>1. redis \in [Plans -> Int] /\ spent \in [Plans -> Nat]
      BY <1>0, Zenon DEF DataOK
    <3>2. /\ redis' = [redis EXCEPT ![adm[a].p] = 0]
          /\ spent' = [spent EXCEPT ![adm[a].p] = 0]
      BY <1>1, Zenon DEF DeleteKey
    <3>3. 0 \in Int /\ 0 \in Nat
      OBVIOUS
    <3> QED
      BY <3>1, <3>2, <3>3, Zenon
  <2>2. present' \subseteq Plans
    BY <1>0, <1>1, Zenon DEF DataOK, DeleteKey
  <2> QED
    BY <1>0, <1>1, <2>1, <2>2, Zenon DEF DataOK, DeleteKey
<1>2. CASE Save(a)
  <2> DEFINE p == adm[a].p
             body == adm[a].body
             row == [quota     |-> Given(body.quota, plan[p].quota),
                     unlimited |-> Given(body.unlimited, plan[p].unlimited),
                     unit      |-> Given(body.unit, plan[p].unit),
                     period    |-> Given(body.period, plan[p].period),
                     last      |-> plan[p].last]
  <2>1. plan[p] \in Rows
    BY <1>0 DEF DataOK
  <2>2. /\ body.quota \in SUBSET Nat /\ body.unlimited \in SUBSET BOOLEAN
        /\ body.unit \in SUBSET {"total_token", "RMB"}
        /\ body.period \in SUBSET {"none", "weekly", "monthly"}
    BY <1>0 DEF Bodies, Optional
  <2>3. /\ plan[p].quota \in Nat /\ plan[p].unlimited \in BOOLEAN
        /\ plan[p].unit \in {"total_token", "RMB"}
        /\ plan[p].period \in {"none", "weekly", "monthly"}
        /\ plan[p].last \in Nat \cup {Null}
    BY <2>1 DEF Rows
  <2>7. Given(body.quota, plan[p].quota) \in Nat
    BY <2>2, <2>3, GivenIn, Zenon
  <2>8. Given(body.unlimited, plan[p].unlimited) \in BOOLEAN
    <3> HIDE DEF p, body
    <3>1. body.unlimited \in SUBSET BOOLEAN /\ plan[p].unlimited \in BOOLEAN
      BY <2>2, <2>3, Zenon
    <3> QED
      BY <3>1, GivenIn, Zenon
  <2>9. Given(body.unit, plan[p].unit) \in {"total_token", "RMB"}
    BY <2>2, <2>3, GivenIn, Zenon
  <2>10. Given(body.period, plan[p].period) \in {"none", "weekly", "monthly"}
    BY <2>2, <2>3, GivenIn, Zenon
  <2>4. row \in Rows
    BY <2>3, <2>7, <2>8, <2>9, <2>10 DEF Rows
  <2>5. plan' = plan \/ plan' = [plan EXCEPT ![p] = row]
    BY <1>2 DEF Save
  <2>6. plan' \in [Plans -> Rows]
    BY <1>0, <2>4, <2>5, Zenon DEF DataOK
  <2> QED
    BY <1>0, <1>2, <2>6 DEF Save, DataOK, histories
<1>3. CASE ApplyQuotaPlanChange(a) \/ BatchGetRemaining(a) \/ GetCurrent(a)
  BY <1>0, <1>3, Zenon DEF ApplyQuotaPlanChange, BatchGetRemaining, GetCurrent, DataOK, histories
<1>4. CASE IncrBy(a)
  <2>3. adm[a].target \in Nat /\ adm[a].cur \in Int /\ adm[a].seen \in Nat
    BY <1>0 DEF AdmStates
  <2>4. redis[adm[a].p] \in Int /\ spent[adm[a].p] \in Nat
    BY <1>0 DEF DataOK
  <2>0. /\ redis[adm[a].p] + (adm[a].target - adm[a].cur) \in Int
        /\ Max0(spent[adm[a].p] - adm[a].seen) \in Nat
    <3>1. \A m, n \in Nat : Max0(m - n) \in Nat
      BY DEF Max0
    <3>2. \A i, j, k \in Int : i + (j - k) \in Int
      OBVIOUS
    <3>3. adm[a].target \in Int
      BY <2>3
    <3> QED
      BY <2>3, <2>4, <3>1, <3>2, <3>3, Zenon
  <2>1. redis' \in [Plans -> Int]
    BY <1>0, <1>4, <2>0 DEF IncrBy, DataOK
  <2>2. spent' \in [Plans -> Nat]
    BY <1>0, <1>4, <2>0 DEF IncrBy, DataOK
  <2> QED
    BY <1>0, <1>4, <2>1, <2>2 DEF IncrBy, DataOK
<1>5. CASE AdminRedisFail(a)
  <2>1. \E kind \in FaultKinds : Fault(kind)
    BY <1>5 DEF AdminRedisFail, FaultKinds
  <2> QED
    BY <1>0, <1>5, <2>1, BudgetTyped DEF AdminRedisFail, DataOK, histories
<1>6. ASSUME NEW p \in Plans, AdminStart(a, p)
      PROVE  DataOK'
  <2>0. budget' \in [spend : 0..MaxSpend, ops : 0..MaxOps, faults : 0..MaxFaults]
    BY <1>0, <1>6, BudgetTyped, Zenon DEF AdminStart, Create, Delete, ResetBalance, Update
  <2>1. CASE Create(a, p)
    <3>1. PICK row \in NewRows :
            plan' = [plan EXCEPT ![p] = [row EXCEPT
                       !.last = IF row.period = "none" THEN Null ELSE clock]]
      BY <2>1, Zenon DEF Create
    <3>2. clock \in Nat /\ row \in Rows
      BY <1>0, ConstantsAssumption DEF DataOK
    <3>3. [row EXCEPT !.last = IF row.period = "none" THEN Null ELSE clock] \in Rows
      BY <3>2 DEF Rows, Null
    <3>4. plan' \in [Plans -> Rows]
      BY <1>0, <3>1, <3>3 DEF DataOK
    <3>5. grants' \in [Plans -> Seq(Int)]
      BY <1>0, <2>1 DEF Create, DataOK
    <3> QED
      BY <1>0, <2>0, <2>1, <3>4, <3>5, Zenon DEF Create, DataOK
  <2>2. CASE Delete(a, p)
    BY <1>0, <2>0, <2>2, Zenon DEF Delete, DataOK, histories
  <2>3. CASE ResetBalance(a, p)
    <3>1. PICK q \in ResetQuotas : plan' = [plan EXCEPT ![p].quota = Given(q, plan[p].quota)]
      BY <2>3, Zenon DEF ResetBalance
    <3>2. plan[p] \in Rows /\ Given(q, plan[p].quota) \in Nat
      BY <1>0, GivenIn, ConstantsAssumption, Zenon DEF DataOK, Rows
    <3>3. [plan[p] EXCEPT !.quota = Given(q, plan[p].quota)] \in Rows
      BY <3>2 DEF Rows
    <3>4. plan' = [plan EXCEPT ![p] = [plan[p] EXCEPT !.quota = Given(q, plan[p].quota)]]
      BY <1>0, <3>1 DEF DataOK
    <3>5. plan' \in [Plans -> Rows]
      BY <1>0, <3>3, <3>4 DEF DataOK
    <3> QED
      BY <1>0, <2>0, <2>3, <3>5, Zenon DEF ResetBalance, DataOK, histories
  <2>4. CASE Update(a, p)
    BY <1>0, <2>0, <2>4, Zenon DEF Update, DataOK, histories
  <2> QED
    BY <1>6, <2>1, <2>2, <2>3, <2>4 DEF AdminStart
<1> QED
  BY <1>1, <1>2, <1>3, <1>4, <1>5, <1>6 DEF AdminStep

LEMMA TypeInit == Init => TypeOK
<1> SUFFICES ASSUME Init PROVE TypeOK
  OBVIOUS
<1>1. \A p \in Plans : plan[p] \in Rows
  BY ConstantsAssumption DEF Init
<1>2. plan \in [Plans -> Rows]
  BY ConstantsAssumption DEF Init
<1>3. \A p \in Plans :
        ToRedis(IF plan[p].unlimited THEN Sentinel ELSE plan[p].quota, plan[p].unit) \in Nat
  BY <1>1, ToRedisNat, ConstantsAssumption DEF Rows
<1>4. redis \in [Plans -> Int]
  BY <1>3 DEF Init
<1>5. clock \in Days
  <2>1. \E d \in Days : \A e \in Days : d <= e
    BY LeastNat, ConstantsAssumption
  <2> QED
    BY <2>1, Zenon DEF Init
<1>6. DataOK
  BY <1>2, <1>4, <1>5, ConstantsAssumption DEF Init, DataOK
<1>7. RunsOK
  BY DEF Init, RunsOK, RunRecord, IdleRun, RunStates
<1>8. adm \in [Admins -> AdmStates]
  BY IdleAdmTyped, Zenon DEF Init
<1> QED
  BY <1>6, <1>7, <1>8, TypeParts

LEMMA TypeNext == TypeOK /\ [Next]_vars => TypeOK'
<1> DEFINE Parts == DataOK /\ RunsOK /\ adm \in [Admins -> AdmStates]
<1> SUFFICES ASSUME TypeOK, [Next]_vars PROVE Parts'
  BY DEF TypeOK, DataOK, RunsOK, RunRecord
<1>0. DataOK /\ RunsOK /\ adm \in [Admins -> AdmStates]
  BY TypeParts
<1>1. ASSUME NEW r \in Runs, RunStep(r) \/ RunFault(r)
      PROVE  Parts'
  <2>1. adm' = adm
    BY <1>1, Zenon DEF RunStep, RunFault, Acquire, ListPlans, Claim, ResetRedis, Commit, Release,
                ClaimFail, ResetRedisFail, CommitFail, ReleaseFail, Crash, LockLost
  <2> QED
    BY <1>0, <1>1, <2>1, RunsTyped, RunData
<1>2. ASSUME NEW a \in Admins,
             AdminStep(a) \/ AdminRedisFail(a) \/ \E p \in Plans : AdminStart(a, p)
      PROVE  Parts'
  <2>1. sched' = sched
    BY <1>2, Zenon DEF AdminStep, DeleteKey, Save, ApplyQuotaPlanChange, BatchGetRemaining,
                GetCurrent, IncrBy, AdminRedisFail, AdminStart, Create, Delete, ResetBalance,
                Update
  <2>2. RunsOK'
    BY <1>0, <2>1 DEF RunsOK
  <2> QED
    BY <1>2, <2>2, AdminsTyped, AdminData
<1>3. CASE LockExpire
  BY <1>0, <1>3 DEF LockExpire, DataOK, RunsOK, histories
<1>4. ASSUME NEW p \in Plans, Spend(p)
      PROVE  Parts'
  <2>1. budget' \in [spend : 0..MaxSpend, ops : 0..MaxOps, faults : 0..MaxFaults]
    BY <1>0, <1>4, BudgetTyped DEF Spend
  <2>2. redis' \in [Plans -> Int] /\ spent' \in [Plans -> Nat]
    BY <1>0, <1>4 DEF Spend, DataOK
  <2> QED
    BY <1>0, <1>4, <2>1, <2>2 DEF Spend, DataOK, RunsOK
<1>5. CASE NextDay
  BY <1>0, <1>5 DEF NextDay, DataOK, RunsOK, histories
<1>6. CASE UNCHANGED vars
  BY <1>0, <1>6 DEF vars, DataOK, RunsOK
<1> QED
  BY <1>1, <1>2, <1>3, <1>4, <1>5, <1>6 DEF Next

\* Every value of the scheduler and of the quota endpoints stays in its range, and
\* a run holds row locks only inside its transaction (ResetExpiredBalances).
THEOREM TypeCorrect == Spec => []TypeOK
  BY TypeInit, TypeNext, PTL DEF Spec

-----------------------------------------------------------------------------
(* The claims. *)

\* A run resets periods that began before it read the time; the rows it has
\* claimed exist, were last reset before, and are claimed by no other run.
ClaimInv ==
  /\ \A r \in Runs : \A w \in sched[r].todo : w.start <= sched[r].now
  /\ \A r \in Runs : \A p \in sched[r].claims : p \in live /\ plan[p].last < sched[r].now
  /\ \A r, q \in Runs : r # q => sched[r].claims \cap sched[q].claims = {}

\* What a step may do to a row that somebody has claimed.
RowsKept ==
  \A p \in Plans : RowLocked(p) => (p \in live => p \in live') /\ plan'[p] = plan[p]

\* The ranges of the variables the claims are about.
LEMMA ClaimRanges ==
  ASSUME TypeOK
  PROVE  /\ sched \in [Runs -> RunStates] /\ plan \in [Plans -> Rows] /\ live \subseteq Plans
         /\ \A r \in Runs : sched[r].claims \subseteq Plans /\ sched[r].now \in Nat
         /\ \A p \in Plans : plan[p].last \in Int
<1>1. sched \in [Runs -> RunStates] /\ plan \in [Plans -> Rows] /\ live \subseteq Plans
  BY Zenon DEF TypeOK
<1>2. \A r \in Runs : sched[r].claims \subseteq Plans /\ sched[r].now \in Nat
  <2>1. \A x \in RunStates : x.claims \subseteq Plans /\ x.now \in Nat
    BY DEF RunStates
  <2> QED
    BY <1>1, <2>1, Zenon
<1>3. \A p \in Plans : plan[p].last \in Int
  <2>1. \A x \in Rows : x.last \in Int
    BY DEF Rows, Null
  <2> QED
    BY <1>1, <2>1, Zenon
<1> QED
  BY <1>1, <1>2, <1>3, Zenon

\* Requests wait for the row lock of a claim.
LEMMA AdminsWait ==
  ASSUME TypeOK, ClaimInv, NEW a \in Admins,
         AdminStep(a) \/ AdminRedisFail(a) \/ \E p \in Plans : AdminStart(a, p)
  PROVE  RowsKept
<1>0. /\ plan \in [Plans -> Rows] /\ adm[a].p \in Plans /\ live \subseteq Plans
      /\ \A p \in Plans : RowLocked(p) => p \in live
  BY DEF TypeOK, AdmStates, ClaimInv, RowLocked
<1>1. CASE UNCHANGED <<live, plan>>
  BY <1>1 DEF RowsKept
<1>2. CASE DeleteKey(a) \/ ApplyQuotaPlanChange(a) \/ BatchGetRemaining(a) \/ GetCurrent(a)
           \/ IncrBy(a) \/ AdminRedisFail(a)
  BY <1>1, <1>2, Zenon DEF DeleteKey, ApplyQuotaPlanChange, BatchGetRemaining, GetCurrent, IncrBy,
                    AdminRedisFail
<1>3. CASE Save(a)
  <2>1. ~RowLocked(adm[a].p) /\ live' = live
    BY <1>3 DEF Save
  <2>2. \A p \in Plans : p # adm[a].p => plan'[p] = plan[p]
    BY <1>0, <1>3 DEF Save
  <2> QED
    BY <2>1, <2>2 DEF RowsKept
<1>4. ASSUME NEW p \in Plans, Create(a, p)
      PROVE  RowsKept
  <2>1. p \notin live /\ live' = live \cup {p}
    BY <1>4 DEF Create
  <2>2. \A o \in Plans : o # p => plan'[o] = plan[o]
    BY <1>0, <1>4 DEF Create
  <2> QED
    BY <1>0, <2>1, <2>2 DEF RowsKept
<1>5. ASSUME NEW p \in Plans, Delete(a, p)
      PROVE  RowsKept
  BY <1>5 DEF Delete, RowsKept
<1>6. ASSUME NEW p \in Plans, ResetBalance(a, p)
      PROVE  RowsKept
  <2>1. PICK q \in ResetQuotas :
          /\ q # {} => ~RowLocked(p)
          /\ plan' = [plan EXCEPT ![p].quota = Given(q, plan[p].quota)]
    BY <1>6, Zenon DEF ResetBalance
  <2>2. live' = live
    BY <1>6 DEF ResetBalance
  <2>3. CASE q = {}
    <3>1. Given(q, plan[p].quota) = plan[p].quota
      BY <2>3 DEF Given
    <3>2. plan' = plan
      BY <1>0, <2>1, <3>1 DEF Rows
    <3> QED
      BY <1>1, <2>2, <3>2
  <2>4. CASE q # {}
    <3>1. \A o \in Plans : o # p => plan'[o] = plan[o]
      BY <1>0, <2>1
    <3> QED
      BY <2>1, <2>2, <2>4, <3>1 DEF RowsKept
  <2> QED
    BY <2>3, <2>4
<1>7. ASSUME NEW p \in Plans, Update(a, p)
      PROVE  RowsKept
  BY <1>1, <1>7 DEF Update
<1> QED
  BY <1>2, <1>3, <1>4, <1>5, <1>6, <1>7 DEF AdminStep, AdminStart

\* What the steps of a run do to its own record, and that they leave those of
\* the others alone.
LEMMA RunEffect ==
  ASSUME TypeOK, NEW r \in Runs, RunStep(r) \/ RunFault(r)
  PROVE  /\ \A q \in Runs : q # r => sched'[q] = sched[q]
         /\ live' = live
         /\ \/ /\ (sched'[r].claims = sched[r].claims \/ sched'[r].claims = {})
               /\ sched'[r].todo \subseteq sched[r].todo
               /\ sched'[r].now = sched[r].now \/ (sched'[r].claims = {} /\ sched'[r].todo = {})
            \/ ListPlans(r)
            \/ /\ Claim(r) /\ sched'[r].now = sched[r].now
               /\ sched'[r].todo = sched[r].todo
               /\ sched'[r].pc = "claimed"
               /\ LET w == FirstOf(sched[r].todo)
                  IN  /\ w \in sched[r].todo /\ ~RowLocked(w.p) /\ Claimable(w.p, w.start)
                      /\ sched'[r].claims = sched[r].claims \cup {w.p}
         /\ Commit(r) \/ plan' = plan
<1>0. sched \in [Runs -> RunStates] /\ sched[r] \in RunStates
  BY Zenon DEF TypeOK
<1>1. CASE Acquire(r)
  BY <1>0, <1>1 DEF Acquire, IdleRun
<1>2. CASE ListPlans(r)
  BY <1>0, <1>2 DEF ListPlans
<1>3. CASE Claim(r)
  <2> DEFINE w == FirstOf(sched[r].todo)
  <2>1. sched[r].todo # {} /\ ~RowLocked(w.p) /\ live' = live /\ plan' = plan
    BY <1>3 DEF Claim
  <2>2. w \in sched[r].todo
    BY <1>0, <2>1, FirstOfIn DEF RunStates
  <2>3. CASE Claimable(w.p, w.start)
    <3>1. sched' = [sched EXCEPT ![r].pc = "claimed", ![r].claims = @ \cup {w.p}]
      BY <1>3, <2>3 DEF Claim
    <3>2. /\ sched'[r].claims = sched[r].claims \cup {w.p} /\ sched'[r].now = sched[r].now
          /\ sched'[r].todo = sched[r].todo
          /\ sched'[r].pc = "claimed"
      BY <1>0, <3>1 DEF RunStates
    <3>3. \A q \in Runs : q # r => sched'[q] = sched[q]
      BY <1>0, <3>1
    <3> QED
      BY <1>3, <2>1, <2>2, <2>3, <3>2, <3>3
  <2>4. CASE ~Claimable(w.p, w.start)
    <3>1. sched' = [sched EXCEPT ![r].todo = @ \ {w}]
      BY <1>3, <2>4 DEF Claim
    <3>2. /\ sched'[r].claims = sched[r].claims /\ sched'[r].now = sched[r].now
          /\ sched'[r].todo = sched[r].todo \ {w}
      BY <1>0, <3>1 DEF RunStates
    <3>3. \A q \in Runs : q # r => sched'[q] = sched[q]
      BY <1>0, <3>1
    <3> QED
      BY <2>1, <3>2, <3>3, Zenon
  <2> QED
    BY <2>3, <2>4, Zenon
<1>4. CASE ClaimFail(r) \/ ResetRedis(r) \/ ResetRedisFail(r)
  <2> DEFINE left == sched[r].todo \ {FirstOf(sched[r].todo)}
  <2>1. \/ sched' = [sched EXCEPT ![r].todo = left]
        \/ sched' = [sched EXCEPT ![r].pc = "plans", ![r].todo = left]
    BY <1>4, Zenon DEF ClaimFail, ResetRedis, ResetRedisFail
  <2>2. live' = live /\ plan' = plan
    BY <1>4, Zenon DEF ClaimFail, ResetRedis, ResetRedisFail
  <2>3. left \subseteq sched[r].todo
    OBVIOUS
  <2> HIDE DEF left
  <2>4. /\ sched'[r].claims = sched[r].claims /\ sched'[r].now = sched[r].now
        /\ sched'[r].todo = left
    BY <1>0, <2>1 DEF RunStates
  <2>5. \A q \in Runs : q # r => sched'[q] = sched[q]
    BY <1>0, <2>1
  <2> QED
    BY <2>2, <2>3, <2>4, <2>5
<1>5. CASE Commit(r) \/ CommitFail(r)
  BY <1>0, <1>5 DEF Commit, CommitFail, RunStates
<1>6. CASE Release(r) \/ ReleaseFail(r) \/ Crash(r)
  <2>1. sched' = [sched EXCEPT ![r] = IdleRun] /\ live' = live /\ plan' = plan
    BY <1>6, Zenon DEF Release, ReleaseFail, Crash
  <2>2. IdleRun.claims = {} /\ IdleRun.todo = {}
    BY DEF IdleRun
  <2>3. sched'[r] = IdleRun /\ \A q \in Runs : q # r => sched'[q] = sched[q]
    BY <1>0, <2>1, Zenon
  <2> QED
    BY <2>1, <2>2, <2>3
<1>7. CASE LockLost(r)
  <2>1. sched' = sched /\ live' = live /\ plan' = plan
    BY <1>7 DEF LockLost
  <2> QED
    BY <2>1, Zenon
<1> QED
  BY <1>1, <1>2, <1>3, <1>4, <1>5, <1>6, <1>7, Zenon DEF RunStep, RunFault

LEMMA ClaimNext ==
  ASSUME TypeOK, ClaimInv, [Next]_vars
  PROVE  ClaimInv'
<1>0. /\ sched \in [Runs -> RunStates] /\ plan \in [Plans -> Rows] /\ live \subseteq Plans
      /\ \A r \in Runs : sched[r].claims \subseteq Plans /\ sched[r].now \in Nat
      /\ \A p \in Plans : plan[p].last \in Int
      /\ clock \in Nat
  <2>1. clock \in Nat
    BY ConstantsAssumption DEF TypeOK
  <2> QED
    BY <2>1, ClaimRanges, Zenon
<1>1. ASSUME NEW r \in Runs, RunStep(r) \/ RunFault(r)
      PROVE  ClaimInv'
  <2>0. /\ \A q \in Runs : q # r => sched'[q] = sched[q]
        /\ live' = live
        /\ Commit(r) \/ plan' = plan
    BY <1>1, RunEffect
  <2>1. CASE Commit(r)
    <3>1. sched'[r].claims = {} /\ sched'[r].todo = {}
      BY <1>0, <2>1 DEF Commit, RunStates
    <3>2. \A q \in Runs : q # r => \A p \in sched[q].claims : plan'[p] = plan[p]
      BY <1>0, <2>1 DEF Commit, ClaimInv
    <3> QED
      BY <2>0, <3>1, <3>2 DEF ClaimInv
  <2>2. CASE ListPlans(r)
    <3>1. sched[r].claims = {}
      BY <2>2, Zenon DEF ListPlans, TypeOK
    <3>2. sched'[r].claims = {} /\ sched'[r].now = clock
      BY <1>0, <2>2, <3>1 DEF ListPlans, RunStates
    <3>3. sched'[r].todo = {[p |-> p, start |-> GetPeriodStart(plan[p].period, clock)]
                              : p \in {p \in live : ShouldResetByPeriod(plan[p], clock)}}
      BY <1>0, <2>2 DEF ListPlans, RunStates
    <3>4. \A w \in sched'[r].todo : w.start <= clock
      <4>1. ASSUME NEW p \in live
            PROVE  [p |-> p, start |-> GetPeriodStart(plan[p].period, clock)].start <= clock
        <5>1. GetPeriodStart(plan[p].period, clock) <= clock
          BY <1>0, PeriodStartBefore
        <5> QED
          BY <5>1
      <4> QED
        BY <3>3, <4>1, Zenon
    <3>5. plan' = plan
      BY <2>2 DEF ListPlans
    <3> QED
      BY <2>0, <3>2, <3>4, <3>5 DEF ClaimInv
  <2>3. CASE /\ ~Commit(r)
             /\ (sched'[r].claims = sched[r].claims \/ sched'[r].claims = {})
             /\ sched'[r].todo \subseteq sched[r].todo
             /\ sched'[r].now = sched[r].now \/ (sched'[r].claims = {} /\ sched'[r].todo = {})
    BY <2>0, <2>3 DEF ClaimInv
  <2>4. CASE /\ Claim(r) /\ ~Commit(r) /\ sched'[r].now = sched[r].now
             /\ sched'[r].todo = sched[r].todo
             /\ LET w == FirstOf(sched[r].todo)
                IN  /\ w \in sched[r].todo /\ ~RowLocked(w.p) /\ Claimable(w.p, w.start)
                    /\ sched'[r].claims = sched[r].claims \cup {w.p}
    <3> DEFINE w == FirstOf(sched[r].todo)
    <3>1. w \in [p : Plans, start : Int]
      BY <1>0, <2>4 DEF RunStates
    <3>2. w.start <= sched[r].now /\ ~RowLocked(w.p) /\ w.p \in live
      BY <2>4 DEF ClaimInv, Claimable
    <3>3. plan[w.p].last < sched[r].now
      <4>1. plan[w.p].last = Null \/ plan[w.p].last < w.start
        BY <2>4, Zenon DEF Claimable
      <4>2. w.p \in Plans /\ w.start \in Int
        BY <3>1, Zenon
      <4>3. \A x, s \in Int : \A n \in Nat : (x = Null \/ x < s) /\ s <= n => x < n
        BY DEF Null
      <4> QED
        BY <1>0, <3>2, <4>1, <4>2, <4>3, Zenon
    <3>4. sched'[r].claims = sched[r].claims \cup {w.p}
      BY <2>4
    <3> HIDE DEF w
    <3>5. plan' = plan
      BY <2>0, <2>4
    <3>6. \A q \in Runs : w.p \notin sched[q].claims
      BY <3>2 DEF RowLocked
    <3>7. \A q \in Runs : \A v \in sched'[q].todo : v.start <= sched'[q].now
      BY <2>0, <2>4, Zenon DEF ClaimInv
    <3>8. \A q \in Runs : \A p \in sched'[q].claims : p \in live' /\ plan'[p].last < sched'[q].now
      BY <2>0, <2>4, <3>2, <3>3, <3>4, <3>5, Zenon DEF ClaimInv
    <3>9. \A q, s \in Runs : q # s => sched'[q].claims \cap sched'[s].claims = {}
      <4>1. \A q, s \in Runs : q # s => sched[q].claims \cap sched[s].claims = {}
        BY Zenon DEF ClaimInv
      <4>2. ASSUME NEW q \in Runs, q # r
            PROVE  sched'[r].claims \cap sched'[q].claims = {}
        BY <2>0, <3>4, <3>6, <4>1, <4>2, Zenon
      <4>3. ASSUME NEW q \in Runs, NEW s \in Runs, q # s, q # r, s # r
            PROVE  sched'[q].claims \cap sched'[s].claims = {}
        BY <2>0, <4>1, <4>3, Zenon
      <4>4. \A q \in Runs : q # r => sched'[q].claims \cap sched'[r].claims = {}
        BY <4>2, Zenon
      <4> QED
        BY <4>2, <4>3, <4>4, Zenon
    <3> QED
      BY <3>7, <3>8, <3>9, Zenon DEF ClaimInv
  <2> QED
    BY <1>1, <2>1, <2>2, <2>3, <2>4, RunEffect
<1>2. ASSUME RowsKept, sched' = sched
      PROVE  ClaimInv'
  BY <1>0, <1>2 DEF ClaimInv, RowsKept, RowLocked
<1>3. ASSUME NEW a \in Admins,
             AdminStep(a) \/ AdminRedisFail(a) \/ \E p \in Plans : AdminStart(a, p)
      PROVE  ClaimInv'
  <2>1. sched' = sched
    BY <1>3, Zenon DEF AdminStep, DeleteKey, Save, ApplyQuotaPlanChange, BatchGetRemaining,
                GetCurrent, IncrBy, AdminRedisFail, AdminStart, Create, Delete, ResetBalance,
                Update
  <2> QED
    BY <1>2, <1>3, <2>1, AdminsWait
<1>4. CASE UNCHANGED <<sched, live, plan>>
  BY <1>4 DEF ClaimInv
<1>5. LockExpire \/ NextDay \/ UNCHANGED vars \/ (\E p \in Plans : Spend(p))
        => UNCHANGED <<sched, live, plan>>
  BY DEF LockExpire, NextDay, Spend, vars
<1> QED
  BY <1>1, <1>3, <1>4, <1>5 DEF Next

\* One step: what ClaimFreezesRow says.
LEMMA ClaimsFreezeStep ==
  ASSUME TypeOK, ClaimInv, [Next]_vars
  PROVE  /\ \A r \in Runs : \A p \in sched[r].claims \cap sched'[r].claims :
              /\ p \in live'
              /\ plan'[p].quota = plan[p].quota /\ plan'[p].unit = plan[p].unit
         /\ \A p \in live \cap live' : plan'[p].last >= plan[p].last
<1> DEFINE Frozen == /\ \A r \in Runs : \A p \in sched[r].claims \cap sched'[r].claims :
                          /\ p \in live'
                          /\ plan'[p].quota = plan[p].quota /\ plan'[p].unit = plan[p].unit
                     /\ \A p \in live \cap live' : plan'[p].last >= plan[p].last
<1> SUFFICES Frozen
  OBVIOUS
<1>0. /\ sched \in [Runs -> RunStates] /\ plan \in [Plans -> Rows] /\ live \subseteq Plans
      /\ \A r \in Runs : sched[r].claims \subseteq Plans /\ sched[r].now \in Nat
      /\ \A p \in Plans : plan[p].last \in Int
      /\ \A r \in Runs : \A p \in sched[r].claims : p \in live /\ plan[p].last < sched[r].now
  BY ClaimRanges, Zenon DEF ClaimInv
<1>1. CASE UNCHANGED <<live, plan>>
  BY <1>0, <1>1
<1>2. ASSUME NEW r \in Runs, Commit(r)
      PROVE  Frozen
  <2>1. plan' = [p \in Plans |-> IF p \in sched[r].claims
                                 THEN [plan[p] EXCEPT !.last = sched[r].now]
                                 ELSE plan[p]]
    BY <1>2 DEF Commit
  <2>2. \A p \in Plans : plan'[p].last >= plan[p].last
    BY <1>0, <2>1 DEF Rows
  <2>3. \A p \in Plans : plan'[p].quota = plan[p].quota /\ plan'[p].unit = plan[p].unit
    BY <1>0, <2>1 DEF Rows
  <2>4. live' = live
    BY <1>2 DEF Commit
  <2> QED
    BY <1>0, <2>2, <2>3, <2>4
<1>3. ASSUME NEW r \in Runs, RunStep(r) \/ RunFault(r)
      PROVE  Frozen
  <2>1. Commit(r) \/ UNCHANGED <<live, plan>>
    BY <1>3, RunEffect
  <2> QED
    BY <1>1, <1>2, <2>1
<1>4. ASSUME NEW a \in Admins,
             AdminStep(a) \/ AdminRedisFail(a) \/ \E p \in Plans : AdminStart(a, p)
      PROVE  Frozen
  <2>1. \A r \in Runs : \A p \in sched[r].claims : p \in live' /\ plan'[p] = plan[p]
    BY <1>0, <1>4, AdminsWait DEF RowsKept, RowLocked
  <2>2. \A p \in live \cap live' : plan'[p].last = plan[p].last
    <3>1. CASE DeleteKey(a) \/ ApplyQuotaPlanChange(a) \/ BatchGetRemaining(a) \/ GetCurrent(a)
               \/ IncrBy(a) \/ AdminRedisFail(a)
      BY <3>1, Zenon DEF DeleteKey, ApplyQuotaPlanChange, BatchGetRemaining, GetCurrent, IncrBy,
                  AdminRedisFail
    <3>2. CASE Save(a)
      BY <1>0, <3>2 DEF Save
    <3>3. ASSUME NEW p \in Plans, Create(a, p)
          PROVE  \A o \in live \cap live' : plan'[o].last = plan[o].last
      BY <1>0, <3>3 DEF Create
    <3>4. ASSUME NEW p \in Plans, Delete(a, p) \/ Update(a, p)
          PROVE  plan' = plan
      BY <3>4, Zenon DEF Delete, Update
    <3>5. ASSUME NEW p \in Plans, ResetBalance(a, p)
          PROVE  \A o \in live \cap live' : plan'[o].last = plan[o].last
      <4>1. PICK q \in ResetQuotas : plan' = [plan EXCEPT ![p].quota = Given(q, plan[p].quota)]
        BY <3>5, Zenon DEF ResetBalance
      <4> QED
        BY <1>0, <4>1 DEF Rows
    <3> QED
      BY <1>4, <3>1, <3>2, <3>3, <3>4, <3>5, Zenon DEF AdminStep, AdminStart
  <2>3. \A x \in Int : x >= x
    OBVIOUS
  <2>4. \A p \in live \cap live' : plan'[p].last >= plan[p].last
    BY <1>0, <2>2, <2>3, Zenon
  <2> QED
    BY <2>1, <2>4, Zenon
<1>5. LockExpire \/ NextDay \/ UNCHANGED vars \/ (\E p \in Plans : Spend(p))
        => UNCHANGED <<live, plan>>
  BY Zenon DEF LockExpire, NextDay, Spend, vars
<1> QED
  BY <1>1, <1>3, <1>4, <1>5, Zenon DEF Next

LEMMA ClaimInit == Init => ClaimInv
<1> SUFFICES ASSUME Init PROVE ClaimInv
  OBVIOUS
<1>1. IdleRun.todo = {} /\ IdleRun.claims = {}
  BY DEF IdleRun
<1>2. \A r \in Runs : sched[r] = IdleRun
  BY Zenon DEF Init
<1> QED
  BY <1>1, <1>2, Zenon DEF ClaimInv

\* While a plan is claimed no request changes or deletes its row, and
\* last_reset_at never goes back, for any number of instances, plans and
\* requests, also after lost locks and crashes (ClaimQuotaPlanReset and the
\* row lock of its transaction).
THEOREM ClaimedRowsStandStill == Spec => ClaimFreezesRow
<1>1. TypeOK /\ ClaimInv /\ [Next]_vars => TypeOK' /\ ClaimInv'
  BY TypeNext, ClaimNext
<1>2. TypeOK /\ ClaimInv /\ [Next]_vars =>
        [/\ \A r \in Runs : \A p \in sched[r].claims \cap sched'[r].claims :
              /\ p \in live'
              /\ plan'[p].quota = plan[p].quota /\ plan'[p].unit = plan[p].unit
         /\ \A p \in live \cap live' : plan'[p].last >= plan[p].last]_vars
  BY ClaimsFreezeStep
<1> QED
  BY <1>1, <1>2, TypeInit, ClaimInit, PTL DEF Spec, ClaimFreezesRow

-----------------------------------------------------------------------------
(* One reset per period. *)

\* No transaction of the scheduler is rolled back after it wrote to Redis.
NoRollback == Faults \cap {"crash", "commit_fail"} = {}

\* The periods whose reset reached Redis are over for the claim to come: no
\* later than last_reset_at, or than the time the claim will store there, and
\* before the period that a run is about to reset.
GrantInv ==
  /\ OncePerPeriod
  /\ \A p \in Plans : ~RowLocked(p) =>
       \A i \in DOMAIN grants[p] : plan[p].last # Null /\ grants[p][i] <= plan[p].last
  /\ \A r \in Runs : \A p \in sched[r].claims :
       \A i \in DOMAIN grants[p] : grants[p][i] <= sched[r].now
  /\ \A r \in Runs : sched[r].pc = "claimed" =>
       \A i \in DOMAIN grants[FirstOf(sched[r].todo).p] :
         grants[FirstOf(sched[r].todo).p][i] < FirstOf(sched[r].todo).start

\* A history grows by a later period.
LEMMA LaterGrant ==
  ASSUME NEW s \in Seq(Int), NEW x \in Int, IsInjective(s), \A i \in DOMAIN s : s[i] < x
  PROVE  /\ IsInjective(Append(s, x))
         /\ \A i \in DOMAIN Append(s, x) : Append(s, x)[i] <= x
<1>1. Len(s) \in Nat /\ DOMAIN s = 1..Len(s) /\ DOMAIN Append(s, x) = 1..(Len(s) + 1)
  OBVIOUS
<1>2. \A i \in 1..Len(s) : Append(s, x)[i] = s[i] /\ s[i] \in Int
  OBVIOUS
<1>3. Append(s, x)[Len(s) + 1] = x
  OBVIOUS
<1>4. \A i \in 1..(Len(s) + 1) : i \in 1..Len(s) \/ i = Len(s) + 1
  BY <1>1
<1>5. \A i \in 1..(Len(s) + 1) : Append(s, x)[i] <= x
  BY <1>1, <1>2, <1>3, <1>4
<1>6. ASSUME NEW i \in 1..(Len(s) + 1), NEW j \in 1..(Len(s) + 1),
             Append(s, x)[i] = Append(s, x)[j]
      PROVE  i = j
  BY <1>1, <1>2, <1>3, <1>4, <1>6 DEF IsInjective
<1> QED
  BY <1>1, <1>5, <1>6 DEF IsInjective

\* Steps that touch neither claims nor histories.
LEMMA GrantsKept ==
  ASSUME TypeOK, GrantInv,
         \A p \in Plans : \/ grants'[p] = <<>>
                          \/ grants'[p] = grants[p] /\ plan'[p].last = plan[p].last,
         \A r \in Runs : /\ sched'[r].claims = sched[r].claims
                         /\ sched'[r].now = sched[r].now \/ sched[r].claims = {}
                         /\ \/ sched'[r].pc # "claimed"
                            \/ sched[r].pc = "claimed" /\ sched'[r].todo = sched[r].todo
  PROVE  GrantInv'
<1>0. /\ \A r \in Runs : sched[r].claims \subseteq Plans
      /\ \A r \in Runs : sched[r].pc = "claimed" =>
           FirstOf(sched[r].todo).p \in sched[r].claims
  BY DEF TypeOK, RunStates
<1>1. DOMAIN (<<>>) = {} /\ IsInjective(<<>>)
  BY DEF IsInjective
<1>2. OncePerPeriod'
  BY <1>1 DEF GrantInv, OncePerPeriod
<1>3. \A p \in Plans : RowLocked(p)' <=> RowLocked(p)
  BY DEF RowLocked
<1>4. \A p \in Plans : ~RowLocked(p)' =>
        \A i \in DOMAIN grants'[p] : plan'[p].last # Null /\ grants'[p][i] <= plan'[p].last
  BY <1>1, <1>3 DEF GrantInv
<1>5. \A r \in Runs : \A p \in sched'[r].claims :
        \A i \in DOMAIN grants'[p] : grants'[p][i] <= sched'[r].now
  BY <1>0, <1>1 DEF GrantInv
<1>6. ASSUME NEW r \in Runs, sched'[r].pc = "claimed"
      PROVE  \A i \in DOMAIN grants'[FirstOf(sched'[r].todo).p] :
               grants'[FirstOf(sched'[r].todo).p][i] < FirstOf(sched'[r].todo).start
  <2>1. sched[r].pc = "claimed" /\ FirstOf(sched'[r].todo) = FirstOf(sched[r].todo)
    BY <1>6
  <2> DEFINE w == FirstOf(sched[r].todo)
  <2>2. w.p \in Plans
    BY <1>0, <2>1
  <2>3. \A i \in DOMAIN grants[w.p] : grants[w.p][i] < w.start
    BY <2>1 DEF GrantInv
  <2> HIDE DEF w
  <2>4. \A i \in DOMAIN grants'[w.p] : grants'[w.p][i] < w.start
    BY <1>1, <2>2, <2>3
  <2> QED
    BY <2>1, <2>4 DEF w
<1> QED
  BY <1>2, <1>4, <1>5, <1>6 DEF GrantInv

LEMMA RunGrants ==
  ASSUME NoRollback, TypeOK, ClaimInv, GrantInv, NEW r \in Runs, RunStep(r) \/ RunFault(r)
  PROVE  GrantInv'
<1>0. /\ sched \in [Runs -> RunStates] /\ sched[r] \in RunStates
      /\ plan \in [Plans -> Rows] /\ grants \in [Plans -> Seq(Int)]
      /\ \A q \in Runs : sched[q].claims \subseteq Plans /\ sched[q].now \in Nat
      /\ \A q \in Runs : sched[q].pc \notin {"plans", "claimed"} => sched[q].claims = {}
      /\ \A q \in Runs : sched[q].pc = "claimed" =>
           sched[q].todo # {} /\ FirstOf(sched[q].todo).p \in sched[q].claims
  BY DEF TypeOK, RunStates
<1>1. \A q \in Runs : q # r => sched'[q] = sched[q]
  BY RunEffect
<1>2. ASSUME UNCHANGED <<plan, grants>>, sched'[r].claims = sched[r].claims,
             sched'[r].now = sched[r].now \/ sched[r].claims = {},
             sched'[r].pc # "claimed"
      PROVE  GrantInv'
  BY <1>1, <1>2, GrantsKept
<1>3. CASE Acquire(r) \/ Release(r) \/ ReleaseFail(r)
  <2>1. sched'[r].claims = {} /\ sched'[r].pc # "claimed" /\ sched[r].claims = {}
    BY <1>0, <1>3 DEF Acquire, Release, ReleaseFail, IdleRun
  <2>2. UNCHANGED <<plan, grants>>
    BY <1>3 DEF Acquire, Release, ReleaseFail, histories
  <2> QED
    BY <1>2, <2>1, <2>2
<1>4. CASE ListPlans(r)
  <2>1. sched[r].claims = {} /\ sched'[r].claims = {} /\ sched'[r].pc # "claimed"
    BY <1>0, <1>4, Zenon DEF ListPlans, RunStates
  <2>2. UNCHANGED <<plan, grants>>
    BY <1>4 DEF ListPlans, histories
  <2> QED
    BY <1>2, <2>1, <2>2
<1>5. CASE Claim(r)
  <2> DEFINE w == FirstOf(sched[r].todo)
  <2>1. sched[r].todo # {} /\ ~RowLocked(w.p) /\ sched[r].pc = "plans"
        /\ UNCHANGED <<plan, grants>>
    BY <1>5 DEF Claim, histories
  <2>2. w \in sched[r].todo /\ w.p \in Plans /\ w.start \in Int /\ w.start <= sched[r].now
    <3>1. sched[r].todo \in SUBSET [p : Plans, start : Int]
      BY <1>0, Zenon DEF RunStates
    <3>2. w \in sched[r].todo
      BY <2>1, <3>1, FirstOfIn, Zenon
    <3>3. w.start <= sched[r].now
      BY <3>2, Zenon DEF ClaimInv
    <3>4. w \in [p : Plans, start : Int]
      BY <3>1, <3>2, Zenon
    <3> HIDE DEF w
    <3> QED
      BY <3>2, <3>3, <3>4, Zenon
  <2>3. CASE Claimable(w.p, w.start)
    <3>1. sched' = [sched EXCEPT ![r].pc = "claimed", ![r].claims = @ \cup {w.p}]
      BY <1>5, <2>3 DEF Claim
    <3>2. /\ sched'[r].claims = sched[r].claims \cup {w.p} /\ sched'[r].now = sched[r].now
          /\ sched'[r].todo = sched[r].todo
      BY <1>0, <3>1 DEF RunStates
    <3>3. \A i \in DOMAIN grants[w.p] : plan[w.p].last # Null /\ grants[w.p][i] <= plan[w.p].last
      BY <2>1, <2>2, Zenon DEF GrantInv
    <3>4. plan[w.p].last = Null \/ plan[w.p].last < w.start
      BY <2>3 DEF Claimable
    <3>5. \A i \in DOMAIN grants[w.p] : grants[w.p][i] \in Int /\ plan[w.p].last \in Int
      <4>1. grants[w.p] \in Seq(Int) /\ plan[w.p] \in Rows
        BY <1>0, <2>2, Zenon
      <4>2. \A i \in DOMAIN grants[w.p] : grants[w.p][i] \in Int
        <5>1. \A s \in Seq(Int) : \A i \in DOMAIN s : s[i] \in Int
          OBVIOUS
        <5> QED
          BY <4>1, <5>1, Zenon
      <4>3. plan[w.p].last \in Int
        <5>1. plan[w.p].last \in Nat \cup {Null}
          BY <4>1, Zenon DEF Rows
        <5>2. \A n \in Nat \cup {Null} : n \in Int
          BY DEF Null
        <5> QED
          BY <5>1, <5>2, Zenon
      <4> QED
        BY <4>2, <4>3, Zenon
    <3>6. ASSUME NEW i \in DOMAIN grants[w.p]
          PROVE  grants[w.p][i] < w.start /\ grants[w.p][i] <= sched[r].now
      <4>1. /\ plan[w.p].last # Null /\ grants[w.p][i] <= plan[w.p].last
            /\ grants[w.p][i] \in Int /\ plan[w.p].last \in Int
        BY <3>3, <3>5, <3>6, Zenon
      <4>2. plan[w.p].last < w.start
        BY <3>4, <4>1, Zenon
      <4>3. w.start \in Int /\ w.start <= sched[r].now /\ sched[r].now \in Nat
        BY <1>0, <2>2, Zenon
      <4> HIDE DEF w
      <4> QED
        BY <4>1, <4>2, <4>3
    <3>7. \A q \in Runs : \A p \in sched'[q].claims :
            \A i \in DOMAIN grants[p] : grants[p][i] <= sched'[q].now
      BY <1>1, <3>2, <3>6 DEF GrantInv
    <3>8. \A q \in Runs : sched'[q].pc = "claimed" =>
            \A i \in DOMAIN grants[FirstOf(sched'[q].todo).p] :
              grants[FirstOf(sched'[q].todo).p][i] < FirstOf(sched'[q].todo).start
      BY <1>1, <3>2, <3>6, Zenon DEF GrantInv
    <3>9. \A p \in Plans : ~RowLocked(p)' => ~RowLocked(p)
      BY <1>1, <3>2 DEF RowLocked
    <3> QED
      BY <2>1, <3>7, <3>8, <3>9 DEF GrantInv, OncePerPeriod
  <2>4. CASE ~Claimable(w.p, w.start)
    <3>1. sched' = [sched EXCEPT ![r].todo = @ \ {w}]
      BY <1>5, <2>4 DEF Claim
    <3>2. /\ sched'[r].claims = sched[r].claims /\ sched'[r].now = sched[r].now
          /\ sched'[r].pc = "plans"
      BY <1>0, <2>1, <3>1 DEF RunStates
    <3> QED
      BY <1>2, <2>1, <3>2
  <2> QED
    BY <2>3, <2>4
<1>6. CASE ClaimFail(r) \/ ResetRedisFail(r)
  <2> DEFINE left == sched[r].todo \ {FirstOf(sched[r].todo)}
  <2>1. \/ sched[r].pc = "plans" /\ sched' = [sched EXCEPT ![r].todo = left]
        \/ sched' = [sched EXCEPT ![r].pc = "plans", ![r].todo = left]
    BY <1>6 DEF ClaimFail, ResetRedisFail
  <2> HIDE DEF left
  <2>2. /\ sched'[r].claims = sched[r].claims /\ sched'[r].now = sched[r].now
        /\ sched'[r].pc = "plans"
    BY <1>0, <2>1 DEF RunStates
  <2>3. UNCHANGED <<plan, grants>>
    BY <1>6 DEF ClaimFail, ResetRedisFail, histories
  <2> QED
    BY <1>2, <2>2, <2>3
<1>7. CASE ResetRedis(r)
  <2> DEFINE w == FirstOf(sched[r].todo)
             left == sched[r].todo \ {w}
  <2>1. /\ sched[r].pc = "claimed" /\ plan' = plan
        /\ grants' = [grants EXCEPT ![w.p] = Append(grants[w.p], w.start)]
        /\ sched' = [sched EXCEPT ![r].pc = "plans", ![r].todo = left]
    BY <1>7 DEF ResetRedis
  <2>2. /\ w.p \in sched[r].claims /\ w.p \in Plans /\ w.start \in Int
        /\ w.start <= sched[r].now
    <3>1. sched[r].todo # {} /\ w.p \in sched[r].claims
      BY <1>0, <2>1
    <3>2. w \in sched[r].todo
      BY <1>0, <3>1, FirstOfIn DEF RunStates
    <3> HIDE DEF w
    <3> QED
      BY <1>0, <3>1, <3>2 DEF RunStates, ClaimInv
  <2>3. grants[w.p] \in Seq(Int) /\ IsInjective(grants[w.p])
        /\ \A i \in DOMAIN grants[w.p] : grants[w.p][i] < w.start
    BY <1>0, <2>1, <2>2, Zenon DEF GrantInv, OncePerPeriod
  <2>4. /\ IsInjective(grants'[w.p])
        /\ \A i \in DOMAIN grants'[w.p] : grants'[w.p][i] <= w.start /\ grants'[w.p][i] \in Int
    <3>1. /\ IsInjective(Append(grants[w.p], w.start))
          /\ \A i \in DOMAIN Append(grants[w.p], w.start) : Append(grants[w.p], w.start)[i] <= w.start
      BY <2>2, <2>3, LaterGrant
    <3>2. grants'[w.p] = Append(grants[w.p], w.start) /\ Append(grants[w.p], w.start) \in Seq(Int)
      <4>1. grants'[w.p] = Append(grants[w.p], w.start)
        BY <1>0, <2>1, <2>2, Zenon
      <4> HIDE DEF w, left
      <4>2. Append(grants[w.p], w.start) \in Seq(Int)
        BY <2>2, <2>3
      <4> QED
        BY <4>1, <4>2
    <3> HIDE DEF w, left
    <3>3. \A i \in DOMAIN grants'[w.p] : grants'[w.p][i] \in Int
      BY <3>2
    <3> QED
      BY <3>1, <3>2, <3>3
  <2>5. \A p \in Plans : p # w.p => grants'[p] = grants[p]
    BY <1>0, <2>1, <2>2
  <2>6. /\ sched'[r].claims = sched[r].claims /\ sched'[r].now = sched[r].now
        /\ sched'[r].pc = "plans"
    <3> HIDE DEF left
    <3> QED
      BY <1>0, <2>1 DEF RunStates
  <2>7. \A q \in Runs : q # r => w.p \notin sched[q].claims
    BY <2>2 DEF ClaimInv
  <2> HIDE DEF w, left
  <2>8. OncePerPeriod'
    BY <2>4, <2>5 DEF GrantInv, OncePerPeriod
  <2>9. \A p \in Plans : ~RowLocked(p)' =>
          \A i \in DOMAIN grants'[p] : plan'[p].last # Null /\ grants'[p][i] <= plan'[p].last
    <3>1. \A p \in Plans : ~RowLocked(p)' => ~RowLocked(p) /\ p # w.p
      BY <1>1, <2>2, <2>6 DEF RowLocked
    <3> QED
      BY <2>1, <2>5, <3>1 DEF GrantInv
  <2>10. \A q \in Runs : \A p \in sched'[q].claims :
          \A i \in DOMAIN grants'[p] : grants'[p][i] <= sched'[q].now
    <3>1. ASSUME NEW q \in Runs, NEW p \in sched'[q].claims, NEW i \in DOMAIN grants'[p]
          PROVE  grants'[p][i] <= sched'[q].now
      <4>1. p \in Plans /\ p \in sched[q].claims /\ sched'[q].now = sched[q].now
        BY <1>0, <1>1, <2>6, <3>1
      <4>2. CASE p = w.p
        <5>1. q = r
          BY <2>7, <4>1, <4>2
        <5> QED
          <6>1. grants'[p][i] \in Int /\ grants'[p][i] <= w.start
            BY <2>4, <3>1, <4>2, Zenon
          <6>2. sched[r].now \in Int /\ sched'[q].now = sched[r].now
            <7>1. sched[r].now \in Nat
              BY <1>0, ClaimRanges, Zenon
            <7>2. \A n \in Nat : n \in Int
              OBVIOUS
            <7> QED
              BY <4>1, <5>1, <7>1, <7>2, Zenon
          <6>3. w.start \in Int /\ w.start <= sched[r].now
            BY <2>2, Zenon
          <6>4. \A x, y, z \in Int : x <= y /\ y <= z => x <= z
            OBVIOUS
          <6> QED
            BY <6>1, <6>2, <6>3, <6>4, Zenon
      <4>3. CASE p # w.p
        BY <2>5, <4>1, <4>3 DEF GrantInv
      <4> QED
        BY <4>2, <4>3
    <3> QED
      BY <3>1
  <2>11. \A q \in Runs : sched'[q].pc = "claimed" =>
          \A i \in DOMAIN grants'[FirstOf(sched'[q].todo).p] :
            grants'[FirstOf(sched'[q].todo).p][i] < FirstOf(sched'[q].todo).start
    <3>1. ASSUME NEW q \in Runs, sched'[q].pc = "claimed"
          PROVE  /\ sched[q].pc = "claimed" /\ sched'[q] = sched[q]
                 /\ FirstOf(sched[q].todo).p # w.p /\ FirstOf(sched[q].todo).p \in Plans
      <4>1. q # r
        BY <2>6, <3>1
      <4> QED
        BY <1>0, <1>1, <2>7, <3>1, <4>1, Zenon
    <3> SUFFICES ASSUME NEW q \in Runs, sched'[q].pc = "claimed"
                 PROVE  \A i \in DOMAIN grants'[FirstOf(sched'[q].todo).p] :
                          grants'[FirstOf(sched'[q].todo).p][i] < FirstOf(sched'[q].todo).start
      OBVIOUS
    <3>2. grants'[FirstOf(sched[q].todo).p] = grants[FirstOf(sched[q].todo).p]
      BY <2>5, <3>1, Zenon
    <3> QED
      BY <3>1, <3>2, Zenon DEF GrantInv
  <2> QED
    BY <2>8, <2>9, <2>10, <2>11 DEF GrantInv
<1>8. CASE Commit(r)
  <2>1. /\ sched[r].pc = "plans" /\ grants' = grants
        /\ plan' = [p \in Plans |-> IF p \in sched[r].claims
                                    THEN [plan[p] EXCEPT !.last = sched[r].now]
                                    ELSE plan[p]]
        /\ sched' = [sched EXCEPT ![r].pc = "release", ![r].claims = {}]
    BY <1>8 DEF Commit, histories
  <2>2. sched'[r].claims = {} /\ sched'[r].pc = "release"
    BY <1>0, <2>1 DEF RunStates
  <2>3. \A p \in Plans : /\ p \in sched[r].claims => plan'[p].last = sched[r].now
                         /\ p \notin sched[r].claims => plan'[p] = plan[p]
    BY <1>0, <2>1 DEF Rows
  <2>4. \A p \in Plans : ~RowLocked(p)' => p \in sched[r].claims \/ ~RowLocked(p)
    BY <1>1 DEF RowLocked
  <2>5. ASSUME NEW p \in Plans, ~RowLocked(p)'
        PROVE  \A i \in DOMAIN grants[p] : plan'[p].last # Null /\ grants[p][i] <= plan'[p].last
    <3>1. CASE p \in sched[r].claims
      <4>1. plan'[p].last = sched[r].now /\ sched[r].now # Null
        <5>1. sched[r].now \in Nat
          BY ClaimRanges, Zenon
        <5>2. \A n \in Nat : n # Null
          BY DEF Null
        <5> QED
          BY <2>3, <3>1, <5>1, <5>2, Zenon
      <4> QED
        BY <3>1, <4>1 DEF GrantInv
    <3>2. CASE p \notin sched[r].claims /\ ~RowLocked(p)
      BY <2>3, <3>2 DEF GrantInv
    <3> QED
      BY <2>4, <2>5, <3>1, <3>2
  <2>6. \A q \in Runs : \A p \in sched'[q].claims :
          \A i \in DOMAIN grants[p] : grants[p][i] <= sched'[q].now
    BY <1>1, <2>2 DEF GrantInv
  <2>7. \A q \in Runs : sched'[q].pc = "claimed" =>
          \A i \in DOMAIN grants[FirstOf(sched'[q].todo).p] :
            grants[FirstOf(sched'[q].todo).p][i] < FirstOf(sched'[q].todo).start
    BY <1>1, <2>2 DEF GrantInv
  <2> QED
    BY <2>1, <2>5, <2>6, <2>7, Zenon DEF GrantInv, OncePerPeriod
<1>9. CASE LockLost(r)
  BY <1>9, GrantsKept DEF LockLost
<1> QED
  BY <1>3, <1>4, <1>5, <1>6, <1>7, <1>8, <1>9
     DEF RunStep, RunFault, CommitFail, Crash, Fault, NoRollback

LEMMA GrantNext ==
  ASSUME NoRollback, TypeOK, ClaimInv, GrantInv, [Next]_vars
  PROVE  GrantInv'
<1>0. plan \in [Plans -> Rows] /\ grants \in [Plans -> Seq(Int)] /\ adm \in [Admins -> AdmStates]
  BY Zenon DEF TypeOK
<1>1. ASSUME sched' = sched,
             \A p \in Plans : \/ grants'[p] = <<>>
                              \/ grants'[p] = grants[p] /\ plan'[p].last = plan[p].last
      PROVE  GrantInv'
  BY <1>1, GrantsKept
<1>2. ASSUME NEW a \in Admins, AdminStep(a) \/ AdminRedisFail(a)
      PROVE  GrantInv'
  <2>1. sched' = sched /\ grants' = grants
    BY <1>2, Zenon DEF AdminStep, DeleteKey, Save, ApplyQuotaPlanChange, BatchGetRemaining,
                       GetCurrent, IncrBy, AdminRedisFail, histories
  <2>2. \A p \in Plans : plan'[p].last = plan[p].last
    <3>1. CASE Save(a)
      <4> DEFINE row(b, o) == [quota |-> Given(b.quota, o.quota), unlimited |-> Given(b.unlimited, o.unlimited),
                               unit |-> Given(b.unit, o.unit), period |-> Given(b.period, o.period),
                               last |-> o.last]
      <4>1. plan' = plan \/ plan' = [plan EXCEPT ![adm[a].p] = row(adm[a].body, plan[adm[a].p])]
        BY <3>1 DEF Save
      <4>2. \A b, o : row(b, o).last = o.last
        OBVIOUS
      <4> HIDE DEF row
      <4> QED
        <5> DEFINE x == adm[a].p
                   new == row(adm[a].body, plan[x])
        <5>1. new.last = plan[x].last
          BY <4>2, Zenon
        <5>2. plan' = plan \/ plan' = [plan EXCEPT ![x] = new]
          BY <4>1, Zenon
        <5> HIDE DEF x, new
        <5> QED
          BY <1>0, <5>1, <5>2, Zenon
    <3>2. CASE ~Save(a)
      BY <1>2, <3>2, Zenon DEF AdminStep, DeleteKey, ApplyQuotaPlanChange, BatchGetRemaining,
                        GetCurrent, IncrBy, AdminRedisFail
    <3> QED
      BY <3>1, <3>2
  <2> QED
    BY <1>1, <2>1, <2>2
<1>3. ASSUME NEW a \in Admins, NEW p \in Plans, AdminStart(a, p)
      PROVE  GrantInv'
  <2>1. CASE Create(a, p)
    <3>1. \A o \in Plans : o # p => grants'[o] = grants[o] /\ plan'[o] = plan[o]
      BY <1>0, <2>1 DEF Create
    <3>2. grants'[p] = <<>> /\ sched' = sched
      BY <1>0, <2>1 DEF Create
    <3> QED
      BY <1>1, <3>1, <3>2
  <2>2. CASE ResetBalance(a, p)
    <3>1. PICK q \in ResetQuotas : plan' = [plan EXCEPT ![p].quota = Given(q, plan[p].quota)]
      BY <2>2, Zenon DEF ResetBalance
    <3>2. \A o \in Plans : plan'[o].last = plan[o].last
      BY <1>0, <3>1 DEF Rows
    <3> QED
      BY <1>1, <2>2, <3>2 DEF ResetBalance, histories
  <2>3. CASE Delete(a, p) \/ Update(a, p)
    BY <1>1, <2>3, Zenon DEF Delete, Update, histories
  <2> QED
    BY <1>3, <2>1, <2>2, <2>3 DEF AdminStart
<1>4. LockExpire \/ NextDay \/ UNCHANGED vars \/ (\E p \in Plans : Spend(p))
        => UNCHANGED <<sched, plan, grants>>
  BY DEF LockExpire, NextDay, Spend, vars, histories
<1> QED
  BY <1>1, <1>2, <1>3, <1>4, RunGrants, Zenon DEF Next

LEMMA GrantInit == Init => GrantInv
<1> SUFFICES ASSUME Init PROVE GrantInv
  OBVIOUS
<1>1. /\ \A p \in Plans : grants[p] = <<>>
      /\ \A r \in Runs : sched[r].claims = {} /\ sched[r].pc = "idle"
  BY DEF Init, IdleRun
<1>2. DOMAIN (<<>>) = {} /\ IsInjective(<<>>)
  BY DEF IsInjective
<1> QED
  BY <1>1, <1>2 DEF GrantInv, OncePerPeriod

\* As long as no transaction of the scheduler is rolled back, the balances of
\* a plan are reset at most once in a period, for any number of instances,
\* plans and requests, any calendar, and also after a run lost the lock
\* (ResetExpiredBalances, ClaimQuotaPlanReset).
THEOREM ResetOncePerPeriod ==
  ASSUME NoRollback
  PROVE  Spec => []OncePerPeriod
<1>1. TypeOK /\ ClaimInv /\ GrantInv /\ [Next]_vars => TypeOK' /\ ClaimInv' /\ GrantInv'
  BY TypeNext, ClaimNext, GrantNext
<1>2. GrantInv => OncePerPeriod
  BY Zenon DEF GrantInv
<1> QED
  BY <1>1, <1>2, TypeInit, ClaimInit, GrantInit, PTL DEF Spec

-----------------------------------------------------------------------------
(* Requests that do not overlap. *)

\* One management request at a time, and Redis answers it.
OneRequest == \A a, b \in Admins : a = b
RedisAnswers == "redis_fail" \notin Faults

\* A request on its way to SetRemaining.
LEMMA TargetSet ==
  ASSUME adm \in [Admins -> AdmStates], NEW a \in Admins, NEW p, NEW target, NEW full,
         adm' = SetTarget(a, p, target, full)
  PROVE  adm'[a].pc = "get" /\ adm'[a].p = p /\ adm'[a].target = target /\ adm'[a].full = full
  BY DEF SetTarget, AdmStates

LEMMA RequestEnds ==
  ASSUME adm \in [Admins -> AdmStates], NEW a \in Admins, adm' = [adm EXCEPT ![a] = IdleAdm]
  PROVE  adm'[a].pc = "idle"
  BY DEF IdleAdm

\* The steps of the scheduler, the gateway and the clock leave the requests alone.
LEMMA OthersLeaveRequests ==
  ASSUME [Next]_vars,
         ~ \E a \in Admins : AdminStep(a) \/ AdminRedisFail(a) \/ \E p \in Plans : AdminStart(a, p)
  PROVE  /\ adm' = adm /\ live' = live
         /\ \/ redis' = redis /\ present' = present /\ spent' = spent
            \/ \E p \in Plans : Spend(p)
            \/ \E r \in Runs : ResetRedis(r)
<1>1. ASSUME NEW r \in Runs, RunStep(r) \/ RunFault(r)
      PROVE  /\ adm' = adm /\ live' = live
             /\ (redis' = redis /\ present' = present /\ spent' = spent) \/ ResetRedis(r)
  BY <1>1, Zenon DEF RunStep, RunFault, Acquire, ListPlans, Claim, ResetRedis, Commit, Release,
              ClaimFail, ResetRedisFail, CommitFail, ReleaseFail, Crash, LockLost, histories
<1>2. ASSUME LockExpire \/ NextDay \/ UNCHANGED vars
      PROVE  adm' = adm /\ live' = live /\ redis' = redis /\ present' = present /\ spent' = spent
  BY <1>2, Zenon DEF LockExpire, NextDay, vars, histories
<1>3. ASSUME NEW p \in Plans, Spend(p) PROVE adm' = adm /\ live' = live
  BY <1>3, Zenon DEF Spend
<1> QED
  BY <1>1, <1>2, <1>3, Zenon DEF Next

-----------------------------------------------------------------------------
(* The keys of deleted owners. *)

\* A key without owner is about to be deleted; a request writes the key of an
\* owner that exists.
KeyInv ==
  /\ \A p \in Plans : p \notin live /\ p \in present =>
        \E a \in Admins : adm[a].pc = "del" /\ adm[a].p = p
  /\ \A a \in Admins : adm[a].pc \in {"batch", "get", "incr"} => adm[a].p \in live

LEMMA KeyInit == Init => KeyInv
<1> SUFFICES ASSUME Init PROVE KeyInv
  OBVIOUS
<1>1. live = Plans /\ adm = [a \in Admins |-> IdleAdm]
  BY Zenon DEF Init
<1>2. IdleAdm.pc = "idle"
  BY DEF IdleAdm
<1>3. \A a \in Admins : adm[a].pc = "idle"
  BY <1>1, <1>2, Zenon
<1> QED
  BY <1>1, <1>3, Zenon DEF KeyInv

\* After a request's step, of the only request there is.
LEMMA KeyStep ==
  ASSUME OneRequest, RedisAnswers, TypeOK, KeyInv, NEW a \in Admins,
         AdminStep(a) \/ AdminRedisFail(a) \/ \E p \in Plans : AdminStart(a, p)
  PROVE  KeyInv'
<1>0. /\ adm \in [Admins -> AdmStates] /\ adm[a] \in AdmStates /\ live \subseteq Plans
      /\ present \subseteq Plans /\ Admins = {a} /\ adm[a].p \in Plans
  <2>1. adm \in [Admins -> AdmStates] /\ live \subseteq Plans /\ present \subseteq Plans
    BY Zenon DEF TypeOK
  <2>2. Admins = {a}
    BY Zenon DEF OneRequest
  <2>3. adm[a] \in AdmStates
    BY <2>1, Zenon
  <2> QED
    BY <2>1, <2>2, <2>3, Zenon DEF AdmStates
<1>1. ASSUME live \subseteq live', present' \subseteq present,
             adm[a].pc # "del" /\ (adm'[a].pc \in {"batch", "get", "incr"} => adm'[a].p \in live')
      PROVE  KeyInv'
  BY <1>0, <1>1, Zenon DEF KeyInv
<1>2. CASE DeleteKey(a)
  <2>1. adm'[a].pc = "idle" /\ live' = live /\ present' = present \ {adm[a].p}
    BY <1>0, <1>2, RequestEnds, Zenon DEF DeleteKey
  <2> QED
    BY <1>0, <2>1, Zenon DEF KeyInv
<1>3. CASE Save(a)
  <2>1. adm'[a].pc \in {"idle", "apply"}
    BY <1>0, <1>3, RequestEnds DEF Save, AdmStates
  <2> QED
    BY <1>1, <1>3, <2>1, Zenon DEF Save
<1>4. CASE ApplyQuotaPlanChange(a)
  <2>1. adm[a].pc = "apply" /\ live' = live /\ present' = present
    BY <1>4, Zenon DEF ApplyQuotaPlanChange
  <2>2. adm'[a].pc = "idle" \/ (adm[a].p \in live /\ adm'[a].p = adm[a].p)
    BY <1>0, <1>4, RequestEnds DEF ApplyQuotaPlanChange, SetTarget, AdmStates
  <2> QED
    BY <1>1, <2>1, <2>2, Zenon
<1>5. CASE BatchGetRemaining(a)
  <2>1. adm'[a].p = adm[a].p /\ adm[a].p \in live
    BY <1>0, <1>5, TargetSet, Zenon DEF BatchGetRemaining, KeyInv
  <2> QED
    BY <1>1, <1>5, <2>1, Zenon DEF BatchGetRemaining
<1>6. CASE GetCurrent(a)
  <2>1. adm'[a].p = adm[a].p /\ adm[a].p \in live
    BY <1>0, <1>6 DEF GetCurrent, KeyInv, AdmStates
  <2>2. adm[a].pc = "get" /\ live' = live /\ present' = present
    BY <1>6, Zenon DEF GetCurrent
  <2>3. adm[a].pc # "del"
    BY <2>2, Zenon
  <2> QED
    BY <1>1, <2>1, <2>2, <2>3, Zenon
<1>7. CASE IncrBy(a)
  <2>1. adm'[a].pc = "idle" /\ live' = live /\ present' = present \cup {adm[a].p}
    BY <1>0, <1>7, RequestEnds, Zenon DEF IncrBy
  <2>2. adm[a].pc = "incr" /\ adm[a].p \in live
    BY <1>7, Zenon DEF KeyInv, IncrBy
  <2> QED
    BY <1>0, <2>1, <2>2, Zenon DEF KeyInv
<1>8. ~AdminRedisFail(a)
  BY Zenon DEF AdminRedisFail, Fault, RedisAnswers
<1>9. ASSUME NEW p \in Plans, Create(a, p) PROVE KeyInv'
  <2>1. adm'[a].pc \in {"idle", "get"} /\ (adm'[a].pc = "get" => adm'[a].p = p)
    <3>1. adm[a].pc = "idle" /\ (adm' = adm \/ \E t, f : adm' = SetTarget(a, p, t, f))
      BY <1>9, Zenon DEF Create, Begin
    <3>2. ASSUME NEW t, NEW f, adm' = SetTarget(a, p, t, f)
          PROVE  adm'[a].pc = "get" /\ adm'[a].p = p
      BY <1>0, <3>2, TargetSet, Zenon
    <3> QED
      BY <3>1, <3>2, Zenon
  <2> QED
    BY <1>1, <1>9, <2>1, Zenon DEF Create, Begin
<1>10. ASSUME NEW p \in Plans, Delete(a, p) PROVE KeyInv'
  <2>1. adm'[a].pc = "del" /\ adm'[a].p = p
    BY <1>0, <1>10 DEF Delete, AdmStates
  <2>2. adm[a].pc = "idle" /\ live' = live \ {p} /\ present' = present
    BY <1>10, Zenon DEF Delete, Begin
  <2> QED
    BY <1>0, <2>1, <2>2, Zenon DEF KeyInv
<1>11. ASSUME NEW p \in Plans, ResetBalance(a, p) PROVE KeyInv'
  <2>1. adm'[a].p = p /\ p \in live
    BY <1>0, <1>11, TargetSet DEF ResetBalance
  <2> QED
    BY <1>1, <1>11, <2>1, Zenon DEF ResetBalance, Begin
<1>12. ASSUME NEW p \in Plans, Update(a, p) PROVE KeyInv'
  <2>1. adm'[a].pc = "update"
    BY <1>0, <1>12 DEF Update, AdmStates
  <2> QED
    BY <1>1, <1>12, <2>1, Zenon DEF Update, Begin
<1> QED
  BY <1>2, <1>3, <1>4, <1>5, <1>6, <1>7, <1>8, <1>9, <1>10, <1>11, <1>12, Zenon
  DEF AdminStep, AdminStart

LEMMA KeyNext ==
  ASSUME OneRequest, RedisAnswers, TypeOK, ClaimInv, KeyInv, [Next]_vars
  PROVE  KeyInv'
<1>1. CASE \E a \in Admins : AdminStep(a) \/ AdminRedisFail(a) \/ \E p \in Plans : AdminStart(a, p)
  BY <1>1, KeyStep, Zenon
<1>2. CASE ~ \E a \in Admins : AdminStep(a) \/ AdminRedisFail(a) \/ \E p \in Plans : AdminStart(a, p)
  <2>1. adm' = adm /\ live' = live
    BY <1>2, OthersLeaveRequests, Zenon
  <2>2. present' = present \/ \E p \in live : present' = present \cup {p}
    <3>1. ASSUME NEW r \in Runs, ResetRedis(r) PROVE \E p \in live : present' = present \cup {p}
      <4>1. FirstOf(sched[r].todo).p \in sched[r].claims
        BY <3>1, Zenon DEF ResetRedis, TypeOK
      <4>2. FirstOf(sched[r].todo).p \in live
        BY <4>1, Zenon DEF ClaimInv
      <4> QED
        BY <3>1, <4>2, Zenon DEF ResetRedis
    <3> QED
      BY <1>2, <3>1, OthersLeaveRequests, Zenon DEF Spend
  <2> QED
    BY <2>1, <2>2, Zenon DEF KeyInv
<1> QED
  BY <1>1, <1>2, Zenon

\* While management requests do not overlap and Redis answers them, the key of a
\* deleted owner stays deleted, however many instances reset quotas, crash and lose
\* their locks: a claim finds no deleted row and DeleteQuotaPlan waits for a claim.
THEOREM DeletedKeysStayDeleted ==
  ASSUME OneRequest, RedisAnswers
  PROVE  Spec => []NoOrphanKey
<1>1. Init => TypeOK /\ ClaimInv /\ KeyInv
  BY TypeInit, ClaimInit, KeyInit, Zenon
<1>2. TypeOK /\ ClaimInv /\ KeyInv /\ [Next]_vars => (TypeOK /\ ClaimInv /\ KeyInv)'
  BY TypeNext, ClaimNext, KeyNext, Zenon
<1>3. KeyInv => NoOrphanKey
  BY Zenon DEF KeyInv, NoOrphanKey, Settled
<1> QED
  BY <1>1, <1>2, <1>3, PTL DEF Spec

-----------------------------------------------------------------------------
(* Balances. *)

\* Nobody resets periodically.
NoScheduler == Runs = {}

\* The full grant of a row, and a balance rd within it after sp was spent.
Full(row) == ToRedis(row.quota, row.unit)
Within(row, sp, rd) == Full(row) - sp <= rd /\ rd <= Full(row)

\* The row after a save of the fields of a body.
Merged(old, body) ==
  [quota |-> Given(body.quota, old.quota), unlimited |-> Given(body.unlimited, old.unlimited),
   unit |-> Given(body.unit, old.unit), period |-> Given(body.period, old.period),
   last |-> old.last]

\* What a request knows of the row, what was spent and the balance at each of its steps.
RequestKnows(m, row, sp, rd) ==
  /\ m.pc = "update" => m.old = row /\ (~row.unlimited => Within(row, sp, rd))
  /\ m.pc = "apply" =>
        row = Merged(m.old, m.body) /\ (~m.old.unlimited => Within(m.old, sp, rd))
  /\ m.pc = "batch" =>
        m.target = Full(row) /\ m.seen - sp <= rd /\ rd <= m.seen
  /\ m.pc = "get" /\ ~row.unlimited =>
        /\ m.full => m.target = Full(row)
        /\ ~m.full => Full(row) - sp <= m.target /\ m.target <= Full(row)
  /\ m.pc = "incr" => m.seen <= sp /\ rd = m.cur - (sp - m.seen)
  /\ m.pc = "incr" /\ ~row.unlimited =>
        /\ m.full => m.target = Full(row)
        /\ ~m.full => Full(row) - m.seen <= m.target /\ m.target <= Full(row)

BalanceInv ==
  /\ \A p \in Plans :
        p \in live /\ ~plan[p].unlimited /\ Settled(p) =>
            Within(plan[p], spent[p], redis[p])
  /\ \A a \in Admins :
        LET p == adm[a].p IN
        /\ adm[a].pc \notin {"idle", "del"} =>
              p \in live /\ RequestKnows(adm[a], plan[p], spent[p], redis[p])
        /\ adm[a].pc = "del" => p \notin live

LEMMA FullNat == ASSUME NEW row \in Rows PROVE Full(row) \in Nat
  BY ToRedisNat DEF Full, Rows

\* The gateway spends one unit.
LEMMA SpentOne ==
  ASSUME NEW row \in Rows, NEW sp \in Nat, NEW rd \in Int
  PROVE  Within(row, sp, rd) => Within(row, sp + 1, rd - 1)
<1> DEFINE f == Full(row)
<1>1. f \in Nat
  BY FullNat
<1> HIDE DEF f
<1>2. f - sp <= rd /\ rd <= f => f - (sp + 1) <= rd - 1 /\ rd - 1 <= f
  BY <1>1
<1> QED
  BY <1>2 DEF Within, f

LEMMA KnowsSpentOne ==
  ASSUME NEW m \in AdmStates, NEW row \in Rows, NEW sp \in Nat, NEW rd \in Int,
         RequestKnows(m, row, sp, rd)
  PROVE  RequestKnows(m, row, sp + 1, rd - 1)
<1>0. m.old \in Rows /\ m.target \in Nat /\ m.seen \in Nat /\ m.cur \in Int
  BY DEF AdmStates
<1>1. Within(row, sp, rd) => Within(row, sp + 1, rd - 1)
  BY SpentOne
<1>2. Within(m.old, sp, rd) => Within(m.old, sp + 1, rd - 1)
  BY <1>0, SpentOne
<1>3. Full(row) \in Nat
  BY FullNat
<1> DEFINE f == Full(row)  t == m.target  s == m.seen  c == m.cur
<1>4. f \in Nat /\ t \in Nat /\ s \in Nat /\ c \in Int
  BY <1>0, <1>3
<1> HIDE DEF f, t, s, c
<1>5. s - sp <= rd /\ rd <= s => s - (sp + 1) <= rd - 1 /\ rd - 1 <= s
  BY <1>4
<1>6. f - sp <= t => f - (sp + 1) <= t
  BY <1>4
<1>7. s <= sp /\ rd = c - (sp - s) => s <= sp + 1 /\ rd - 1 = c - ((sp + 1) - s)
  BY <1>4
<1> QED
  BY <1>1, <1>2, <1>5, <1>6, <1>7, Zenon DEF RequestKnows, f, t, s, c

\* A target computed from what is left lies between the new quota less what was
\* spent and the new quota.
LEMMA KeptUsed ==
  ASSUME NEW n \in Nat, NEW o \in Nat, NEW sp \in Nat, NEW rd \in Int, o - sp <= rd, rd <= o
  PROVE  n - sp <= KeepUsed(n, o, rd) /\ KeepUsed(n, o, rd) <= n
  BY DEF KeepUsed, Max0

\* INCRBY: the balance after it, and what then counts as spent.
LEMMA Incremented ==
  ASSUME NEW f \in Nat, NEW sp \in Nat, NEW rd \in Int, NEW t \in Nat, NEW s \in Nat, NEW c \in Int,
         s <= sp, rd = c - (sp - s)
  PROVE  /\ t = f => f - Max0(sp - s) <= rd + (t - c) /\ rd + (t - c) <= f
         /\ f - s <= t /\ t <= f => f - sp <= rd + (t - c) /\ rd + (t - c) <= f
  BY DEF Max0

\* A step on the plan q leaves the balances of the other plans as they are.
LEMMA Elsewhere ==
  ASSUME OneRequest, TypeOK, BalanceInv, NEW a \in Admins, NEW q \in Plans,
         adm[a].pc = "idle" \/ adm[a].p = q,
         \A p \in Plans \ {q} : /\ p \in live' => p \in live
                                /\ plan'[p] = plan[p] /\ redis'[p] = redis[p] /\ spent'[p] = spent[p],
         q \in live' /\ ~plan'[q].unlimited /\ (adm'[a].pc # "idle" => adm'[a].p # q) =>
            Within(plan'[q], spent'[q], redis'[q]),
         adm'[a].pc \notin {"idle", "del"} =>
            adm'[a].p = q /\ q \in live' /\ RequestKnows(adm'[a], plan'[q], spent'[q], redis'[q]),
         adm'[a].pc = "del" => adm'[a].p \notin live'
  PROVE  BalanceInv'
<1>1. Admins = {a}
  BY Zenon DEF OneRequest
<1>2. ASSUME NEW p \in Plans, p # q PROVE Settled(p)
  BY <1>1, <1>2, Zenon DEF Settled
<1>3. ASSUME NEW p \in Plans, p # q, p \in live', ~plan'[p].unlimited
      PROVE  Within(plan'[p], spent'[p], redis'[p])
  <2>1. p \in live /\ plan'[p] = plan[p] /\ redis'[p] = redis[p] /\ spent'[p] = spent[p]
    BY <1>3, Zenon
  <2>2. Within(plan[p], spent[p], redis[p])
    BY <1>2, <1>3, <2>1, Zenon DEF BalanceInv
  <2> QED
    BY <2>1, <2>2, Zenon
<1>4. \A p \in Plans : p \in live' /\ ~plan'[p].unlimited /\ Settled(p)' =>
         Within(plan'[p], spent'[p], redis'[p])
  BY <1>1, <1>3, Zenon DEF Settled
<1>5. \A b \in Admins : adm'[b].pc \notin {"idle", "del"} =>
         adm'[b].p \in live' /\ RequestKnows(adm'[b], plan'[adm'[b].p], spent'[adm'[b].p], redis'[adm'[b].p])
  BY <1>1, Zenon
<1>6. \A b \in Admins : adm'[b].pc = "del" => adm'[b].p \notin live'
  BY <1>1, Zenon
<1> QED
  BY <1>4, <1>5, <1>6, Zenon DEF BalanceInv

\* What the request knows, and the types of what it knows it of.
LEMMA Known ==
  ASSUME TypeOK, BalanceInv, NEW a \in Admins
  PROVE  /\ adm \in [Admins -> AdmStates] /\ adm[a] \in AdmStates /\ adm[a].p \in Plans
         /\ plan \in [Plans -> Rows] /\ redis \in [Plans -> Int] /\ spent \in [Plans -> Nat]
         /\ adm[a].pc \notin {"idle", "del"} =>
               /\ adm[a].p \in live
               /\ RequestKnows(adm[a], plan[adm[a].p], spent[adm[a].p], redis[adm[a].p])
         /\ adm[a].pc = "del" => adm[a].p \notin live
<1>1. adm \in [Admins -> AdmStates] /\ adm[a] \in AdmStates
  BY Zenon DEF TypeOK
<1>2. adm[a].p \in Plans
  BY <1>1, Zenon DEF AdmStates
<1> QED
  BY <1>1, <1>2, Zenon DEF TypeOK, BalanceInv

LEMMA BalanceInit == Init => BalanceInv
<1> SUFFICES ASSUME Init PROVE BalanceInv
  OBVIOUS
<1>1. \A a \in Admins : adm[a].pc = "idle"
  BY Zenon DEF Init, IdleAdm
<1>2. ASSUME NEW p \in Plans, ~plan[p].unlimited PROVE Within(plan[p], spent[p], redis[p])
  <2>1. redis[p] = Full(plan[p]) /\ spent[p] = 0
    BY <1>2, Zenon DEF Init, Full
  <2>2. Full(plan[p]) \in Nat
    BY FullNat, TypeInit, Zenon DEF TypeOK
  <2> QED
    BY <2>1, <2>2 DEF Within
<1> QED
  BY <1>1, <1>2, Zenon DEF BalanceInv

LEMMA SpendBalance ==
  ASSUME TypeOK, BalanceInv, NEW q \in Plans, Spend(q)
  PROVE  BalanceInv'
<1>1. /\ adm' = adm /\ live' = live /\ plan' = plan
      /\ redis' = [redis EXCEPT ![q] = @ - 1] /\ spent' = [spent EXCEPT ![q] = @ + 1]
  BY Zenon DEF Spend
<1>2. plan \in [Plans -> Rows] /\ redis \in [Plans -> Int] /\ spent \in [Plans -> Nat]
  BY Zenon DEF TypeOK
<1>3. \A p \in Plans : /\ redis'[p] = IF p = q THEN redis[p] - 1 ELSE redis[p]
                       /\ spent'[p] = IF p = q THEN spent[p] + 1 ELSE spent[p]
  BY <1>1, <1>2, Zenon
<1>4. ASSUME NEW p \in Plans, Within(plan[p], spent[p], redis[p])
      PROVE  Within(plan[p], spent'[p], redis'[p])
  BY <1>2, <1>3, <1>4, SpentOne, Zenon
<1>5. ASSUME NEW a \in Admins, adm[a].pc \notin {"idle", "del"}
      PROVE  RequestKnows(adm[a], plan[adm[a].p], spent'[adm[a].p], redis'[adm[a].p])
  <2>1. RequestKnows(adm[a], plan[adm[a].p], spent[adm[a].p], redis[adm[a].p])
        /\ adm[a].p \in Plans /\ adm[a] \in AdmStates
    BY <1>5, Known, Zenon
  <2>2. plan[adm[a].p] \in Rows /\ spent[adm[a].p] \in Nat /\ redis[adm[a].p] \in Int
    BY <1>2, <2>1, Zenon
  <2> QED
    BY <1>3, <2>1, <2>2, KnowsSpentOne, Zenon
<1> QED
  BY <1>1, <1>4, <1>5, Zenon DEF BalanceInv, Settled

LEMMA DeleteKeyBalance ==
  ASSUME OneRequest, TypeOK, BalanceInv, NEW a \in Admins, DeleteKey(a)
  PROVE  BalanceInv'
<1>0. /\ adm \in [Admins -> AdmStates] /\ adm[a].p \in Plans /\ plan \in [Plans -> Rows]
      /\ redis \in [Plans -> Int] /\ spent \in [Plans -> Nat]
      /\ adm[a].pc = "del" => adm[a].p \notin live
  BY Known, Zenon
<1>1. /\ adm' = [adm EXCEPT ![a] = IdleAdm] /\ live' = live /\ plan' = plan /\ adm[a].p \notin live
      /\ redis' = [redis EXCEPT ![adm[a].p] = 0] /\ spent' = [spent EXCEPT ![adm[a].p] = 0]
  BY <1>0, Zenon DEF DeleteKey
<1>2. adm'[a].pc = "idle"
  BY <1>0, <1>1, RequestEnds, Zenon
<1>3. \A p \in Plans \ {adm[a].p} : redis'[p] = redis[p] /\ spent'[p] = spent[p]
  BY <1>0, <1>1, Zenon
<1> QED
  BY <1>0, <1>1, <1>2, <1>3, Elsewhere, Zenon

LEMMA SaveBalance ==
  ASSUME OneRequest, TypeOK, BalanceInv, NEW a \in Admins, Save(a)
  PROVE  BalanceInv'
<1> DEFINE m == adm[a]
           q == m.p
<1>0. /\ adm \in [Admins -> AdmStates] /\ m \in AdmStates /\ q \in Plans /\ plan \in [Plans -> Rows]
      /\ m.pc \notin {"idle", "del"} => q \in live /\ RequestKnows(m, plan[q], spent[q], redis[q])
  BY Known, Zenon
<1>1. m.pc = "update" /\ live' = live /\ redis' = redis /\ spent' = spent
  BY Zenon DEF Save, histories
<1>2. q \in live /\ m.old = plan[q] /\ (~m.old.unlimited => Within(m.old, spent[q], redis[q]))
  BY <1>0, <1>1, Zenon DEF RequestKnows
<1>3. adm' = [adm EXCEPT ![a].pc = "apply"] /\ plan' = [plan EXCEPT ![q] = Merged(@, m.body)]
  BY <1>0, <1>2 DEF Save, Merged
<1>4. plan'[q] = Merged(m.old, m.body) /\ \A p \in Plans \ {q} : plan'[p] = plan[p]
  BY <1>0, <1>2, <1>3, Zenon
<1>5. adm'[a].pc = "apply" /\ adm'[a].p = q /\ adm'[a].old = m.old /\ adm'[a].body = m.body
  BY <1>0, <1>3 DEF AdmStates
<1> HIDE DEF q
<1>6. RequestKnows(adm'[a], plan'[q], spent'[q], redis'[q])
  BY <1>1, <1>2, <1>4, <1>5 DEF RequestKnows
<1> QED
  BY <1>0, <1>1, <1>2, <1>4, <1>5, <1>6, Elsewhere, Zenon DEF q

\* A field that is left out or repeats the old value.
LEMMA GivenSame == ASSUME NEW old, NEW field \in {{}, {old}} PROVE Given(field, old) = old
  BY DEF Given

LEMMA MergedFields ==
  ASSUME NEW row, NEW old, NEW body, row = Merged(old, body)
  PROVE  /\ row.quota = Given(body.quota, old.quota)
         /\ row.unlimited = Given(body.unlimited, old.unlimited)
         /\ row.unit = Given(body.unit, old.unit)
  BY DEF Merged

LEMMA ApplyBalance ==
  ASSUME OneRequest, TypeOK, BalanceInv, NEW a \in Admins, ApplyQuotaPlanChange(a)
  PROVE  BalanceInv'
<1> DEFINE m == adm[a]
           q == m.p
           old == m.old
           body == m.body
           row == plan[q]
<1>0. /\ adm \in [Admins -> AdmStates] /\ m \in AdmStates /\ q \in Plans /\ plan \in [Plans -> Rows]
      /\ m.pc \notin {"idle", "del"} => q \in live /\ RequestKnows(m, row, spent[q], redis[q])
  BY Known, Zenon
<1>1. m.pc = "apply" /\ live' = live /\ plan' = plan /\ redis' = redis /\ spent' = spent
  BY Zenon DEF ApplyQuotaPlanChange, histories
<1>2. /\ q \in live /\ row = Merged(old, body)
      /\ ~old.unlimited => Within(old, spent[q], redis[q])
  BY <1>0, <1>1, Zenon DEF RequestKnows
<1> HIDE DEF row, old, body
<1>3. /\ row.quota = Given(body.quota, old.quota) /\ row.unlimited = Given(body.unlimited, old.unlimited)
      /\ row.unit = Given(body.unit, old.unit)
  BY <1>2, MergedFields, Zenon
<1> USE DEF row, old, body
<1>4. Given(body.quota, row.quota) = row.quota
  BY <1>3, Zenon DEF Given
<1>5. \/ ~QuotaPlanChanged(old, body) /\ adm' = [adm EXCEPT ![a] = IdleAdm]
      \/ row.unlimited /\ adm' = SetTarget(a, q, ToRedis(Sentinel, row.unit), TRUE)
      \/ adm' = SetTarget(a, q, Full(row), TRUE)
      \/ /\ ~old.unlimited /\ old.unit = row.unit
         /\ adm' = [adm EXCEPT ![a].pc = "batch", ![a].target = Full(row),
                               ![a].seen = ToRedis(old.quota, row.unit)]
  BY <1>2, <1>3, <1>4 DEF ApplyQuotaPlanChange, Full
<1> HIDE DEF m, q, old, body, row
<1>6. ASSUME adm'[a].pc \notin {"idle", "del"} =>
               adm'[a].p = q /\ RequestKnows(adm'[a], row, spent[q], redis[q]),
             adm'[a].pc # "del",
             adm'[a].pc = "idle" /\ ~row.unlimited => Within(row, spent[q], redis[q])
      PROVE  BalanceInv'
  BY <1>0, <1>1, <1>2, <1>6, Elsewhere, Zenon DEF q, row, m
<1>7. CASE ~QuotaPlanChanged(old, body) /\ adm' = [adm EXCEPT ![a] = IdleAdm]
  <2>1. body.unlimited \in {{}, {old.unlimited}} /\ body.quota \in {{}, {old.quota}}
        /\ body.unit \in {{}, {old.unit}}
    BY <1>7, Zenon DEF QuotaPlanChanged
  <2>2. row.quota = old.quota /\ row.unlimited = old.unlimited /\ row.unit = old.unit
    BY <1>3, <2>1, GivenSame, Zenon
  <2>3. ~row.unlimited => Within(row, spent[q], redis[q])
    BY <1>2, <2>2 DEF Within, Full
  <2>4. adm'[a].pc = "idle"
    BY <1>0, <1>7, RequestEnds, Zenon
  <2> QED
    BY <1>6, <2>3, <2>4, Zenon
<1>8. CASE row.unlimited /\ adm' = SetTarget(a, q, ToRedis(Sentinel, row.unit), TRUE)
  <2>1. adm'[a].pc = "get" /\ adm'[a].p = q
    BY <1>0, <1>8, TargetSet, Zenon
  <2>2. RequestKnows(adm'[a], row, spent[q], redis[q])
    BY <1>8, <2>1, Zenon DEF RequestKnows
  <2> QED
    BY <1>6, <2>1, <2>2, Zenon
<1>9. CASE adm' = SetTarget(a, q, Full(row), TRUE)
  <2>1. adm'[a].pc = "get" /\ adm'[a].p = q /\ adm'[a].target = Full(row) /\ adm'[a].full = TRUE
    BY <1>0, <1>9, TargetSet, Zenon
  <2>2. RequestKnows(adm'[a], row, spent[q], redis[q])
    BY <2>1, Zenon DEF RequestKnows
  <2> QED
    BY <1>6, <2>1, <2>2, Zenon
<1>10. CASE /\ ~old.unlimited /\ old.unit = row.unit
            /\ adm' = [adm EXCEPT ![a].pc = "batch", ![a].target = Full(row),
                                  ![a].seen = ToRedis(old.quota, row.unit)]
  <2>1. /\ adm'[a].pc = "batch" /\ adm'[a].p = q /\ adm'[a].target = Full(row)
        /\ adm'[a].seen = ToRedis(old.quota, row.unit)
    BY <1>0, <1>10 DEF AdmStates, m, q
  <2>2. adm'[a].seen = Full(old)
    BY <1>10, <2>1, Zenon DEF Full
  <2>3. adm'[a].seen - spent[q] <= redis[q] /\ redis[q] <= adm'[a].seen
    BY <1>2, <1>10, <2>2, Zenon DEF Within
  <2>4. RequestKnows(adm'[a], row, spent[q], redis[q])
    BY <2>1, <2>3, Zenon DEF RequestKnows
  <2> QED
    BY <1>6, <2>1, <2>4, Zenon
<1> QED
  BY <1>5, <1>7, <1>8, <1>9, <1>10, Zenon

\* BatchGetRemaining sets the target.
LEMMA BatchBalance ==
  ASSUME OneRequest, TypeOK, BalanceInv, NEW a \in Admins, BatchGetRemaining(a)
  PROVE  BalanceInv'
<1> DEFINE m == adm[a]
           q == m.p
           row == plan[q]
           kept == KeepUsed(m.target, m.seen, redis[q])
<1>0. /\ adm \in [Admins -> AdmStates] /\ m \in AdmStates /\ q \in Plans /\ row \in Rows
      /\ spent[q] \in Nat /\ redis[q] \in Int
      /\ m.pc \notin {"idle", "del"} => q \in live /\ RequestKnows(m, row, spent[q], redis[q])
  BY Known, Zenon
<1>1. /\ m.pc = "batch" /\ live' = live /\ plan' = plan /\ redis' = redis /\ spent' = spent
      /\ adm' = SetTarget(a, q, kept, FALSE)
  BY Zenon DEF BatchGetRemaining, histories
<1>2. /\ q \in live /\ m.target = Full(row)
      /\ m.seen - spent[q] <= redis[q] /\ redis[q] <= m.seen
  BY <1>0, <1>1, Zenon DEF RequestKnows
<1>3. m.target \in Nat /\ m.seen \in Nat
  BY <1>0, Zenon DEF AdmStates
<1> HIDE DEF m, q, row
<1>4. m.target - spent[q] <= kept /\ kept <= m.target
  BY <1>0, <1>2, <1>3, KeptUsed, Zenon
<1> HIDE DEF kept
<1>5. adm'[a].pc = "get" /\ adm'[a].p = q /\ adm'[a].target = kept /\ adm'[a].full = FALSE
  BY <1>0, <1>1 DEF SetTarget, AdmStates
<1>6. Full(row) - spent[q] <= adm'[a].target /\ adm'[a].target <= Full(row)
  BY <1>2, <1>4, <1>5, Zenon
<1>7. RequestKnows(adm'[a], row, spent[q], redis[q])
  BY <1>5, <1>6, Zenon DEF RequestKnows
<1> QED
  BY <1>0, <1>1, <1>2, <1>5, <1>7, Elsewhere, Zenon DEF q, row, m

LEMMA GetBalance ==
  ASSUME OneRequest, TypeOK, BalanceInv, NEW a \in Admins, GetCurrent(a)
  PROVE  BalanceInv'
<1> DEFINE m == adm[a]
           q == m.p
           row == plan[q]
           sp == spent[q]
           rd == redis[q]
<1>0. /\ adm \in [Admins -> AdmStates] /\ m \in AdmStates /\ q \in Plans
      /\ sp \in Nat /\ rd \in Int
      /\ m.pc \notin {"idle", "del"} => q \in live /\ RequestKnows(m, row, sp, rd)
  BY Known, Zenon
<1>1. /\ m.pc = "get" /\ live' = live /\ plan' = plan /\ redis' = redis /\ spent' = spent
      /\ adm' = [adm EXCEPT ![a].pc = "incr", ![a].cur = rd, ![a].seen = sp]
  BY Zenon DEF GetCurrent, histories
<1>2. /\ q \in live
      /\ ~row.unlimited => /\ m.full => m.target = Full(row)
                           /\ ~m.full => Full(row) - sp <= m.target /\ m.target <= Full(row)
  BY <1>0, <1>1, Zenon DEF RequestKnows
<1>3. /\ adm'[a].pc = "incr" /\ adm'[a].p = q /\ adm'[a].cur = rd /\ adm'[a].seen = sp
      /\ adm'[a].target = m.target /\ adm'[a].full = m.full
  BY <1>0, <1>1 DEF AdmStates
<1> HIDE DEF m, q, row, sp, rd
<1>4. sp <= sp /\ rd = rd - (sp - sp)
  BY <1>0
<1>5. RequestKnows(adm'[a], row, sp, rd)
  BY <1>2, <1>3, <1>4, Zenon DEF RequestKnows
<1> QED
  BY <1>0, <1>1, <1>2, <1>3, <1>5, Elsewhere, Zenon DEF q, row, m, sp, rd

LEMMA IncrBalance ==
  ASSUME OneRequest, TypeOK, BalanceInv, NEW a \in Admins, IncrBy(a)
  PROVE  BalanceInv'
<1> DEFINE m == adm[a]
           q == m.p
           row == plan[q]
           sp == spent[q]
           rd == redis[q]
           t == m.target
           s == m.seen
           c == m.cur
           f == Full(row)
<1>0. /\ adm \in [Admins -> AdmStates] /\ m \in AdmStates /\ q \in Plans /\ row \in Rows
      /\ sp \in Nat /\ rd \in Int /\ redis \in [Plans -> Int] /\ spent \in [Plans -> Nat]
      /\ m.pc \notin {"idle", "del"} => q \in live /\ RequestKnows(m, row, sp, rd)
  BY Known, Zenon
<1>1. /\ m.pc = "incr" /\ live' = live /\ plan' = plan
      /\ adm' = [adm EXCEPT ![a] = IdleAdm]
      /\ redis' = [redis EXCEPT ![q] = @ + (t - c)]
      /\ spent' = IF m.full THEN [spent EXCEPT ![q] = Max0(@ - s)] ELSE spent
  BY Zenon DEF IncrBy
<1>2. /\ q \in live /\ s <= sp /\ rd = c - (sp - s)
      /\ ~row.unlimited => /\ m.full => t = f
                           /\ ~m.full => f - s <= t /\ t <= f
  BY <1>0, <1>1, Zenon DEF RequestKnows
<1>3. t \in Nat /\ s \in Nat /\ c \in Int
  BY <1>0, Zenon DEF AdmStates
<1>4. f \in Nat
  BY <1>0, FullNat, Zenon
<1>5. redis'[q] = rd + (t - c) /\ \A p \in Plans \ {q} : redis'[p] = redis[p]
  BY <1>0, <1>1, Zenon
<1>6. /\ m.full => spent'[q] = Max0(sp - s)
      /\ ~m.full => spent'[q] = sp
      /\ \A p \in Plans \ {q} : spent'[p] = spent[p]
  BY <1>0, <1>1, Zenon
<1>7. adm'[a].pc = "idle"
  BY <1>0, <1>1, RequestEnds, Zenon
<1> HIDE DEF m, q, row, sp, rd, t, s, c, f
<1>8. /\ t = f => f - Max0(sp - s) <= rd + (t - c) /\ rd + (t - c) <= f
      /\ f - s <= t /\ t <= f => f - sp <= rd + (t - c) /\ rd + (t - c) <= f
  BY <1>0, <1>2, <1>3, <1>4, Incremented, Zenon
<1>9. ~row.unlimited => f - spent'[q] <= redis'[q] /\ redis'[q] <= f
  BY <1>2, <1>5, <1>6, <1>8, Zenon
<1>10. ~row.unlimited => Within(row, spent'[q], redis'[q])
  BY <1>9, Zenon DEF Within, f
<1> QED
  BY <1>0, <1>1, <1>5, <1>6, <1>7, <1>10, Elsewhere, Zenon DEF q, row, m

LEMMA CreateBalance ==
  ASSUME OneRequest, TypeOK, BalanceInv, NEW a \in Admins, NEW q \in Plans, Create(a, q)
  PROVE  BalanceInv'
<1>0. adm \in [Admins -> AdmStates] /\ plan \in [Plans -> Rows] /\ NewRows \subseteq Rows
  BY Known, ConstantsAssumption, Zenon
<1>1. /\ adm[a].pc = "idle" /\ live' = live \cup {q} /\ redis' = redis /\ spent' = spent
  BY Zenon DEF Create, Begin
<1>2. PICK row \in NewRows :
        /\ plan' = [plan EXCEPT ![q] = [row EXCEPT
                      !.last = IF row.period = "none" THEN Null ELSE clock]]
        /\ adm' = IF row.unlimited
                  THEN IF q \in Entities
                       THEN SetTarget(a, q, ToRedis(Sentinel, row.unit), TRUE)
                       ELSE adm
                  ELSE SetTarget(a, q, ToRedis(row.quota, row.unit), TRUE)
  BY Zenon DEF Create
<1>3. /\ plan'[q].quota = row.quota /\ plan'[q].unlimited = row.unlimited /\ plan'[q].unit = row.unit
      /\ \A p \in Plans \ {q} : plan'[p] = plan[p]
  BY <1>0, <1>2 DEF Rows
<1>4. Full(plan'[q]) = ToRedis(row.quota, row.unit)
  BY <1>3, Zenon DEF Full
<1>5. /\ adm'[a].pc \notin {"idle", "del"} => adm'[a].p = q /\ RequestKnows(adm'[a], plan'[q], spent'[q], redis'[q])
      /\ adm'[a].pc # "del"
      /\ ~plan'[q].unlimited => adm'[a].pc # "idle" /\ adm'[a].p = q
  <2>1. CASE row.unlimited /\ q \notin Entities
    <3>1. adm' = adm
      BY <1>2, <2>1, Zenon
    <3> QED
      BY <1>1, <1>3, <2>1, <3>1, Zenon
  <2>2. CASE row.unlimited /\ q \in Entities
    <3>1. adm' = SetTarget(a, q, ToRedis(Sentinel, row.unit), TRUE)
      BY <1>2, <2>2, Zenon
    <3>2. adm'[a].pc = "get" /\ adm'[a].p = q
      BY <1>0, <3>1, TargetSet, Zenon
    <3> QED
      BY <1>3, <2>2, <3>2, Zenon DEF RequestKnows
  <2>3. CASE ~row.unlimited
    <3>1. adm' = SetTarget(a, q, Full(plan'[q]), TRUE)
      BY <1>2, <1>4, <2>3, Zenon
    <3>2. adm'[a].pc = "get" /\ adm'[a].p = q /\ adm'[a].target = Full(plan'[q]) /\ adm'[a].full = TRUE
      BY <1>0, <3>1, TargetSet, Zenon
    <3> QED
      BY <3>2, Zenon DEF RequestKnows
  <2> QED
    BY <2>1, <2>2, <2>3, Zenon
<1>6. q \in live' /\ \A p \in Plans \ {q} : p \in live' => p \in live
  BY <1>1, Zenon
<1> QED
  BY <1>1, <1>3, <1>5, <1>6, Elsewhere, Zenon

LEMMA DeleteBalance ==
  ASSUME OneRequest, TypeOK, BalanceInv, NEW a \in Admins, NEW q \in Plans, Delete(a, q)
  PROVE  BalanceInv'
<1>0. adm \in [Admins -> AdmStates]
  BY Known, Zenon
<1>1. /\ adm[a].pc = "idle" /\ live' = live \ {q} /\ plan' = plan /\ redis' = redis /\ spent' = spent
      /\ adm' = [adm EXCEPT ![a].pc = "del", ![a].p = q]
  BY Zenon DEF Delete, Begin, histories
<1>2. adm'[a].pc = "del" /\ adm'[a].p = q
  BY <1>0, <1>1 DEF AdmStates
<1>3. q \notin live' /\ \A p \in Plans : p \in live' => p \in live
  BY <1>1, Zenon
<1>4. adm'[a].pc \notin {"idle", "del"} => FALSE
  BY <1>2, Zenon
<1> QED
  BY <1>1, <1>2, <1>3, <1>4, Elsewhere, Zenon

LEMMA ResetBalanceBalance ==
  ASSUME OneRequest, TypeOK, BalanceInv, NEW a \in Admins, NEW q \in Plans, ResetBalance(a, q)
  PROVE  BalanceInv'
<1>0. adm \in [Admins -> AdmStates] /\ plan \in [Plans -> Rows]
  BY Known, Zenon
<1>1. /\ adm[a].pc = "idle" /\ q \in live /\ live' = live /\ redis' = redis /\ spent' = spent
  BY Zenon DEF ResetBalance, Begin, histories
<1> PICK field \in ResetQuotas :
        /\ plan' = [plan EXCEPT ![q].quota = Given(field, plan[q].quota)]
        /\ adm' = SetTarget(a, q, ToRedis(Given(field, plan[q].quota), plan[q].unit), TRUE)
  BY Zenon DEF ResetBalance
<1> DEFINE quota == Given(field, plan[q].quota)
<1>2. /\ plan' = [plan EXCEPT ![q].quota = quota]
      /\ adm' = SetTarget(a, q, ToRedis(quota, plan[q].unit), TRUE)
  OBVIOUS
<1> HIDE DEF quota
<1>3. /\ plan'[q].quota = quota /\ plan'[q].unit = plan[q].unit
      /\ \A p \in Plans \ {q} : plan'[p] = plan[p]
  BY <1>0, <1>2 DEF Rows
<1>4. Full(plan'[q]) = ToRedis(quota, plan[q].unit)
  BY <1>3, Zenon DEF Full
<1>5. adm' = SetTarget(a, q, Full(plan'[q]), TRUE)
  BY <1>2, <1>4, Zenon
<1>6. adm'[a].pc = "get" /\ adm'[a].p = q /\ adm'[a].target = Full(plan'[q]) /\ adm'[a].full = TRUE
  BY <1>0, <1>5, TargetSet, Zenon
<1>7. RequestKnows(adm'[a], plan'[q], spent'[q], redis'[q])
  BY <1>6, Zenon DEF RequestKnows
<1> QED
  BY <1>1, <1>3, <1>6, <1>7, Elsewhere, Zenon

LEMMA UpdateBalance ==
  ASSUME OneRequest, TypeOK, BalanceInv, NEW a \in Admins, NEW q \in Plans, Update(a, q)
  PROVE  BalanceInv'
<1>0. adm \in [Admins -> AdmStates]
  BY Known, Zenon
<1>1. /\ adm[a].pc = "idle" /\ q \in live /\ live' = live /\ plan' = plan
      /\ redis' = redis /\ spent' = spent
  BY Zenon DEF Update, Begin, histories
<1>2. PICK body \in Changes :
        adm' = [adm EXCEPT ![a].pc = "update", ![a].p = q, ![a].body = body, ![a].old = plan[q]]
  BY Zenon DEF Update
<1>3. adm'[a].pc = "update" /\ adm'[a].p = q /\ adm'[a].old = plan[q]
  BY <1>0, <1>2 DEF AdmStates
<1>4. Admins = {a}
  BY Zenon DEF OneRequest
<1>5. Settled(q)
  BY <1>1, <1>4, Zenon DEF Settled
<1>6. ~plan[q].unlimited => Within(plan[q], spent[q], redis[q])
  BY <1>1, <1>5, Zenon DEF BalanceInv
<1>7. RequestKnows(adm'[a], plan[q], spent[q], redis[q])
  BY <1>3, <1>6, Zenon DEF RequestKnows
<1> QED
  BY <1>1, <1>3, <1>7, Elsewhere, Zenon

LEMMA BalanceNext ==
  ASSUME NoScheduler, OneRequest, RedisAnswers, TypeOK, BalanceInv, [Next]_vars
  PROVE  BalanceInv'
<1>1. ASSUME NEW a \in Admins, AdminStep(a) PROVE BalanceInv'
  BY <1>1, DeleteKeyBalance, SaveBalance, ApplyBalance, BatchBalance, GetBalance, IncrBalance,
     Zenon DEF AdminStep
<1>2. ASSUME NEW a \in Admins, NEW p \in Plans, AdminStart(a, p) PROVE BalanceInv'
  BY <1>2, CreateBalance, DeleteBalance, ResetBalanceBalance, UpdateBalance, Zenon DEF AdminStart
<1>3. ASSUME NEW a \in Admins PROVE ~AdminRedisFail(a)
  BY Zenon DEF AdminRedisFail, Fault, RedisAnswers
<1>4. ASSUME LockExpire \/ NextDay \/ UNCHANGED vars PROVE BalanceInv'
  <2>1. adm' = adm /\ live' = live /\ plan' = plan /\ redis' = redis /\ spent' = spent
    BY <1>4, Zenon DEF LockExpire, NextDay, vars, histories
  <2> QED
    BY <2>1, Zenon DEF BalanceInv, Settled
<1>5. ~ \E r \in Runs : RunStep(r) \/ RunFault(r)
  BY Zenon DEF NoScheduler
<1> QED
  BY <1>1, <1>2, <1>3, <1>4, <1>5, SpendBalance, Zenon DEF Next

\* While management requests do not overlap, Redis answers them and no periodic reset
\* runs beside them, a limited plan that nobody works on has at most its quota left and
\* at least its quota less what was spent since its last full grant, whatever the
\* gateway spends between the reads and the INCRBY of adjustQuota and SetRemaining.
THEOREM BalancesKept ==
  ASSUME NoScheduler, OneRequest, RedisAnswers
  PROVE  Spec => []BalanceWithinGrant
<1>1. Init => TypeOK /\ BalanceInv
  BY TypeInit, BalanceInit, Zenon
<1>2. TypeOK /\ BalanceInv /\ [Next]_vars => (TypeOK /\ BalanceInv)'
  BY TypeNext, BalanceNext, Zenon
<1>3. BalanceInv => BalanceWithinGrant
  BY Zenon DEF BalanceInv, BalanceWithinGrant, Limited, Granted, Within, Full
<1> QED
  BY <1>1, <1>2, <1>3, PTL DEF Spec
=============================================================================
