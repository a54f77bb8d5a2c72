-------------------------- MODULE ReportJobProofs ---------------------------
(***************************************************************************)
(* Theorems about ReportJob, for any instances, logs, lengths of a minute  *)
(* and a day, retention, number of cycles and failed statements.           *)
(***************************************************************************)
EXTENDS ReportJob, FiniteSetTheorems, WellFoundedInduction, TLAPS

-----------------------------------------------------------------------------
(* Days and minutes. *)

\* A set of natural numbers that is not empty has a least element.
LEMMA LeastNat ==
  ASSUME NEW T \in SUBSET Nat, T # {}
  PROVE  \E x \in T : \A y \in T : x <= y
<1>1. \E x \in T : \A y \in T : ~ (<<y, x>> \in OpToRel(<, Nat))
  BY WFMin, NatLessThanWellFounded, Zenon
<1>2. PICK x \in T : \A y \in T : ~ (y < x)
  BY <1>1, Zenon DEF OpToRel
<1> QED
  BY <1>2

\* Multiples of a length lie that far apart.
LEMMA Multiples ==
  ASSUME NEW d \in Nat \ {0}, NEW q \in Int
  PROVE  /\ q * d \in Int /\ (q * d) % d = 0
         /\ \A r \in Int : q < r => q * d + d <= r * d
  OBVIOUS

\* Days pass as the clock does (civilDay).
LEMMA Days ==
  /\ \A t \in Nat : DayOf(t) \in Nat
  /\ \A t, u \in Int : t <= u => DayOf(t) <= DayOf(u)
  /\ \A t \in Int : DayOf(t) \in Int
<1>1. Day \in Nat \ {0}
  BY ReportJobAssumption
<1>2. ASSUME NEW t \in Nat PROVE t \div Day \in Nat
  BY <1>1
<1>3. ASSUME NEW t \in Int, NEW u \in Int, t <= u PROVE t \div Day <= u \div Day
  BY <1>1, <1>3
<1>4. ASSUME NEW t \in Int PROVE t \div Day \in Int
  BY <1>1
<1> QED
  BY <1>2, <1>3, <1>4, Zenon DEF DayOf

\* The retained days only move on.
LEMMA Cutoffs ==
  ASSUME NEW t \in Nat, NEW u \in Nat, t <= u
  PROVE  /\ retentionCutoff(t) \in Int /\ retentionCutoff(u) \in Int
         /\ retentionCutoff(t) <= retentionCutoff(u)
         /\ RetentionDays > 0 => retentionCutoff(t) <= DayOf(t)
<1>1. DayOf(t) \in Nat /\ DayOf(u) \in Nat /\ DayOf(t) <= DayOf(u) /\ RetentionDays \in Nat
  BY Days, ReportJobAssumption
<1> QED
  BY <1>1 DEF retentionCutoff

\* The last full minute has ended, and starts on a minute.
LEMMA LastMinute ==
  ASSUME NEW t \in Nat
  PROVE  LET w == Truncate(t) - Minute
         IN  w \in Int /\ w % Minute = 0 /\ w + Minute <= t
<1> DEFINE q == t \div Minute
<1>1. Minute \in Nat \ {0}
  BY ReportQueryAssumption
<1>2. q \in Int /\ q * Minute \in Int /\ q * Minute <= t
  BY <1>1
<1> HIDE DEF q
<1>3. q * Minute - Minute = (q - 1) * Minute
  BY <1>1, <1>2
<1>4. ((q - 1) * Minute) % Minute = 0
  BY <1>1, <1>2, Multiples
<1>5. Truncate(t) = q * Minute
  BY Zenon DEF Truncate, q
<1> QED
  BY <1>1, <1>2, <1>3, <1>4, <1>5

\* A time is truncated to the minute that contains it.
LEMMA InMinute ==
  ASSUME NEW t \in Nat, NEW ts \in Int, ts % Minute = 0
  PROVE  ts <= t /\ t < ts + Minute => Truncate(t) = ts
<1> DEFINE q == t \div Minute
           s == ts \div Minute
<1>1. Minute \in Nat \ {0}
  BY ReportQueryAssumption
<1>2. q \in Int /\ q * Minute \in Int /\ q * Minute <= t /\ t < q * Minute + Minute
  BY <1>1
<1>3. s \in Int /\ ts = s * Minute
  BY <1>1
<1>4. Truncate(t) = q * Minute
  BY Zenon DEF Truncate
<1> HIDE DEF q, s
<1>5. (q < s => q * Minute + Minute <= s * Minute) /\ (s < q => s * Minute + Minute <= q * Minute)
  BY <1>1, <1>2, <1>3, Multiples
<1> QED
  BY <1>1, <1>2, <1>3, <1>4, <1>5

-----------------------------------------------------------------------------
(* The inductive invariant. *)

\* The aggregate loop works on a minute that has ended.
AggRec(a) ==
  \/ a = Idle
  \/ /\ DOMAIN a = {"pc", "window"} /\ a.pc \in {"lock", "locked"}
     /\ a.window \in Int /\ a.window % Minute = 0 /\ a.window + Minute <= now

\* The partition loop drops what had expired when it read the clock.
PartRec(p) ==
  \/ p = Idle
  \/ /\ p.pc \in {"list", "purge", "alter"} /\ p.table \in {1, 2} /\ p.at \in Nat /\ p.at <= now
     /\ p.pc = "purge" => RetentionDays > 0
     /\ p.pc = "alter" =>
          /\ DOMAIN p = {"pc", "at", "table", "adds", "drops"}
          /\ p.adds \in SUBSET Nat /\ p.drops \in SUBSET Nat
          /\ \A x \in p.drops : RetentionDays > 0 /\ x <= retentionCutoff(p.at)

DetailOK == IsFiniteSet(detail) /\ \A r \in detail : r.time \in Nat /\ r.written \in Nat /\ r.time <= r.written

\* Only minutes that have ended are aggregated.
MetricsOK ==
  \A m \in metrics : /\ m.ts \in Int /\ m.ts % Minute = 0 /\ m.ts + Minute <= now
                     /\ m.request_count \in Nat \ {0}

LoopsOK ==
  /\ agg = [i \in Instances |-> agg[i]] /\ \A i \in Instances : AggRec(agg[i])
  /\ part = [i \in Instances |-> part[i]] /\ \A i \in Instances : PartRec(part[i])

JobShape ==
  /\ now \in Nat /\ covered \in Nat /\ DetailOK /\ MetricsOK /\ LoopsOK
  /\ parts \in [{"detail", "metrics"} -> SUBSET Nat]

-----------------------------------------------------------------------------
(* The aggregate of a window. *)

\* A window that is the same gives the same rows.
LEMMA SameWindow ==
  ASSUME NEW D, NEW E, NEW ts, \A r : r \in Window(D, ts) <=> r \in Window(E, ts)
  PROVE  Aggregate(D, ts) = Aggregate(E, ts)
<1>1. Window(D, ts) = Window(E, ts)
  BY Zenon
<1> QED
  BY <1>1, Zenon DEF Aggregate

\* A row is of its window and counts at least one log.
LEMMA AggregateRows ==
  ASSUME NEW D, IsFiniteSet(D), NEW ts, NEW m \in Aggregate(D, ts)
  PROVE  m.ts = ts /\ m.request_count \in Nat \ {0}
<1> DEFINE window == Window(D, ts)
           Group(k) == {r \in window : GroupKey(r) = k}
<1>1. m \in Grouped(window, ts)
  BY Zenon DEF Aggregate
<1>2. window \in SUBSET D
  BY Zenon DEF Window
<1> HIDE DEF window
<1>3. PICK k \in {GroupKey(r) : r \in window} :
        m = [ts |-> ts, dim |-> k.dim, err |-> k.err, reject |-> k.reject, currency |-> k.currency,
             request_count |-> Cardinality(Group(k)),
             error_count |-> Cardinality({r \in Group(k) : r.err \notin {"", Null}}),
             auth_reject_count |-> Cardinality({r \in Group(k) : r.reject # ""}),
             rate_limit_hits |-> Cardinality({r \in Group(k) : r.limited}),
             sum |-> [c \in Counters |-> SumOf(Group(k), c)]]
  BY <1>1, Zenon DEF Grouped
<1>4. PICK r \in window : k = GroupKey(r)
  BY <1>3, Zenon
<1>5. Group(k) \in SUBSET D /\ r \in Group(k)
  BY <1>2, <1>4, Zenon
<1>6. m.ts = ts /\ m.request_count = Cardinality(Group(k))
  BY <1>3, Zenon
<1> HIDE DEF Group
<1>7. IsFiniteSet(Group(k)) /\ Group(k) # {}
  BY <1>5, FS_Subset, Zenon
<1>8. Cardinality(Group(k)) \in Nat /\ Cardinality(Group(k)) # 0
  BY <1>7, FS_CardinalityType, FS_EmptySet, Zenon
<1> QED
  BY <1>6, <1>8, Zenon

-----------------------------------------------------------------------------
(* The shape of the tables and the loops is kept. *)

\* A loop takes a step at a time the other loops do not notice.
LEMMA OneLoop ==
  ASSUME JobShape, now' = now
  PROVE  /\ UNCHANGED <<agg, part>> => LoopsOK'
         /\ \A i \in Instances : \A a : AggRec(a) /\ agg' = [agg EXCEPT ![i] = a] /\ part' = part => LoopsOK'
         /\ \A i \in Instances : \A p : PartRec(p) /\ part' = [part EXCEPT ![i] = p] /\ agg' = agg => LoopsOK'
<1>0. LoopsOK
  BY Zenon DEF JobShape
<1>1. \A a : AggRec(a) => AggRec(a)'
  BY Zenon DEF AggRec
<1>2. \A p : PartRec(p) => PartRec(p)'
  BY Zenon DEF PartRec
<1>3. ASSUME NEW i \in Instances, NEW a, AggRec(a), agg' = [agg EXCEPT ![i] = a], part' = part
      PROVE  LoopsOK'
  <2>1. /\ agg' = [j \in Instances |-> agg'[j]]
        /\ \A j \in Instances : agg'[j] = a \/ agg'[j] = agg[j]
    BY <1>0, <1>3, Zenon DEF LoopsOK
  <2> QED
    BY <1>0, <1>1, <1>2, <1>3, <2>1, Zenon DEF LoopsOK
<1>4. ASSUME NEW i \in Instances, NEW p, PartRec(p), part' = [part EXCEPT ![i] = p], agg' = agg
      PROVE  LoopsOK'
  <2>1. /\ part' = [j \in Instances |-> part'[j]]
        /\ \A j \in Instances : part'[j] = p \/ part'[j] = part[j]
    BY <1>0, <1>4, Zenon DEF LoopsOK
  <2> QED
    BY <1>0, <1>1, <1>2, <1>4, <2>1, Zenon DEF LoopsOK
<1>5. ASSUME UNCHANGED <<agg, part>> PROVE LoopsOK'
  BY <1>0, <1>1, <1>2, <1>5, Zenon DEF LoopsOK
<1> QED
  BY <1>3, <1>4, <1>5, Zenon

\* Fewer rows keep their shape, and the clock only makes more minutes end.
LEMMA FewerRows ==
  ASSUME JobShape, now' \in Nat, now <= now'
  PROVE  /\ detail' \subseteq detail => DetailOK'
         /\ metrics' \subseteq metrics => MetricsOK'
<1>1. ASSUME detail' \subseteq detail PROVE DetailOK'
  BY <1>1, FS_Subset, Zenon DEF JobShape, DetailOK
<1>2. ASSUME metrics' \subseteq metrics PROVE MetricsOK'
  <2>1. \A m \in metrics : m.ts \in Int /\ m.ts + Minute <= now => m.ts + Minute <= now'
    BY ReportQueryAssumption DEF JobShape
  <2> QED
    BY <1>2, <2>1, Zenon DEF JobShape, MetricsOK
<1> QED
  BY <1>1, <1>2, Zenon

\* The clock ticks.
LEMMA TickShape ==
  ASSUME JobShape, Tick
  PROVE  JobShape'
<1>1. now \in Nat /\ now' \in Nat /\ now <= now'
  BY DEF Tick, JobShape
<1>2. \A a : AggRec(a) => AggRec(a)'
  <2>1. \A x \in Int : x + Minute <= now => x + Minute <= now'
    BY <1>1, ReportQueryAssumption
  <2> QED
    BY <2>1, Zenon DEF AggRec
<1>3. \A p : PartRec(p) => PartRec(p)'
  <2>1. \A x \in Nat : x <= now => x <= now'
    BY <1>1
  <2> QED
    BY <2>1, Zenon DEF PartRec
<1>4. LoopsOK'
  BY <1>2, <1>3, Zenon DEF Tick, JobShape, LoopsOK
<1>5. DetailOK' /\ MetricsOK'
  BY <1>1, FewerRows, Zenon DEF Tick
<1> QED
  BY <1>1, <1>4, <1>5, Zenon DEF JobShape, Tick

\* log-reader writes a log, perhaps late.
LEMMA WriteLogShape ==
  ASSUME JobShape, NEW r \in LogRows, WriteLog(r)
  PROVE  JobShape'
<1>1. PICK late \in 0..MaxLate : late <= now /\ detail' = detail \cup {Stamped(r, now - late)}
  BY Zenon DEF WriteLog
<1>2. UNCHANGED <<now, metrics, parts, agg, part, covered>>
  BY Zenon DEF WriteLog
<1> DEFINE x == Stamped(r, now - late)
<1>3. x.time = now - late /\ x.written = now
  BY DEF Stamped
<1> HIDE DEF x
<1>4. x.time \in Nat /\ x.written \in Nat /\ x.time <= x.written
  BY <1>1, <1>3 DEF JobShape
<1>5. IsFiniteSet(detail')
  BY <1>1, FS_AddElement, Zenon DEF JobShape, DetailOK, x
<1>6. DetailOK'
  BY <1>1, <1>4, <1>5, Zenon DEF JobShape, DetailOK, x
<1>7. LoopsOK' /\ MetricsOK'
  BY <1>2, OneLoop, Zenon DEF JobShape, MetricsOK
<1> QED
  BY <1>2, <1>6, <1>7, Zenon DEF JobShape

\* RunAggregateOnce takes the minute before the running one.
LEMMA AggStartShape ==
  ASSUME JobShape, NEW i \in Instances, AggStart(i)
  PROVE  JobShape'
<1> DEFINE a == [pc |-> "lock", window |-> Truncate(now) - Minute]
<1>1. /\ agg' = [agg EXCEPT ![i] = a]
      /\ UNCHANGED <<now, detail, metrics, parts, part, covered>>
  BY Zenon DEF AggStart
<1>2. AggRec(a)
  <2>1. LET w == Truncate(now) - Minute IN w \in Int /\ w % Minute = 0 /\ w + Minute <= now
    BY LastMinute DEF JobShape
  <2>2. DOMAIN a = {"pc", "window"} /\ a.pc = "lock" /\ a.window = Truncate(now) - Minute
    OBVIOUS
  <2> HIDE DEF a
  <2> QED
    BY <2>1, <2>2, Zenon DEF AggRec
<1> HIDE DEF a
<1>3. LoopsOK'
  BY <1>1, <1>2, OneLoop, Zenon
<1> QED
  BY <1>1, <1>3, Zenon DEF JobShape, DetailOK, MetricsOK

\* GET_LOCK of the aggregate loop succeeds or not.
LEMMA AggLockShape ==
  ASSUME JobShape, NEW i \in Instances, AggLock(i)
  PROVE  JobShape'
<1> DEFINE a == [agg[i] EXCEPT !.pc = "locked"]
<1>1. UNCHANGED <<now, detail, metrics, parts, part, covered>>
  BY Zenon DEF AggLock
<1>2. agg' = [agg EXCEPT ![i] = a] \/ agg' = [agg EXCEPT ![i] = Idle]
  BY Zenon DEF AggLock
<1>3. AggRec(a)
  <2>1. AggRec(agg[i]) /\ agg[i].pc = "lock"
    BY Zenon DEF JobShape, LoopsOK, AggLock
  <2>2. agg[i] # Idle
    BY <2>1 DEF Idle
  <2>3. DOMAIN a = {"pc", "window"} /\ a.pc = "locked" /\ a.window = agg[i].window
    BY <2>1, <2>2 DEF AggRec
  <2> HIDE DEF a
  <2> QED
    BY <2>1, <2>2, <2>3, Zenon DEF AggRec
<1>4. AggRec(Idle)
  BY Zenon DEF AggRec
<1> HIDE DEF a
<1>5. LoopsOK'
  BY <1>1, <1>2, <1>3, <1>4, OneLoop, Zenon
<1> QED
  BY <1>1, <1>5, Zenon DEF JobShape, DetailOK, MetricsOK

\* A statement of the aggregate fails.
LEMMA AggFailsShape ==
  ASSUME JobShape, NEW i \in Instances, AggFails(i)
  PROVE  JobShape'
<1>1. agg' = [agg EXCEPT ![i] = Idle] /\ UNCHANGED <<now, detail, metrics, parts, part, covered>>
  BY Zenon DEF AggFails
<1>2. AggRec(Idle)
  BY Zenon DEF AggRec
<1>3. LoopsOK'
  BY <1>1, <1>2, OneLoop, Zenon
<1> QED
  BY <1>1, <1>3, Zenon DEF JobShape, DetailOK, MetricsOK

\* A cycle that is past its GET_LOCK has a window.
LEMMA Locked ==
  ASSUME JobShape, NEW i \in Instances, agg[i].pc = "locked"
  PROVE  agg[i].window \in Int /\ agg[i].window % Minute = 0 /\ agg[i].window + Minute <= now
<1>1. agg[i] # Idle
  BY DEF Idle
<1> QED
  BY <1>1, Zenon DEF JobShape, LoopsOK, AggRec

\* The rows of the window are replaced, or all are left.
LEMMA Replaced ==
  ASSUME JobShape, NEW i \in Instances, AggReplace(i), NEW m \in metrics'
  PROVE  \/ m \in metrics
         \/ m \in Aggregate(detail, agg[i].window) /\ m.ts = agg[i].window /\ m.request_count \in Nat \ {0}
<1>1. m \in metrics \/ m \in Aggregate(detail, agg[i].window)
  BY Zenon DEF AggReplace
<1> QED
  BY <1>1, AggregateRows, Zenon DEF JobShape, DetailOK

\* DELETE and INSERT SELECT of a window that has ended.
LEMMA AggReplaceShape ==
  ASSUME JobShape, NEW i \in Instances, AggReplace(i)
  PROVE  JobShape'
<1>1. agg' = [agg EXCEPT ![i] = Idle] /\ UNCHANGED <<now, detail, parts, part, covered>>
  BY Zenon DEF AggReplace
<1>2. AggRec(Idle)
  BY Zenon DEF AggRec
<1>3. LoopsOK'
  BY <1>1, <1>2, OneLoop, Zenon
<1>4. agg[i].pc = "locked"
  BY Zenon DEF AggReplace
<1>5. MetricsOK'
  BY <1>1, <1>4, Replaced, Locked, Zenon DEF JobShape, MetricsOK
<1> QED
  BY <1>1, <1>3, <1>5, Zenon DEF JobShape, DetailOK

-----------------------------------------------------------------------------
(* The partition loop. *)

\* A cycle that runs has read the clock and works on one of the two tables.
LEMMA Running ==
  ASSUME JobShape, NEW i \in Instances, part[i].pc # "idle"
  PROVE  /\ part[i].pc \in {"list", "purge", "alter"} /\ part[i].table \in {1, 2}
         /\ part[i].at \in Nat /\ part[i].at <= now
         /\ part[i].pc = "purge" => RetentionDays > 0
         /\ part[i].pc = "alter" =>
              /\ DOMAIN part[i] = {"pc", "at", "table", "adds", "drops"}
              /\ part[i].adds \in SUBSET Nat /\ part[i].drops \in SUBSET Nat
              /\ \A x \in part[i].drops : RetentionDays > 0 /\ x <= retentionCutoff(part[i].at)
<1>1. part[i] # Idle
  BY DEF Idle
<1> QED
  BY <1>1, Zenon DEF JobShape, LoopsOK, PartRec

\* A partition cycle reads the clock under its lock.
LEMMA PartLockShape ==
  ASSUME JobShape, NEW i \in Instances, PartLock(i)
  PROVE  JobShape'
<1> DEFINE p == [pc |-> "list", at |-> now, table |-> 1]
<1>1. UNCHANGED <<now, detail, metrics, parts, agg, covered>>
  BY Zenon DEF PartLock
<1>2. part' = part \/ part' = [part EXCEPT ![i] = p]
  BY Zenon DEF PartLock
<1>3. PartRec(p)
  <2>1. p.pc = "list" /\ p.at = now /\ p.table = 1
    OBVIOUS
  <2> HIDE DEF p
  <2>2. p.pc # "purge" /\ p.pc # "alter" /\ now <= now
    BY <2>1 DEF JobShape
  <2> QED
    BY <2>1, <2>2, Zenon DEF JobShape, PartRec
<1> HIDE DEF p
<1>4. LoopsOK'
  BY <1>1, <1>2, <1>3, OneLoop, Zenon
<1> QED
  BY <1>1, <1>4, Zenon DEF JobShape, DetailOK, MetricsOK

\* The cycle goes on to the next table, or ends.
LEMMA NextTableShape ==
  ASSUME JobShape, NEW i \in Instances, part[i].pc # "idle", NextTable(i), UNCHANGED <<now, agg>>
  PROVE  LoopsOK' /\ covered' \in Nat
<1> DEFINE p == [pc |-> "list", at |-> part[i].at, table |-> part[i].table + 1]
<1>0. part = [j \in Instances |-> part[j]]
  BY Zenon DEF JobShape, LoopsOK
<1>1. CASE part[i].table < Len(Tables)
  <2>1. part' = [part EXCEPT ![i] = p] /\ covered' = covered
    BY <1>0, <1>1 DEF NextTable
  <2>2. p.pc = "list" /\ p.at = part[i].at /\ p.table = part[i].table + 1
    OBVIOUS
  <2> HIDE DEF p
  <2>3. p.table \in {1, 2}
    BY <1>1, <2>2, Running DEF Tables
  <2>4. p.pc # "purge" /\ p.pc # "alter"
    BY <2>2
  <2>5. PartRec(p)
    BY <2>2, <2>3, <2>4, Running, Zenon DEF PartRec
  <2> QED
    BY <2>1, <2>5, OneLoop, Zenon DEF JobShape
<1>2. CASE ~(part[i].table < Len(Tables))
  <2>1. part' = [part EXCEPT ![i] = Idle] /\ covered' = DayOf(part[i].at)
    BY <1>2, Zenon DEF NextTable
  <2>2. PartRec(Idle)
    BY Zenon DEF PartRec
  <2> QED
    BY <2>1, <2>2, OneLoop, Running, Days, Zenon
<1> QED
  BY <1>1, <1>2, Zenon

\* The days a cycle adds, and what it drops.
LEMMA Plans ==
  ASSUME NEW t \in Nat, NEW ps \in SUBSET Nat
  PROVE  /\ planPartitionAdds(t, ps) \in SUBSET Nat
         /\ planPartitionDrops(t, ps) \in SUBSET ps
         /\ \A x \in planPartitionDrops(t, ps) : RetentionDays > 0 /\ x <= retentionCutoff(t)
<1>1. DayOf(t) \in Nat /\ RetentionDays \in Nat
  BY Days, ReportJobAssumption, Zenon
<1>2. planPartitionAdds(t, ps) \in SUBSET Nat
  BY <1>1, ReportJobAssumption DEF planPartitionAdds
<1>3. CASE RetentionDays <= 0
  BY <1>2, <1>3, Zenon DEF planPartitionDrops
<1>4. CASE ~(RetentionDays <= 0)
  <2>1. RetentionDays > 0
    BY <1>1, <1>4
  <2> QED
    BY <1>2, <2>1, Zenon DEF planPartitionDrops
<1> QED
  BY <1>3, <1>4, Zenon

\* The tables have their partitions.
LEMMA PartsOfTable ==
  ASSUME JobShape, NEW i \in Instances, part[i].pc # "idle"
  PROVE  /\ Tables[part[i].table] \in {"detail", "metrics"}
         /\ parts[Tables[part[i].table]] \in SUBSET Nat
<1>1. Tables[part[i].table] \in {"detail", "metrics"}
  BY Running DEF Tables
<1> QED
  BY <1>1, Zenon DEF JobShape

\* The plans are made from one list of partitions.
LEMMA PartListShape ==
  ASSUME JobShape, NEW i \in Instances, PartList(i)
  PROVE  JobShape'
<1> DEFINE ps == parts[Tables[part[i].table]]
           p == [pc |-> IF ps = {} THEN "purge" ELSE "alter", at |-> part[i].at, table |-> part[i].table,
                 adds |-> planPartitionAdds(part[i].at, ps), drops |-> planPartitionDrops(part[i].at, ps)]
<1>0. part = [j \in Instances |-> part[j]]
  BY Zenon DEF JobShape, LoopsOK
<1>1. part[i].pc # "idle" /\ UNCHANGED <<now, detail, metrics, parts, agg>>
  BY DEF PartList
<1>2. ps \in SUBSET Nat
  BY <1>1, PartsOfTable, Zenon
<1>3. CASE ps = {} /\ RetentionDays <= 0
  <2>1. NextTable(i)
    BY <1>3, Zenon DEF PartList
  <2> QED
    BY <1>1, <2>1, NextTableShape, Zenon DEF JobShape, DetailOK, MetricsOK
<1>4. CASE ~(ps = {} /\ RetentionDays <= 0)
  <2>1. part' = [part EXCEPT ![i] = p] /\ covered' = covered
    BY <1>0, <1>4, Zenon DEF PartList
  <2>2. /\ p.pc = (IF ps = {} THEN "purge" ELSE "alter") /\ p.at = part[i].at /\ p.table = part[i].table
        /\ p.adds = planPartitionAdds(part[i].at, ps) /\ p.drops = planPartitionDrops(part[i].at, ps)
        /\ DOMAIN p = {"pc", "at", "table", "adds", "drops"}
    BY Zenon
  <2>3. p.adds \in SUBSET Nat /\ p.drops \in SUBSET Nat
        /\ \A x \in p.drops : RetentionDays > 0 /\ x <= retentionCutoff(p.at)
    <3> HIDE DEF p, ps
    <3>1. part[i].at \in Nat
      BY <1>1, Running, Zenon
    <3>2. /\ planPartitionAdds(part[i].at, ps) \in SUBSET Nat
          /\ planPartitionDrops(part[i].at, ps) \in SUBSET ps
          /\ \A x \in planPartitionDrops(part[i].at, ps) :
                RetentionDays > 0 /\ x <= retentionCutoff(part[i].at)
      BY <1>2, <3>1, Plans, Zenon
    <3> QED
      BY <1>2, <2>2, <3>2, Zenon
  <2> HIDE DEF p
  <2>4. p.pc \in {"purge", "alter"} /\ (p.pc = "purge" => RetentionDays > 0)
    BY <1>4, <2>2, ReportJobAssumption
  <2>5. PartRec(p)
    BY <1>1, <2>2, <2>3, <2>4, Running, Zenon DEF PartRec
  <2> QED
    BY <1>1, <2>1, <2>5, OneLoop, Zenon DEF JobShape, DetailOK, MetricsOK
<1> QED
  BY <1>3, <1>4, Zenon

\* The least of what is to be added or dropped is one of them.
LEMMA LeastOf ==
  ASSUME NEW T \in SUBSET Nat, T # {}
  PROVE  (CHOOSE x \in T : \A y \in T : x <= y) \in T
  BY LeastNat, Zenon

\* ADD PARTITION.
LEMMA PartAddShape ==
  ASSUME JobShape, NEW i \in Instances, PartAdd(i)
  PROVE  JobShape'
<1> DEFINE d == CHOOSE x \in part[i].adds : \A y \in part[i].adds : x <= y
           table == Tables[part[i].table]
           p == [part[i] EXCEPT !.adds = part[i].adds \ {d}]
<1>0. part = [j \in Instances |-> part[j]]
  BY Zenon DEF JobShape, LoopsOK
<1>1. /\ part[i].pc = "alter" /\ part[i].adds # {}
      /\ parts' = [parts EXCEPT ![table] = parts[table] \cup {d + 1}]
      /\ part' = [part EXCEPT ![i] = p]
      /\ UNCHANGED <<now, detail, metrics, agg, covered>>
  BY Zenon DEF PartAdd
<1>2. part[i].adds \in SUBSET Nat
  BY <1>1, Running
<1>3. d \in Nat
  BY <1>1, <1>2, LeastOf, Zenon
<1> HIDE DEF d
<1>4. /\ DOMAIN p = {"pc", "at", "table", "adds", "drops"} /\ p.pc = "alter" /\ p.at = part[i].at
      /\ p.table = part[i].table /\ p.drops = part[i].drops /\ p.adds = part[i].adds \ {d}
  <2>1. DOMAIN part[i] = {"pc", "at", "table", "adds", "drops"}
    BY <1>1, Running
  <2> QED
    BY <1>1, <2>1
<1> HIDE DEF p
<1>5. PartRec(p)
  <2>1. p.adds \in SUBSET Nat /\ p.pc # "purge"
    BY <1>2, <1>4
  <2>2. part[i].pc # "idle"
    BY <1>1
  <2> QED
    BY <1>1, <1>4, <2>1, <2>2, Running, Zenon DEF PartRec
<1>6. LoopsOK'
  BY <1>1, <1>5, OneLoop, Zenon
<1>7. parts' \in [{"detail", "metrics"} -> SUBSET Nat]
  <2>1. parts[table] \cup {d + 1} \in SUBSET Nat
    <3>1. parts[table] \in SUBSET Nat
      BY <1>1, PartsOfTable
    <3> HIDE DEF table
    <3> QED
      BY <1>3, <3>1
  <2> HIDE DEF table
  <2> QED
    BY <1>1, <2>1 DEF JobShape
<1> QED
  BY <1>1, <1>6, <1>7, Zenon DEF JobShape, DetailOK, MetricsOK

\* A DROP PARTITION drops a planned partition, and takes rows of it only.
LEMMA Dropped ==
  ASSUME JobShape, NEW i \in Instances, PartDrop(i)
  PROVE  /\ part[i].pc = "alter" /\ part[i].adds = {}
         /\ \E p \in part[i].drops :
              /\ parts' = [parts EXCEPT ![Tables[part[i].table]] = parts[Tables[part[i].table]] \ {p}]
              /\ part' = [part EXCEPT ![i] = [part[i] EXCEPT !.drops = part[i].drops \ {p}]]
              /\ detail' \subseteq detail /\ metrics' \subseteq metrics
              /\ \A r \in detail \ detail' : p > DayOf(r.time)
              /\ \A r \in metrics \ metrics' : p > DayOf(r.ts)
<1> DEFINE table == Tables[part[i].table]
           p == CHOOSE x \in part[i].drops : \A y \in part[i].drops : x <= y
           Kept(rows) == {r \in rows : PartitionOf(parts[table], DayOf(TimeOf(table, r))) # {p}}
<1>1. /\ part[i].pc = "alter" /\ part[i].adds = {} /\ part[i].drops # {}
      /\ parts' = [parts EXCEPT ![table] = parts[table] \ {p}]
      /\ part' = [part EXCEPT ![i] = [part[i] EXCEPT !.drops = part[i].drops \ {p}]]
      /\ detail' = IF table = "detail" THEN Kept(detail) ELSE detail
      /\ metrics' = IF table = "metrics" THEN Kept(metrics) ELSE metrics
  BY Zenon DEF PartDrop
<1>2. p \in part[i].drops
  <2>1. part[i].drops \in SUBSET Nat
    BY <1>1, Running
  <2> QED
    BY <1>1, <2>1, LeastOf, Zenon
<1> HIDE DEF p, table
<1>3. \A d : PartitionOf(parts[table], d) = {p} => p > d
  BY Zenon DEF PartitionOf
<1>4. detail' \subseteq detail /\ metrics' \subseteq metrics
  BY <1>1, Zenon
<1>5. ASSUME NEW r \in detail \ detail' PROVE p > DayOf(r.time)
  <2>1. table = "detail" /\ PartitionOf(parts[table], DayOf(TimeOf(table, r))) = {p}
    BY <1>1, <1>5, Zenon
  <2> QED
    BY <1>3, <2>1, Zenon DEF TimeOf
<1>6. ASSUME NEW r \in metrics \ metrics' PROVE p > DayOf(r.ts)
  <2>1. table = "metrics" /\ PartitionOf(parts[table], DayOf(TimeOf(table, r))) = {p}
    BY <1>1, <1>6, Zenon
  <2>2. table # "detail"
    BY <2>1
  <2> QED
    BY <1>3, <2>1, <2>2, Zenon DEF TimeOf
<1> QED
  BY <1>1, <1>2, <1>4, <1>5, <1>6, Zenon DEF table

\* DROP PARTITION.
LEMMA PartDropShape ==
  ASSUME JobShape, NEW i \in Instances, PartDrop(i)
  PROVE  JobShape'
<1> DEFINE table == Tables[part[i].table]
<1>1. UNCHANGED <<now, agg, covered>>
  BY Zenon DEF PartDrop
<1>2. PICK p \in part[i].drops :
        /\ parts' = [parts EXCEPT ![table] = parts[table] \ {p}]
        /\ part' = [part EXCEPT ![i] = [part[i] EXCEPT !.drops = part[i].drops \ {p}]]
        /\ detail' \subseteq detail /\ metrics' \subseteq metrics
        /\ part[i].pc = "alter"
  BY Dropped, Zenon
<1> DEFINE q == [part[i] EXCEPT !.drops = part[i].drops \ {p}]
<1>3. /\ DOMAIN q = {"pc", "at", "table", "adds", "drops"} /\ q.pc = "alter" /\ q.at = part[i].at
      /\ q.table = part[i].table /\ q.adds = part[i].adds /\ q.drops = part[i].drops \ {p}
  <2>1. DOMAIN part[i] = {"pc", "at", "table", "adds", "drops"}
    BY <1>2, Running
  <2> QED
    BY <1>2, <2>1
<1>4. part' = [part EXCEPT ![i] = q]
  BY <1>2, Zenon
<1> HIDE DEF q, table
<1>5. PartRec(q)
  <2>1. part[i].pc # "idle" /\ q.pc # "purge"
    BY <1>2, <1>3
  <2>2. /\ part[i].adds \in SUBSET Nat /\ part[i].drops \in SUBSET Nat
        /\ \A x \in part[i].drops : RetentionDays > 0 /\ x <= retentionCutoff(part[i].at)
    BY <1>2, <2>1, Running, Zenon
  <2>3. q.adds \in SUBSET Nat /\ q.drops \in SUBSET Nat
        /\ \A x \in q.drops : RetentionDays > 0 /\ x <= retentionCutoff(q.at)
    BY <1>3, <2>2, Zenon
  <2> QED
    BY <1>3, <2>1, <2>3, Running, Zenon DEF PartRec
<1>6. LoopsOK'
  BY <1>1, <1>4, <1>5, OneLoop, Zenon
<1>7. parts' \in [{"detail", "metrics"} -> SUBSET Nat]
  BY <1>2 DEF JobShape
<1>8. DetailOK' /\ MetricsOK'
  <2>1. now' \in Nat /\ now <= now'
    BY <1>1 DEF JobShape
  <2> QED
    BY <1>2, <2>1, FewerRows, Zenon
<1> QED
  BY <1>1, <1>6, <1>7, <1>8, Zenon DEF JobShape

\* All planned statements are done.
LEMMA PartAlteredShape ==
  ASSUME JobShape, NEW i \in Instances, PartAltered(i)
  PROVE  JobShape'
<1>1. part[i].pc # "idle" /\ NextTable(i) /\ UNCHANGED <<now, detail, metrics, parts, agg>>
  BY DEF PartAltered
<1> QED
  BY <1>1, NextTableShape, Zenon DEF JobShape, DetailOK, MetricsOK

\* A batch of a purge takes expired rows only, or there are none left.
LEMMA Purged ==
  ASSUME JobShape, NEW i \in Instances, PartPurge(i)
  PROVE  /\ part[i].pc = "purge"
         /\ detail' \subseteq detail /\ metrics' \subseteq metrics
         /\ \A r \in detail \ detail' : DayOf(r.time) < retentionCutoff(part[i].at)
         /\ \A r \in metrics \ metrics' : DayOf(r.ts) < retentionCutoff(part[i].at)
         /\ NextTable(i) \/ UNCHANGED <<lock, part, covered>>
<1> DEFINE table == Tables[part[i].table]
           old == {r \in RowsOf(table) : DayOf(TimeOf(table, r)) < retentionCutoff(part[i].at)}
<1>1. part[i].pc = "purge"
  BY Zenon DEF PartPurge
<1>2. CASE old = {}
  BY <1>1, <1>2, Zenon DEF PartPurge
<1>3. CASE old # {}
  <2>1. PICK batch \in SUBSET old :
          /\ detail' = IF table = "detail" THEN detail \ batch ELSE detail
          /\ metrics' = IF table = "metrics" THEN metrics \ batch ELSE metrics
    BY <1>3, Zenon DEF PartPurge
  <2>2. UNCHANGED <<lock, part, covered>>
    BY <1>3, Zenon DEF PartPurge
  <2>3. ASSUME NEW r \in detail \ detail' PROVE DayOf(r.time) < retentionCutoff(part[i].at)
    <3>1. table = "detail" /\ r \in old
      BY <2>1, <2>3, Zenon
    <3> QED
      BY <3>1, Zenon DEF TimeOf
  <2>4. ASSUME NEW r \in metrics \ metrics' PROVE DayOf(r.ts) < retentionCutoff(part[i].at)
    <3>1. table = "metrics" /\ r \in old
      BY <2>1, <2>4, Zenon
    <3>2. table # "detail"
      BY <3>1
    <3> QED
      BY <3>1, <3>2, Zenon DEF TimeOf
  <2>5. detail' \subseteq detail /\ metrics' \subseteq metrics
    BY <2>1, Zenon
  <2> QED
    BY <1>1, <2>2, <2>3, <2>4, <2>5, Zenon
<1> QED
  BY <1>2, <1>3, Zenon

\* A batch of a purge.
LEMMA PartPurgeShape ==
  ASSUME JobShape, NEW i \in Instances, PartPurge(i)
  PROVE  JobShape'
<1>1. UNCHANGED <<now, parts, agg>>
  BY Zenon DEF PartPurge
<1>2. DetailOK' /\ MetricsOK'
  <2>1. now' \in Nat /\ now <= now'
    BY <1>1 DEF JobShape
  <2> QED
    BY <2>1, Purged, FewerRows, Zenon
<1>3. part[i].pc # "idle"
  BY Purged
<1>4. LoopsOK' /\ covered' \in Nat
  BY <1>1, <1>3, Purged, NextTableShape, OneLoop, Zenon DEF JobShape
<1> QED
  BY <1>1, <1>2, <1>4, Zenon DEF JobShape

\* A statement of the partition cycle fails.
LEMMA PartFailsShape ==
  ASSUME JobShape, NEW i \in Instances, PartFails(i)
  PROVE  JobShape'
<1>1. part' = [part EXCEPT ![i] = Idle] /\ UNCHANGED <<now, detail, metrics, parts, agg, covered>>
  BY Zenon DEF PartFails
<1>2. PartRec(Idle)
  BY Zenon DEF PartRec
<1>3. LoopsOK'
  BY <1>1, <1>2, OneLoop, Zenon
<1> QED
  BY <1>1, <1>3, Zenon DEF JobShape, DetailOK, MetricsOK

\* The tables are empty and the loops idle at first.
LEMMA ShapeStarts == Init => JobShape
<1> SUFFICES ASSUME Init PROVE JobShape
  OBVIOUS
<1>1. now \in Nat /\ covered \in Nat
  BY ReportJobAssumption DEF Init
<1>2. DetailOK /\ MetricsOK
  BY FS_EmptySet, Zenon DEF Init, DetailOK, MetricsOK
<1>3. LoopsOK
  BY Zenon DEF Init, LoopsOK, AggRec, PartRec
<1>4. parts \in [{"detail", "metrics"} -> SUBSET Nat]
  BY ReportJobAssumption DEF Init
<1> QED
  BY <1>1, <1>2, <1>3, <1>4, Zenon DEF JobShape

\* Every step keeps the shape.
LEMMA ShapeStep == JobShape /\ [Next]_vars => JobShape'
<1> SUFFICES ASSUME JobShape, [Next]_vars PROVE JobShape'
  OBVIOUS
<1>1. CASE UNCHANGED vars
  <2>1. UNCHANGED <<now, detail, metrics, parts, agg, part, covered>>
    BY <1>1, Zenon DEF vars
  <2> QED
    BY <2>1, OneLoop, Zenon DEF JobShape, DetailOK, MetricsOK
<1>2. CASE Tick
  BY <1>2, TickShape, Zenon
<1>3. ASSUME NEW r \in LogRows, WriteLog(r) PROVE JobShape'
  BY <1>3, WriteLogShape, Zenon
<1>4. ASSUME NEW i \in Instances, AggStart(i) \/ AggLock(i) \/ AggReplace(i) \/ AggFails(i)
      PROVE  JobShape'
  BY <1>4, AggStartShape, AggLockShape, AggReplaceShape, AggFailsShape, Zenon
<1>5. ASSUME NEW i \in Instances,
             \/ PartLock(i) \/ PartList(i) \/ PartAdd(i) \/ PartDrop(i) \/ PartAltered(i)
             \/ PartPurge(i) \/ PartFails(i)
      PROVE  JobShape'
  BY <1>5, PartLockShape, PartListShape, PartAddShape, PartDropShape, PartAlteredShape,
     PartPurgeShape, PartFailsShape, Zenon
<1> QED
  BY <1>1, <1>2, <1>3, <1>4, <1>5, Zenon DEF Next

-----------------------------------------------------------------------------
(* Rows leave the tables by retention only. *)

DetailLeaves == \A r \in detail \ detail' : RetentionDays > 0 /\ DayOf(r.time) < retentionCutoff(now)
MetricsExpire ==
  /\ metrics' \subseteq metrics
  /\ \A r \in metrics \ metrics' : RetentionDays > 0 /\ DayOf(r.ts) < retentionCutoff(now)

Leaving == DetailLeaves /\ (MetricsExpire \/ \E i \in Instances : AggReplace(i))

\* A drop or a purge removes expired rows; the aggregate replaces those of its window.
LEMMA RowsLeave ==
  ASSUME JobShape, [Next]_vars
  PROVE  Leaving
<1>0. (\A r \in detail : r.time \in Int) /\ (\A r \in metrics : r.ts \in Int)
  BY DEF JobShape, DetailOK, MetricsOK
<1>1. CASE UNCHANGED <<detail, metrics>>
  BY <1>1, Zenon DEF Leaving, DetailLeaves, MetricsExpire
<1>2. ASSUME NEW r \in LogRows, WriteLog(r) PROVE Leaving
  BY <1>2, Zenon DEF WriteLog, Leaving, DetailLeaves, MetricsExpire
<1>3. ASSUME NEW i \in Instances, AggReplace(i) PROVE Leaving
  BY <1>3, Zenon DEF AggReplace, Leaving, DetailLeaves
<1>4. ASSUME NEW i \in Instances, PartDrop(i) PROVE Leaving
  <2>1. PICK p \in part[i].drops :
          /\ part[i].pc = "alter" /\ metrics' \subseteq metrics
          /\ \A r \in detail \ detail' : p > DayOf(r.time)
          /\ \A r \in metrics \ metrics' : p > DayOf(r.ts)
    BY <1>4, Dropped, Zenon
  <2>2. part[i].pc # "idle"
    BY <2>1
  <2>3. /\ part[i].at \in Nat /\ part[i].at <= now /\ p \in Nat
        /\ RetentionDays > 0 /\ p <= retentionCutoff(part[i].at)
    BY <2>1, <2>2, Running, Zenon
  <2>4. p <= retentionCutoff(now) /\ retentionCutoff(now) \in Int
    BY <2>3, Cutoffs DEF JobShape
  <2>5. \A t \in Int : p > DayOf(t) => DayOf(t) < retentionCutoff(now)
    BY <2>3, <2>4, Days
  <2> QED
    BY <1>0, <2>1, <2>3, <2>5, Zenon DEF Leaving, DetailLeaves, MetricsExpire
<1>5. ASSUME NEW i \in Instances, PartPurge(i) PROVE Leaving
  <2>1. /\ part[i].pc = "purge" /\ metrics' \subseteq metrics
        /\ \A r \in detail \ detail' : DayOf(r.time) < retentionCutoff(part[i].at)
        /\ \A r \in metrics \ metrics' : DayOf(r.ts) < retentionCutoff(part[i].at)
    BY <1>5, Purged, Zenon
  <2>2. part[i].pc # "idle"
    BY <2>1
  <2>3. part[i].at \in Nat /\ part[i].at <= now /\ RetentionDays > 0
    BY <2>1, <2>2, Running, Zenon
  <2>4. /\ retentionCutoff(part[i].at) <= retentionCutoff(now)
        /\ retentionCutoff(now) \in Int /\ retentionCutoff(part[i].at) \in Int
    BY <2>3, Cutoffs DEF JobShape
  <2>5. \A t \in Int : DayOf(t) < retentionCutoff(part[i].at) => DayOf(t) < retentionCutoff(now)
    BY <2>4, Days
  <2> QED
    BY <1>0, <2>1, <2>3, <2>5, Zenon DEF Leaving, DetailLeaves, MetricsExpire
<1>6. CASE Tick
  BY <1>1, <1>6, Zenon DEF Tick
<1>7. ASSUME NEW i \in Instances,
             \/ AggStart(i) \/ AggLock(i) \/ AggFails(i)
             \/ PartLock(i) \/ PartList(i) \/ PartAdd(i) \/ PartAltered(i) \/ PartFails(i)
      PROVE  Leaving
  BY <1>1, <1>7, Zenon DEF AggStart, AggLock, AggFails, PartLock, PartList, PartAdd, PartAltered, PartFails
<1>8. CASE UNCHANGED vars
  BY <1>1, <1>8, Zenon DEF vars
<1> QED
  BY <1>2, <1>3, <1>4, <1>5, <1>6, <1>7, <1>8, Zenon DEF Next

\* planPartitionDrops and purgeBatches remove no row of the retained days, though a
\* cycle works with the clock and the partitions it read at its start, days without a
\* cycle leave their rows to a later partition, and any statement may fail.
THEOREM RowsLeaveByRetention == Spec => RetentionKept
<1>1. \A i \in Instances : AggReplace(i) =>
        agg[i].pc = "locked" /\ \A r \in metrics \ metrics' : agg[i].window = r.ts
  BY Zenon DEF AggReplace
<1>2. JobShape /\ [Next]_vars =>
        [/\ \A r \in detail \ detail' : RetentionDays > 0 /\ DayOf(r.time) < retentionCutoff(now)
         /\ \A r \in metrics \ metrics' :
              \/ RetentionDays > 0 /\ DayOf(r.ts) < retentionCutoff(now)
              \/ \E i \in Instances : agg[i].pc = "locked" /\ agg[i].window = r.ts]_vars
  BY <1>1, RowsLeave, Zenon DEF Leaving, DetailLeaves, MetricsExpire
<1> QED
  BY <1>2, ShapeStarts, ShapeStep, PTL DEF Spec, RetentionKept

-----------------------------------------------------------------------------
(* An aggregated minute shows its logs. *)

\* A log that is added is written now.
LEMMA Written ==
  ASSUME [Next]_vars, NEW r \in detail', r \notin detail
  PROVE  r.written = now
<1>1. ASSUME NEW x \in LogRows, WriteLog(x) PROVE r.written = now
  <2>1. \E t : r = Stamped(x, t)
    BY <1>1, Zenon DEF WriteLog
  <2> QED
    BY <2>1 DEF Stamped
<1>2. CASE Tick
  BY <1>2, Zenon DEF Tick
<1>3. CASE UNCHANGED vars
  BY <1>3, Zenon DEF vars
<1>4. ASSUME NEW i \in Instances, AggStart(i) \/ AggLock(i) \/ AggReplace(i) \/ AggFails(i)
      PROVE  FALSE
  BY <1>4, Zenon DEF AggStart, AggLock, AggReplace, AggFails
<1>5. ASSUME NEW i \in Instances,
             \/ PartLock(i) \/ PartList(i) \/ PartAdd(i) \/ PartAltered(i) \/ PartFails(i)
      PROVE  FALSE
  BY <1>5, Zenon DEF PartLock, PartList, PartAdd, PartAltered, PartFails
<1>6. ASSUME NEW i \in Instances, PartDrop(i) PROVE FALSE
  BY <1>6, Zenon DEF PartDrop
<1>7. ASSUME NEW i \in Instances, PartPurge(i) PROVE FALSE
  BY <1>7, Zenon DEF PartPurge
<1> QED
  BY <1>1, <1>2, <1>3, <1>4, <1>5, <1>6, <1>7, Zenon DEF Next

\* The logs of a minute that has ended, has no late log and is retained stay the same.
LEMMA MinuteStays ==
  ASSUME JobShape, JobShape', [Next]_vars, NEW ts \in Int, ts % Minute = 0, ts + Minute <= now,
         OnTime(ts)', DayOf(ts) >= retentionCutoff(now)
  PROVE  OnTime(ts) /\ Aggregate(detail, ts) = Aggregate(detail', ts)
<1>0. Minute \in Nat \ {0} /\ now \in Nat /\ retentionCutoff(now) \in Int
  BY ReportQueryAssumption, Cutoffs DEF JobShape
<1>1. ASSUME NEW r \in detail, ts <= r.time PROVE r \in detail'
  <2>1. r.time \in Int
    BY DEF JobShape, DetailOK
  <2>2. DayOf(ts) <= DayOf(r.time) /\ DayOf(ts) \in Int /\ DayOf(r.time) \in Int
    BY <1>1, <2>1, Days, Zenon
  <2>3. ~(DayOf(r.time) < retentionCutoff(now))
    BY <1>0, <2>2
  <2> QED
    BY <2>3, RowsLeave, Zenon DEF Leaving, DetailLeaves
<1>2. ASSUME NEW r \in detail', r.time < ts + Minute, ts <= r.time PROVE r \in detail
  <2>1. r.time \in Nat
    BY DEF JobShape, DetailOK
  <2>2. Truncate(r.time) = ts
    BY <1>2, <2>1, InMinute
  <2>3. r.written < ts + Minute
    BY <2>2, Zenon DEF OnTime
  <2>4. r.written # now
    BY <1>0, <2>3
  <2> QED
    BY <2>4, Written, Zenon
<1>3. OnTime(ts)
  <2> SUFFICES ASSUME NEW r \in detail, Truncate(r.time) = ts PROVE r.written < ts + Minute
    BY Zenon DEF OnTime
  <2>1. r.time \in Nat
    BY DEF JobShape, DetailOK
  <2>2. Truncate(r.time) <= r.time
    BY <1>0, <2>1 DEF Truncate
  <2> QED
    BY <1>1, <2>2, Zenon DEF OnTime
<1>4. \A r : r \in Window(detail, ts) <=> r \in Window(detail', ts)
  BY <1>1, <1>2, Zenon DEF Window
<1> QED
  BY <1>3, <1>4, SameWindow, Zenon

\* The clock does not go back.
LEMMA Clock ==
  ASSUME JobShape, [Next]_vars
  PROVE  now <= now' /\ (now' # now => metrics' = metrics)
<1>0. now \in Nat
  BY DEF JobShape
<1>1. CASE Tick
  BY <1>0, <1>1 DEF Tick
<1>2. CASE UNCHANGED now
  BY <1>0, <1>2
<1>3. CASE UNCHANGED vars
  BY <1>2, <1>3, Zenon DEF vars
<1>4. ASSUME NEW r \in LogRows, WriteLog(r) PROVE UNCHANGED now
  BY <1>4, Zenon DEF WriteLog
<1>5. ASSUME NEW i \in Instances, AggStart(i) \/ AggLock(i) \/ AggReplace(i) \/ AggFails(i)
      PROVE  UNCHANGED now
  BY <1>5, Zenon DEF AggStart, AggLock, AggReplace, AggFails
<1>6. ASSUME NEW i \in Instances,
             \/ PartLock(i) \/ PartList(i) \/ PartAdd(i) \/ PartDrop(i) \/ PartAltered(i)
             \/ PartPurge(i) \/ PartFails(i)
      PROVE  UNCHANGED now
  BY <1>6, Zenon DEF PartLock, PartList, PartAdd, PartDrop, PartAltered, PartPurge, PartFails
<1> QED
  BY <1>1, <1>2, <1>3, <1>4, <1>5, <1>6, Zenon DEF Next

\* Every step keeps the aggregated minutes exact.
LEMMA ExactStep ==
  ASSUME JobShape, JobShape', AggregatedMinuteExact, [Next]_vars
  PROVE  AggregatedMinuteExact'
<1> SUFFICES ASSUME NEW ts, ts \in {m.ts : m \in metrics'}, OnTime(ts)',
                    DayOf(ts) >= retentionCutoff(now')
             PROVE  {m \in metrics' : m.ts = ts} = Aggregate(detail', ts)
  BY Zenon DEF AggregatedMinuteExact, DayOf, retentionCutoff, Aggregate, Grouped, Window
<1>0. PICK n \in metrics' : n.ts = ts
  BY Zenon
<1>1. ts \in Int /\ ts % Minute = 0
  BY <1>0, Zenon DEF JobShape, MetricsOK
<1>2. DayOf(ts) >= retentionCutoff(now)
  <2>1. now \in Nat /\ now' \in Nat /\ now <= now'
    BY Clock, Zenon DEF JobShape
  <2> QED
    BY <1>1, <2>1, Cutoffs, Days
<1>3. ASSUME NEW i \in Instances, AggReplace(i), ts = agg[i].window,
             metrics' = {r \in metrics : r.ts # agg[i].window} \cup Aggregate(detail, agg[i].window)
      PROVE  {m \in metrics' : m.ts = ts} = Aggregate(detail', ts)
  <2>1. detail' = detail
    BY <1>3, Zenon DEF AggReplace
  <2>2. \A m \in Aggregate(detail, ts) : m.ts = ts
    BY AggregateRows, Zenon DEF JobShape, DetailOK
  <2> QED
    BY <1>3, <2>1, <2>2, Zenon
<1>4. ASSUME \A m : m \in metrics' /\ m.ts = ts <=> m \in metrics /\ m.ts = ts
      PROVE  {m \in metrics' : m.ts = ts} = Aggregate(detail', ts)
  <2>0. n \in metrics
    BY <1>0, <1>4, Zenon
  <2>1. ts + Minute <= now
    BY <1>0, <2>0, Zenon DEF JobShape, MetricsOK
  <2>3. OnTime(ts) /\ Aggregate(detail, ts) = Aggregate(detail', ts)
    BY <1>1, <1>2, <2>1, MinuteStays, Zenon
  <2>4. {m \in metrics : m.ts = ts} = Aggregate(detail, ts)
    BY <1>0, <1>2, <2>0, <2>3, Zenon DEF AggregatedMinuteExact
  <2> QED
    BY <1>4, <2>3, <2>4, Zenon
<1>5. CASE MetricsExpire
  <2>1. retentionCutoff(now) \in Int
    BY Cutoffs DEF JobShape
  <2>2. ~(DayOf(ts) < retentionCutoff(now))
    BY <1>1, <1>2, <2>1, Days
  <2>3. \A m : m \in metrics' /\ m.ts = ts <=> m \in metrics /\ m.ts = ts
    BY <1>5, <2>2, Zenon DEF MetricsExpire
  <2> QED
    BY <1>4, <2>3, Zenon
<1>6. ASSUME NEW i \in Instances, AggReplace(i)
      PROVE  {m \in metrics' : m.ts = ts} = Aggregate(detail', ts)
  <2> DEFINE w == agg[i].window
  <2>1. \/ metrics' = metrics
        \/ metrics' = {r \in metrics : r.ts # w} \cup Aggregate(detail, w)
    BY <1>6, Zenon DEF AggReplace
  <2>2. \A m \in Aggregate(detail, w) : m.ts = w
    BY AggregateRows, Zenon DEF JobShape, DetailOK
  <2> HIDE DEF w
  <2>3. CASE metrics' = metrics
    BY <1>4, <2>3, Zenon
  <2>4. CASE metrics' = {r \in metrics : r.ts # w} \cup Aggregate(detail, w) /\ ts # w
    <3>1. ASSUME NEW m, m.ts = ts PROVE m \in metrics' <=> m \in metrics
      <4>1. m \in metrics' <=> m \in metrics \/ m \in Aggregate(detail, w)
        BY <2>4, <3>1, Zenon
      <4>2. m \notin Aggregate(detail, w)
        BY <2>2, <2>4, <3>1, Zenon
      <4> QED
        BY <4>1, <4>2, Zenon
    <3> QED
      BY <1>4, <3>1, Zenon
  <2>5. CASE metrics' = {r \in metrics : r.ts # w} \cup Aggregate(detail, w) /\ ts = w
    BY <1>3, <1>6, <2>5, Zenon DEF w
  <2> QED
    BY <2>1, <2>3, <2>4, <2>5, Zenon
<1> QED
  BY <1>5, <1>6, RowsLeave, Zenon DEF Leaving

\* RunAggregateOnce may be run for a minute by several instances, again and again, and
\* fail between its statements: a minute that has aggregate rows, no late log and is
\* retained shows exactly the groups of its logs.
THEOREM MinutesAreExact == Spec => []AggregatedMinuteExact
<1>1. Init => AggregatedMinuteExact
  BY Zenon DEF Init, AggregatedMinuteExact
<1>2. JobShape /\ JobShape' /\ AggregatedMinuteExact /\ [Next]_vars => AggregatedMinuteExact'
  BY ExactStep, Zenon
<1> QED
  BY <1>1, <1>2, ShapeStarts, ShapeStep, PTL DEF Spec

-----------------------------------------------------------------------------
(* The named locks. *)

Aggregating == {i \in Instances : agg[i].pc = "locked"}
Partitioning == {i \in Instances : part[i].pc # "idle"}

\* A lock belongs to the one instance that is past its GET_LOCK, if there is one.
Holds(l, S) == \A i \in Instances : i \in S <=> lock[l] = i

LocksHeld ==
  /\ lock \in [{"report_agg_job", "report_partition_job"} -> Instances \cup {Free}]
  /\ Holds("report_agg_job", Aggregating) /\ Holds("report_partition_job", Partitioning)

\* Nobody else is let in while the lock is held (acquireNamedLock, releaseNamedLock).
LEMMA LockMoves ==
  ASSUME NEW l, NEW S \in SUBSET Instances, NEW T \in SUBSET Instances, Holds(l, S),
         \/ lock'[l] = lock[l] /\ T = S
         \/ \E i \in Instances : lock[l] = Free /\ lock'[l] = i /\ T = S \cup {i}
         \/ \E i \in S : lock'[l] = Free /\ T = S \ {i}
  PROVE  \A i \in Instances : i \in T <=> lock'[l] = i
<1>0. Free \notin Instances
  BY ReportJobAssumption
<1>1. CASE lock'[l] = lock[l] /\ T = S
  BY <1>1, Zenon DEF Holds
<1>2. ASSUME NEW i \in Instances, lock[l] = Free, lock'[l] = i, T = S \cup {i}
      PROVE  \A j \in Instances : j \in T <=> lock'[l] = j
  BY <1>0, <1>2, Zenon DEF Holds
<1>3. ASSUME NEW i \in S, lock'[l] = Free, T = S \ {i}
      PROVE  \A j \in Instances : j \in T <=> lock'[l] = j
  BY <1>0, <1>3, Zenon DEF Holds
<1> QED
  BY <1>1, <1>2, <1>3, Zenon

\* The loop of one instance moves.
LEMMA AggMoves ==
  ASSUME JobShape, NEW i \in Instances, NEW a, agg' = [agg EXCEPT ![i] = a]
  PROVE  Aggregating' = IF a.pc = "locked" THEN Aggregating \cup {i} ELSE Aggregating \ {i}
<1>1. agg'[i] = a /\ \A j \in Instances : j # i => agg'[j] = agg[j]
  BY Zenon DEF JobShape, LoopsOK
<1> QED
  BY <1>1, Zenon DEF Aggregating

\* Likewise for the partition loop.
LEMMA PartMoves ==
  ASSUME JobShape, NEW i \in Instances, NEW p, part' = [part EXCEPT ![i] = p]
  PROVE  Partitioning' = IF p.pc # "idle" THEN Partitioning \cup {i} ELSE Partitioning \ {i}
<1>1. part'[i] = p /\ \A j \in Instances : j # i => part'[j] = part[j]
  BY Zenon DEF JobShape, LoopsOK
<1> QED
  BY <1>1, Zenon DEF Partitioning

\* A step of one of the loops leaves the lock of the other.
LEMMA LocksKept ==
  ASSUME JobShape, LocksHeld
  PROVE  /\ UNCHANGED lock /\ Aggregating' = Aggregating /\ Partitioning' = Partitioning => LocksHeld'
         /\ \A i \in Instances : \A x \in Instances \cup {Free} :
              /\ lock' = [lock EXCEPT !["report_agg_job"] = x] /\ part' = part
              /\ \/ lock["report_agg_job"] = Free /\ x = i /\ Aggregating' = Aggregating \cup {i}
                 \/ i \in Aggregating /\ x = Free /\ Aggregating' = Aggregating \ {i}
              => LocksHeld'
         /\ \A i \in Instances : \A x \in Instances \cup {Free} :
              /\ lock' = [lock EXCEPT !["report_partition_job"] = x] /\ agg' = agg
              /\ \/ lock["report_partition_job"] = Free /\ x = i /\ Partitioning' = Partitioning \cup {i}
                 \/ i \in Partitioning /\ x = Free /\ Partitioning' = Partitioning \ {i}
              => LocksHeld'
<1>0. "report_agg_job" # "report_partition_job"
  OBVIOUS
<1>1. ASSUME UNCHANGED lock, Aggregating' = Aggregating, Partitioning' = Partitioning PROVE LocksHeld'
  BY <1>1, Zenon DEF LocksHeld, Holds
<1>2. Aggregating \in SUBSET Instances /\ Aggregating' \in SUBSET Instances
      /\ Partitioning \in SUBSET Instances /\ Partitioning' \in SUBSET Instances
  BY Zenon DEF Aggregating, Partitioning
<1>3. ASSUME NEW i \in Instances, NEW x \in Instances \cup {Free},
             lock' = [lock EXCEPT !["report_agg_job"] = x], part' = part,
             \/ lock["report_agg_job"] = Free /\ x = i /\ Aggregating' = Aggregating \cup {i}
             \/ i \in Aggregating /\ x = Free /\ Aggregating' = Aggregating \ {i}
      PROVE  LocksHeld'
  <2>1. /\ lock' \in [{"report_agg_job", "report_partition_job"} -> Instances \cup {Free}]
        /\ lock'["report_agg_job"] = x /\ lock'["report_partition_job"] = lock["report_partition_job"]
    BY <1>3 DEF LocksHeld
  <2>2. Partitioning' = Partitioning
    BY <1>3, Zenon DEF Partitioning
  <2>3. Holds("report_agg_job", Aggregating)'
    <3>1. \/ \E j \in Instances : /\ lock["report_agg_job"] = Free /\ lock'["report_agg_job"] = j
                                   /\ Aggregating' = Aggregating \cup {j}
          \/ \E j \in Aggregating : lock'["report_agg_job"] = Free /\ Aggregating' = Aggregating \ {j}
      BY <1>3, <2>1, Zenon
    <3>2. Holds("report_agg_job", Aggregating)
      BY Zenon DEF LocksHeld
    <3>3. \A j \in Instances : j \in Aggregating' <=> lock'["report_agg_job"] = j
      BY <1>2, <3>1, <3>2, LockMoves, Zenon
    <3> QED
      BY <3>3, Zenon DEF Holds
  <2>4. Holds("report_partition_job", Partitioning)'
    BY <1>2, <2>1, <2>2, LockMoves, Zenon DEF LocksHeld, Holds
  <2> QED
    BY <2>1, <2>3, <2>4, Zenon DEF LocksHeld
<1>4. ASSUME NEW i \in Instances, NEW x \in Instances \cup {Free},
             lock' = [lock EXCEPT !["report_partition_job"] = x], agg' = agg,
             \/ lock["report_partition_job"] = Free /\ x = i /\ Partitioning' = Partitioning \cup {i}
             \/ i \in Partitioning /\ x = Free /\ Partitioning' = Partitioning \ {i}
      PROVE  LocksHeld'
  <2>1. /\ lock' \in [{"report_agg_job", "report_partition_job"} -> Instances \cup {Free}]
        /\ lock'["report_partition_job"] = x /\ lock'["report_agg_job"] = lock["report_agg_job"]
    BY <1>4 DEF LocksHeld
  <2>2. Aggregating' = Aggregating
    BY <1>4, Zenon DEF Aggregating
  <2>3. Holds("report_partition_job", Partitioning)'
    <3>1. \/ \E j \in Instances : /\ lock["report_partition_job"] = Free /\ lock'["report_partition_job"] = j
                                   /\ Partitioning' = Partitioning \cup {j}
          \/ \E j \in Partitioning : lock'["report_partition_job"] = Free /\ Partitioning' = Partitioning \ {j}
      BY <1>4, <2>1, Zenon
    <3>2. Holds("report_partition_job", Partitioning)
      BY Zenon DEF LocksHeld
    <3>3. \A j \in Instances : j \in Partitioning' <=> lock'["report_partition_job"] = j
      BY <1>2, <3>1, <3>2, LockMoves, Zenon
    <3> QED
      BY <3>3, Zenon DEF Holds
  <2>4. Holds("report_agg_job", Aggregating)'
    BY <1>2, <2>1, <2>2, LockMoves, Zenon DEF LocksHeld, Holds
  <2> QED
    BY <2>1, <2>3, <2>4, Zenon DEF LocksHeld
<1> QED
  BY <1>1, <1>3, <1>4, Zenon

\* The aggregate loop takes and frees its lock.
LEMMA AggLocks ==
  ASSUME JobShape, LocksHeld, NEW i \in Instances,
         AggStart(i) \/ AggLock(i) \/ AggReplace(i) \/ AggFails(i)
  PROVE  LocksHeld'
<1>0. part' = part /\ Partitioning' = Partitioning
  BY Zenon DEF AggStart, AggLock, AggReplace, AggFails, Partitioning
<1>1. Idle.pc # "locked"
  BY DEF Idle
<1>2. i \in Aggregating <=> agg[i].pc = "locked"
  BY Zenon DEF Aggregating
<1>3. CASE AggStart(i)
  <2> DEFINE a == [pc |-> "lock", window |-> Truncate(now) - Minute]
  <2>1. agg' = [agg EXCEPT ![i] = a] /\ lock' = lock /\ agg[i].pc = "idle"
    BY <1>3, Zenon DEF AggStart
  <2>2. a.pc # "locked" /\ i \notin Aggregating
    BY <1>2, <2>1
  <2> HIDE DEF a
  <2>3. Aggregating' = Aggregating
    BY <2>1, <2>2, AggMoves, Zenon
  <2> QED
    BY <1>0, <2>1, <2>3, LocksKept, Zenon
<1>4. CASE AggLock(i) /\ lock["report_agg_job"] = Free
  <2> DEFINE a == [agg[i] EXCEPT !.pc = "locked"]
  <2>1. agg' = [agg EXCEPT ![i] = a] /\ lock' = [lock EXCEPT !["report_agg_job"] = i]
    BY <1>4, Zenon DEF AggLock
  <2>2. a.pc = "locked"
    <3>1. agg[i].pc = "lock"
      BY <1>4, Zenon DEF AggLock
    <3>2. DOMAIN agg[i] = {"pc", "window"}
      BY <3>1 DEF JobShape, LoopsOK, AggRec, Idle
    <3> QED
      BY <3>2
  <2> HIDE DEF a
  <2>3. Aggregating' = Aggregating \cup {i}
    BY <2>1, <2>2, AggMoves, Zenon
  <2> QED
    BY <1>0, <1>4, <2>1, <2>3, LocksKept, Zenon
<1>5. CASE AggLock(i) /\ lock["report_agg_job"] # Free
  <2>1. agg' = [agg EXCEPT ![i] = Idle] /\ lock' = lock /\ agg[i].pc = "lock"
    BY <1>5, Zenon DEF AggLock
  <2>2. i \notin Aggregating
    BY <1>2, <2>1
  <2>3. Aggregating' = Aggregating
    BY <1>1, <2>1, <2>2, AggMoves, Zenon
  <2> QED
    BY <1>0, <2>1, <2>3, LocksKept, Zenon
<1>6. CASE AggReplace(i)
  <2>1. /\ agg' = [agg EXCEPT ![i] = Idle] /\ lock' = [lock EXCEPT !["report_agg_job"] = Free]
        /\ agg[i].pc = "locked"
    BY <1>6, Zenon DEF AggReplace
  <2>2. Aggregating' = Aggregating \ {i}
    BY <1>1, <2>1, AggMoves, Zenon
  <2> QED
    BY <1>0, <1>2, <2>1, <2>2, LocksKept, Zenon
<1>7. CASE AggFails(i)
  <2>0. /\ agg' = [agg EXCEPT ![i] = Idle]
        /\ lock' = [l \in DOMAIN lock |->
                      IF l = "report_agg_job" /\ agg[i].pc # "lock" THEN Free ELSE lock[l]]
        /\ agg[i].pc \in {"lock", "locked"}
    BY <1>7, Zenon DEF AggFails
  <2>1. Aggregating' = Aggregating \ {i}
    BY <1>1, <2>0, AggMoves, Zenon
  <2>2. CASE agg[i].pc = "lock"
    <3>1. i \notin Aggregating
      BY <1>2, <2>2
    <3>2. lock' = lock
      BY <2>0, <2>2, Zenon DEF LocksHeld
    <3>3. Aggregating' = Aggregating
      BY <2>1, <3>1, Zenon
    <3> QED
      BY <1>0, <3>2, <3>3, LocksKept, Zenon
  <2>3. CASE agg[i].pc = "locked"
    <3>1. agg[i].pc # "lock"
      BY <2>3
    <3>2. lock' = [lock EXCEPT !["report_agg_job"] = Free]
      BY <2>0, <3>1, Zenon DEF LocksHeld
    <3> QED
      BY <1>0, <1>2, <2>1, <2>3, <3>2, LocksKept, Zenon
  <2> QED
    BY <2>0, <2>2, <2>3, Zenon
<1> QED
  BY <1>3, <1>4, <1>5, <1>6, <1>7, Zenon

\* The next table is managed under the same lock; the end of a cycle frees it.
LEMMA NextTableLocks ==
  ASSUME JobShape, LocksHeld, NEW i \in Instances, part[i].pc # "idle", NextTable(i), agg' = agg
  PROVE  LocksHeld'
<1>0. Aggregating' = Aggregating /\ i \in Partitioning
  BY Zenon DEF Aggregating, Partitioning
<1>1. CASE part[i].table < Len(Tables)
  <2> DEFINE p == [pc |-> "list", at |-> part[i].at, table |-> part[i].table + 1]
  <2>1. part' = [part EXCEPT ![i] = p] /\ lock' = lock
    BY <1>1, Zenon DEF NextTable, JobShape, LoopsOK
  <2>2. p.pc # "idle"
    OBVIOUS
  <2> HIDE DEF p
  <2>3. Partitioning' = Partitioning
    <3>1. Partitioning' = Partitioning \cup {i}
      BY <2>1, <2>2, PartMoves, Zenon
    <3> QED
      BY <1>0, <3>1, Zenon
  <2> QED
    BY <1>0, <2>1, <2>3, LocksKept, Zenon
<1>2. CASE ~(part[i].table < Len(Tables))
  <2>1. part' = [part EXCEPT ![i] = Idle] /\ lock' = [lock EXCEPT !["report_partition_job"] = Free]
    BY <1>2, Zenon DEF NextTable
  <2>2. Idle.pc = "idle"
    BY DEF Idle
  <2>3. Partitioning' = Partitioning \ {i}
    BY <2>1, <2>2, PartMoves, Zenon
  <2> QED
    BY <1>0, <2>1, <2>3, LocksKept, Zenon
<1> QED
  BY <1>1, <1>2, Zenon

\* So does the partition loop with its own.
LEMMA PartLocks ==
  ASSUME JobShape, LocksHeld, NEW i \in Instances,
         \/ PartLock(i) \/ PartList(i) \/ PartAdd(i) \/ PartDrop(i) \/ PartAltered(i)
         \/ PartPurge(i) \/ PartFails(i)
  PROVE  LocksHeld'
<1>0. agg' = agg /\ Aggregating' = Aggregating
  BY Zenon DEF PartLock, PartList, PartAdd, PartDrop, PartAltered, PartPurge, PartFails, Aggregating
<1>1. i \in Partitioning <=> part[i].pc # "idle"
  BY Zenon DEF Partitioning
<1>2. CASE PartLock(i)
  <2> DEFINE p == [pc |-> "list", at |-> now, table |-> 1]
  <2>1. \/ /\ lock["report_partition_job"] = Free /\ lock' = [lock EXCEPT !["report_partition_job"] = i]
           /\ part' = [part EXCEPT ![i] = p]
        \/ lock' = lock /\ part' = part
    BY <1>2, Zenon DEF PartLock
  <2>2. p.pc # "idle"
    OBVIOUS
  <2> HIDE DEF p
  <2>3. CASE lock' = lock /\ part' = part
    BY <1>0, <2>3, LocksKept, Zenon DEF Partitioning
  <2>4. ASSUME part' = [part EXCEPT ![i] = p] PROVE Partitioning' = Partitioning \cup {i}
    BY <2>2, <2>4, PartMoves, Zenon
  <2> QED
    BY <1>0, <2>1, <2>3, <2>4, LocksKept, Zenon
<1>3. ASSUME NEW p, part' = [part EXCEPT ![i] = p], p.pc # "idle", part[i].pc # "idle", lock' = lock
      PROVE  LocksHeld'
  <2>1. Partitioning' = Partitioning
    <3>1. Partitioning' = Partitioning \cup {i}
      BY <1>3, PartMoves, Zenon
    <3> QED
      BY <1>1, <1>3, <3>1, Zenon
  <2> QED
    BY <1>0, <1>3, <2>1, LocksKept, Zenon
<1>4. CASE PartList(i)
  <2> DEFINE ps == parts[Tables[part[i].table]]
             p == [pc |-> IF ps = {} THEN "purge" ELSE "alter", at |-> part[i].at, table |-> part[i].table,
                   adds |-> planPartitionAdds(part[i].at, ps), drops |-> planPartitionDrops(part[i].at, ps)]
  <2>1. \/ NextTable(i)
        \/ part' = [part EXCEPT ![i] = p] /\ lock' = lock
    BY <1>4, Zenon DEF PartList, JobShape, LoopsOK
  <2>2. p.pc # "idle"
    OBVIOUS
  <2>3. part[i].pc # "idle"
    BY <1>4 DEF PartList
  <2> HIDE DEF p
  <2> QED
    BY <1>0, <1>3, <2>1, <2>2, <2>3, NextTableLocks, Zenon
<1>5. CASE PartAdd(i)
  <2>1. PICK x : part' = [part EXCEPT ![i] = [part[i] EXCEPT !.adds = x]]
    BY <1>5, Zenon DEF PartAdd
  <2>2. part[i].pc = "alter" /\ lock' = lock
    BY <1>5, Zenon DEF PartAdd
  <2>3. [part[i] EXCEPT !.adds = x].pc # "idle" /\ part[i].pc # "idle"
    <3>1. DOMAIN part[i] = {"pc", "at", "table", "adds", "drops"}
      BY <2>2, Running
    <3> QED
      BY <2>2, <3>1
  <2> QED
    BY <1>3, <2>1, <2>2, <2>3, Zenon
<1>6. CASE PartDrop(i)
  <2>1. PICK x : part' = [part EXCEPT ![i] = [part[i] EXCEPT !.drops = x]]
    BY <1>6, Zenon DEF PartDrop
  <2>2. part[i].pc = "alter" /\ lock' = lock
    BY <1>6, Zenon DEF PartDrop
  <2>3. [part[i] EXCEPT !.drops = x].pc # "idle" /\ part[i].pc # "idle"
    <3>1. DOMAIN part[i] = {"pc", "at", "table", "adds", "drops"}
      BY <2>2, Running
    <3> QED
      BY <2>2, <3>1
  <2> QED
    BY <1>3, <2>1, <2>2, <2>3, Zenon
<1>7. CASE PartAltered(i)
  <2>1. NextTable(i) /\ part[i].pc # "idle"
    BY <1>7 DEF PartAltered
  <2> QED
    BY <1>0, <2>1, NextTableLocks, Zenon
<1>8. CASE PartPurge(i)
  <2>1. part[i].pc # "idle"
    BY <1>8, Purged
  <2> QED
    BY <1>0, <1>8, <2>1, Purged, NextTableLocks, LocksKept, Zenon DEF Partitioning
<1>9. CASE PartFails(i)
  <2>1. /\ part' = [part EXCEPT ![i] = Idle] /\ lock' = [lock EXCEPT !["report_partition_job"] = Free]
        /\ part[i].pc # "idle"
    BY <1>9, Zenon DEF PartFails
  <2>2. Idle.pc = "idle"
    BY DEF Idle
  <2>3. Partitioning' = Partitioning \ {i}
    BY <2>1, <2>2, PartMoves, Zenon
  <2> QED
    BY <1>0, <1>1, <2>1, <2>3, LocksKept, Zenon
<1> QED
  BY <1>2, <1>4, <1>5, <1>6, <1>7, <1>8, <1>9, Zenon

\* The locks are free at first.
LEMMA LocksStart == Init => LocksHeld
<1> SUFFICES ASSUME Init PROVE LocksHeld
  OBVIOUS
<1>1. lock \in [{"report_agg_job", "report_partition_job"} -> Instances \cup {Free}]
  BY Zenon DEF Init
<1>2. lock["report_agg_job"] = Free /\ lock["report_partition_job"] = Free
  BY DEF Init
<1>3. \A i \in Instances : agg[i].pc = "idle" /\ part[i].pc = "idle" /\ i # Free
  BY ReportJobAssumption DEF Init, Idle
<1>4. \A i \in Instances : agg[i].pc # "locked"
  BY <1>3
<1> QED
  BY <1>1, <1>2, <1>3, <1>4, Zenon DEF LocksHeld, Holds, Aggregating, Partitioning

\* Every step keeps the locks with their holders.
LEMMA LocksStep == JobShape /\ LocksHeld /\ [Next]_vars => LocksHeld'
<1> SUFFICES ASSUME JobShape, LocksHeld, [Next]_vars PROVE LocksHeld'
  OBVIOUS
<1>1. CASE UNCHANGED <<agg, part, lock>>
  BY <1>1, LocksKept, Zenon DEF Aggregating, Partitioning
<1>2. CASE UNCHANGED vars
  BY <1>1, <1>2, Zenon DEF vars
<1>3. CASE Tick
  BY <1>1, <1>3, Zenon DEF Tick
<1>4. ASSUME NEW r \in LogRows, WriteLog(r) PROVE LocksHeld'
  BY <1>1, <1>4, Zenon DEF WriteLog
<1> QED
  BY <1>2, <1>3, <1>4, AggLocks, PartLocks, Zenon DEF Next

\* TypeOK for every instance and every failure: a cycle past its GET_LOCK is the holder of
\* the named lock, and only whole minutes with at least one request are aggregated.
THEOREM JobTypes == Spec => []TypeOK
<1>1. JobShape /\ LocksHeld => TypeOK
  <2> SUFFICES ASSUME JobShape, LocksHeld PROVE TypeOK
    OBVIOUS
  <2>1. \A r \in detail : r.time \in Nat /\ r.written >= r.time
    BY DEF JobShape, DetailOK
  <2>2. \A l \in DOMAIN lock : lock[l] \in Instances \cup {Free}
    BY Zenon DEF LocksHeld
  <2>3. \A i \in Instances : /\ agg[i].pc = "locked" <=> lock["report_agg_job"] = i
                             /\ part[i].pc # "idle" <=> lock["report_partition_job"] = i
    BY Zenon DEF LocksHeld, Holds, Aggregating, Partitioning
  <2> QED
    BY <2>1, <2>2, <2>3, Zenon DEF JobShape, MetricsOK, TypeOK
<1> QED
  BY <1>1, ShapeStarts, ShapeStep, LocksStart, LocksStep, PTL DEF Spec

-----------------------------------------------------------------------------
(* Partitions exist for the days ahead. *)

\* Some partition of the table ends on the day or after it.
Reaches(t, day) == t \in Partitioned => \E p \in parts[t] : p >= day

\* A cycle has reached the days ahead in the tables it is done with, will have reached
\* them in the one it works on when its adds are done, and purges no partitioned table.
CycleReaches(i) ==
  LET day == DayOf(part[i].at) + Ahead
      table == Tables[part[i].table]
  IN part[i].pc # "idle" =>
       /\ part[i].table = 2 => Reaches("detail", day)
       /\ part[i].pc = "alter" => (\E p \in parts[table] : p >= day) \/ (\E d \in part[i].adds : d + 1 >= day)
       /\ part[i].pc = "purge" => table \notin Partitioned

CoverInv ==
  /\ \A t \in {"detail", "metrics"} : t \in Partitioned => parts[t] # {}
  /\ \A i \in Instances : CycleReaches(i)
  /\ covered > 0 /\ DayOf(now) < covered + Ahead =>
        \A t \in {"detail", "metrics"} : Reaches(t, covered + Ahead)

\* Only one instance manages the partitions.
LEMMA OnlyOnePartitions ==
  ASSUME LocksHeld, NEW i \in Instances, NEW j \in Instances, part[i].pc # "idle", part[j].pc # "idle"
  PROVE  i = j
  BY Zenon DEF LocksHeld, Holds, Partitioning

\* A partition that reaches a later day than today is the one for today, or a lower one is.
LEMMA Accepted ==
  ASSUME JobShape, NEW t \in {"detail", "metrics"}, NEW day \in Nat, Reaches(t, day), DayOf(now) < day
  PROVE  Accepts(t, now)
<1>1. CASE t \notin Partitioned
  BY <1>1, Zenon DEF Accepts
<1>2. CASE t \in Partitioned
  <2> DEFINE later == {p \in parts[t] : p > DayOf(now)}
  <2>1. parts[t] \in SUBSET Nat /\ DayOf(now) \in Nat
    BY Days, Zenon DEF JobShape
  <2>2. PICK p \in parts[t] : p >= day
    BY <1>2, Zenon DEF Reaches
  <2>3. p > DayOf(now)
    BY <2>1, <2>2
  <2>4. later \in SUBSET Nat /\ later # {}
    BY <2>1, <2>3, Zenon
  <2>5. PICK x \in later : \A y \in later : x <= y
    BY <2>4, LeastNat, Zenon
  <2>6. x \in PartitionOf(parts[t], DayOf(now))
    BY <2>5, Zenon DEF PartitionOf
  <2> QED
    BY <2>6, Zenon DEF Accepts
<1> QED
  BY <1>1, <1>2, Zenon

\* The invariant covers the days ahead.
LEMMA InvCovers == JobShape /\ CoverInv => CoveredAhead
<1> SUFFICES ASSUME JobShape, CoverInv, covered > 0, DayOf(now) < covered + Ahead,
                    NEW t \in {"detail", "metrics"}
             PROVE  Accepts(t, now)
  BY Zenon DEF CoveredAhead
<1>1. covered + Ahead \in Nat
  BY ReportJobAssumption DEF JobShape
<1>2. Reaches(t, covered + Ahead)
  BY Zenon DEF CoverInv
<1> QED
  BY <1>1, <1>2, Accepted, Zenon

\* No cycle is complete at first, and a partitioned table has its first partition.
LEMMA CoverStarts == Init => CoverInv
<1> SUFFICES ASSUME Init PROVE CoverInv
  OBVIOUS
<1>1. \A t \in {"detail", "metrics"} : t \in Partitioned => parts[t] # {}
  BY DEF Init
<1>2. \A i \in Instances : part[i].pc = "idle"
  BY DEF Init, Idle
<1>3. ~(covered > 0)
  BY DEF Init
<1> QED
  BY <1>1, <1>2, <1>3, Zenon DEF CoverInv, CycleReaches

\* A step that leaves the partitions and the loops of the instances.
LEMMA CoverKept ==
  ASSUME JobShape, CoverInv, UNCHANGED <<parts, part, covered>>, now' \in Nat, now <= now'
  PROVE  CoverInv'
<1>1. DayOf(now) \in Nat /\ DayOf(now') \in Nat /\ DayOf(now) <= DayOf(now') /\ covered + Ahead \in Nat
  BY Days, ReportJobAssumption DEF JobShape
<1>2. DayOf(now') < covered + Ahead => DayOf(now) < covered + Ahead
  BY <1>1
<1>3. \A t, day : Reaches(t, day)' <=> Reaches(t, day)
  BY Zenon DEF Reaches
<1>4. \A i \in Instances : CycleReaches(i)'
  BY <1>3, Zenon DEF CoverInv, CycleReaches, Reaches, DayOf
<1>5. covered' > 0 /\ DayOf(now)' < covered' + Ahead =>
        \A t \in {"detail", "metrics"} : Reaches(t, covered + Ahead)'
  BY <1>2, <1>3, Zenon DEF CoverInv, DayOf, Reaches
<1> QED
  BY <1>4, <1>5, Zenon DEF CoverInv

\* A step of one cycle that leaves the partitions.
LEMMA CoverCycle ==
  ASSUME JobShape, CoverInv, NEW i \in Instances, NEW p, part' = [part EXCEPT ![i] = p],
         UNCHANGED <<parts, now>>, CycleReaches(i)',
         \/ covered' = covered
         \/ \A t \in {"detail", "metrics"} : Reaches(t, covered' + Ahead)
  PROVE  CoverInv'
<1>1. \A j \in Instances : j # i => part'[j] = part[j]
  BY Zenon DEF JobShape, LoopsOK
<1>2. \A t, day : Reaches(t, day)' <=> Reaches(t, day)
  BY Zenon DEF Reaches
<1>3. ASSUME NEW j \in Instances PROVE CycleReaches(j)'
  <2>1. CASE j = i
    BY <2>1, Zenon
  <2>2. CASE j # i
    <3>1. part'[j] = part[j] /\ CycleReaches(j)
      BY <1>1, <2>2, Zenon DEF CoverInv
    <3> QED
      BY <3>1, Zenon DEF CycleReaches, Reaches, DayOf
  <2> QED
    BY <2>1, <2>2, Zenon
<1>4. covered' > 0 /\ DayOf(now)' < covered' + Ahead =>
        \A t \in {"detail", "metrics"} : Reaches(t, covered + Ahead)'
  BY Zenon DEF CoverInv, DayOf, Reaches
<1> QED
  BY <1>3, <1>4, Zenon DEF CoverInv

\* The planned days, with the partitions there are, reach the days ahead.
LEMMA PlanReaches ==
  ASSUME NEW t \in Nat, NEW ps \in SUBSET Nat
  PROVE  \/ \E p \in ps : p >= DayOf(t) + Ahead
         \/ \E d \in planPartitionAdds(t, ps) : d + 1 >= DayOf(t) + Ahead
<1>1. DayOf(t) \in Nat /\ Ahead \in Nat \ {0}
  BY Days, ReportJobAssumption
<1> DEFINE last == DayOf(t) + Ahead - 1
<1>2. last \in DayOf(t)..(DayOf(t) + Ahead - 1) /\ last + 1 >= DayOf(t) + Ahead
  BY <1>1
<1>3. \A p \in ps : ~(p >= DayOf(t) + Ahead) => last + 1 > p
  BY <1>1
<1> HIDE DEF last
<1> QED
  BY <1>2, <1>3, Zenon DEF planPartitionAdds

\* When the tables of a cycle are done they reach the days ahead.
LEMMA NextTableCovers ==
  ASSUME JobShape, CoverInv, NEW i \in Instances, part[i].pc # "idle", NextTable(i),
         UNCHANGED <<parts, now>>, Reaches(Tables[part[i].table], DayOf(part[i].at) + Ahead)
  PROVE  CoverInv'
<1>0. part[i].table \in {1, 2} /\ Tables[1] = "detail" /\ Tables[2] = "metrics" /\ Len(Tables) = 2
  BY Running DEF Tables
<1>1. CASE part[i].table = 1
  <2> DEFINE p == [pc |-> "list", at |-> part[i].at, table |-> 2]
  <2>1. part' = [part EXCEPT ![i] = p] /\ covered' = covered
    BY <1>0, <1>1 DEF NextTable, JobShape, LoopsOK
  <2>2. part'[i] = p
    BY <2>1, Zenon DEF JobShape, LoopsOK
  <2>3. p.pc # "alter" /\ p.pc # "purge" /\ p.at = part[i].at
    OBVIOUS
  <2>4. Reaches("detail", DayOf(part[i].at) + Ahead)
    BY <1>0, <1>1, Zenon
  <2> HIDE DEF p
  <2>5. CycleReaches(i)'
    BY <2>2, <2>3, <2>4, Zenon DEF CycleReaches, Reaches, DayOf
  <2> QED
    BY <2>1, <2>5, CoverCycle, Zenon
<1>2. CASE part[i].table = 2
  <2>1. part' = [part EXCEPT ![i] = Idle] /\ covered' = DayOf(part[i].at)
    BY <1>0, <1>2 DEF NextTable
  <2>2. part'[i].pc = "idle"
    BY <2>1 DEF JobShape, LoopsOK, Idle
  <2>3. CycleReaches(i)'
    BY <2>2, Zenon DEF CycleReaches
  <2>4. Reaches("detail", DayOf(part[i].at) + Ahead)
    BY <1>2, Zenon DEF CoverInv, CycleReaches
  <2>5. \A t \in {"detail", "metrics"} : Reaches(t, covered' + Ahead)
    BY <1>0, <1>2, <2>1, <2>4, Zenon
  <2> QED
    BY <2>1, <2>3, <2>5, CoverCycle, Zenon
<1> QED
  BY <1>0, <1>1, <1>2, Zenon

\* A cycle starts with nothing done, and one that fails has nothing left to do.
LEMMA PartLockCovers ==
  ASSUME JobShape, CoverInv, NEW i \in Instances, PartLock(i) \/ PartFails(i)
  PROVE  CoverInv'
<1> DEFINE p == [pc |-> "list", at |-> now, table |-> 1]
<1>1. UNCHANGED <<now, parts, covered>> /\ now' \in Nat /\ now <= now'
  <2>1. UNCHANGED <<now, parts, covered>>
    BY Zenon DEF PartLock, PartFails
  <2> QED
    BY <2>1 DEF JobShape
<1>2. part' = part \/ part' = [part EXCEPT ![i] = p] \/ part' = [part EXCEPT ![i] = Idle]
  BY Zenon DEF PartLock, PartFails
<1>3. CASE part' = part
  BY <1>1, <1>3, CoverKept, Zenon
<1>4. ASSUME NEW q, part' = [part EXCEPT ![i] = q], q.pc \notin {"alter", "purge"},
             q.pc = "idle" \/ q.table # 2
      PROVE  CoverInv'
  <2>1. part'[i] = q
    BY <1>4, Zenon DEF JobShape, LoopsOK
  <2>2. CycleReaches(i)'
    BY <1>4, <2>1 DEF CycleReaches
  <2> QED
    BY <1>1, <1>4, <2>2, CoverCycle, Zenon
<1>5. p.pc \notin {"alter", "purge"} /\ p.table # 2 /\ Idle.pc = "idle" /\ Idle.pc \notin {"alter", "purge"}
  BY DEF Idle
<1> HIDE DEF p
<1> QED
  BY <1>2, <1>3, <1>4, <1>5, Zenon

\* The plan for a table reaches the days ahead.
LEMMA PartListCovers ==
  ASSUME JobShape, CoverInv, NEW i \in Instances, PartList(i)
  PROVE  CoverInv'
<1> DEFINE table == Tables[part[i].table]
           ps == parts[table]
           p == [pc |-> IF ps = {} THEN "purge" ELSE "alter", at |-> part[i].at, table |-> part[i].table,
                 adds |-> planPartitionAdds(part[i].at, ps), drops |-> planPartitionDrops(part[i].at, ps)]
<1>1. part[i].pc # "idle" /\ UNCHANGED <<now, parts>>
  BY DEF PartList
<1>2. ps \in SUBSET Nat /\ table \in {"detail", "metrics"}
  BY <1>1, PartsOfTable, Zenon
<1>3. ps = {} => table \notin Partitioned
  BY <1>2, Zenon DEF CoverInv
<1>4. CASE ps = {} /\ RetentionDays <= 0
  <2>1. NextTable(i)
    BY <1>4, Zenon DEF PartList
  <2>2. Reaches(table, DayOf(part[i].at) + Ahead)
    BY <1>3, <1>4, Zenon DEF Reaches
  <2> QED
    BY <1>1, <2>1, <2>2, NextTableCovers, Zenon
<1>5. CASE ~(ps = {} /\ RetentionDays <= 0)
  <2>1. part' = [part EXCEPT ![i] = p] /\ covered' = covered
    BY <1>5, Zenon DEF PartList, JobShape, LoopsOK
  <2>2. part'[i] = p
    BY <2>1, Zenon DEF JobShape, LoopsOK
  <2>3. /\ p.pc = (IF ps = {} THEN "purge" ELSE "alter") /\ p.at = part[i].at /\ p.table = part[i].table
        /\ p.adds = planPartitionAdds(part[i].at, ps)
    BY Zenon
  <2> HIDE DEF p
  <2>4. \/ \E x \in ps : x >= DayOf(part[i].at) + Ahead
        \/ \E d \in p.adds : d + 1 >= DayOf(part[i].at) + Ahead
    <3>1. part[i].at \in Nat
      BY <1>1, Running, Zenon
    <3> HIDE DEF ps
    <3> QED
      BY <1>2, <2>3, <3>1, PlanReaches, Zenon
  <2>5. p.table = 2 => Reaches("detail", DayOf(part[i].at) + Ahead)
    BY <1>1, <2>3, Zenon DEF CoverInv, CycleReaches
  <2>6. p.pc = "purge" => table \notin Partitioned
    BY <1>3, <2>3
  <2>7. CycleReaches(i)'
    BY <1>1, <2>2, <2>3, <2>4, <2>5, <2>6, Zenon DEF CycleReaches, Reaches, DayOf
  <2> QED
    BY <1>1, <2>1, <2>7, CoverCycle, Zenon
<1> QED
  BY <1>4, <1>5, Zenon

\* With the adds done the table itself reaches them.
LEMMA PartAlteredCovers ==
  ASSUME JobShape, CoverInv, NEW i \in Instances, PartAltered(i)
  PROVE  CoverInv'
<1>1. /\ part[i].pc # "idle" /\ part[i].pc = "alter" /\ part[i].adds = {}
      /\ NextTable(i) /\ UNCHANGED <<now, parts>>
  BY DEF PartAltered
<1>2. Reaches(Tables[part[i].table], DayOf(part[i].at) + Ahead)
  BY <1>1, Zenon DEF CoverInv, CycleReaches, Reaches
<1> QED
  BY <1>1, <1>2, NextTableCovers, Zenon

\* A table that is purged has no partitions to reach them.
LEMMA PartPurgeCovers ==
  ASSUME JobShape, CoverInv, NEW i \in Instances, PartPurge(i)
  PROVE  CoverInv'
<1>1. part[i].pc # "idle" /\ part[i].pc = "purge" /\ (NextTable(i) \/ UNCHANGED <<lock, part, covered>>)
  BY Purged
<1>2. UNCHANGED <<now, parts>> /\ now' \in Nat /\ now <= now'
  <2>1. UNCHANGED <<now, parts>>
    BY Zenon DEF PartPurge
  <2> QED
    BY <2>1 DEF JobShape
<1>3. Reaches(Tables[part[i].table], DayOf(part[i].at) + Ahead)
  BY <1>1, Zenon DEF CoverInv, CycleReaches, Reaches
<1> QED
  BY <1>1, <1>2, <1>3, NextTableCovers, CoverKept, Zenon

\* Adding a planned day: what the plan reached the table reaches.
LEMMA PartAddCovers ==
  ASSUME JobShape, LocksHeld, CoverInv, NEW i \in Instances, PartAdd(i)
  PROVE  CoverInv'
<1> DEFINE d == CHOOSE x \in part[i].adds : \A y \in part[i].adds : x <= y
           table == Tables[part[i].table]
           q == [part[i] EXCEPT !.adds = part[i].adds \ {d}]
           day == DayOf(part[i].at) + Ahead
<1>1. /\ part[i].pc = "alter" /\ part[i].adds # {}
      /\ parts' = [parts EXCEPT ![table] = parts[table] \cup {d + 1}]
      /\ part' = [part EXCEPT ![i] = q]
      /\ UNCHANGED <<now, covered>>
  BY Zenon DEF PartAdd
<1>2. part[i].pc # "idle" /\ DOMAIN part[i] = {"pc", "at", "table", "adds", "drops"}
  BY <1>1, Running
<1>3. part'[i] = q /\ \A j \in Instances : j # i => part'[j] = part[j]
  BY <1>1, Zenon DEF JobShape, LoopsOK
<1>4. q.pc = "alter" /\ q.at = part[i].at /\ q.table = part[i].table /\ q.adds = part[i].adds \ {d}
  BY <1>1, <1>2
<1>5. table \in {"detail", "metrics"}
  BY <1>2, PartsOfTable, Zenon
<1> HIDE DEF d, q, table
<1>6. /\ \A t \in {"detail", "metrics"} : parts[t] \subseteq parts'[t]
      /\ parts'[table] = parts[table] \cup {d + 1}
  BY <1>1, <1>5, Zenon DEF JobShape
<1>8. ASSUME NEW j \in Instances PROVE CycleReaches(j)'
  <2>1. CASE j # i
    <3>1. part'[j].pc = "idle"
      BY <1>2, <1>3, <2>1, OnlyOnePartitions, Zenon
    <3> QED
      BY <3>1, Zenon DEF CycleReaches
  <2>2. CASE j = i
    <3>1. /\ part[i].table = 2 => Reaches("detail", day)
          /\ (\E p \in parts[table] : p >= day) \/ (\E x \in part[i].adds : x + 1 >= day)
      BY <1>1, <1>2, Zenon DEF CoverInv, CycleReaches, table
    <3>2. (\E p \in parts'[table] : p >= day) \/ (\E x \in q.adds : x + 1 >= day)
      <4> HIDE DEF day
      <4> QED
        BY <1>4, <1>6, <3>1, Zenon
    <3>3. q.table = 2 => ("detail" \in Partitioned => \E p \in parts'["detail"] : p >= day)
      <4> HIDE DEF day
      <4> QED
        BY <1>4, <1>6, <3>1, Zenon DEF Reaches
    <3>4. q.pc # "purge"
      BY <1>4
    <3> QED
      BY <1>3, <1>4, <2>2, <3>2, <3>3, <3>4, Zenon DEF CycleReaches, table, DayOf, Reaches
  <2> QED
    BY <2>1, <2>2, Zenon
<1>9. \A t \in {"detail", "metrics"} : t \in Partitioned => parts'[t] # {}
  BY <1>6, Zenon DEF CoverInv
<1>10. covered' > 0 /\ DayOf(now)' < covered' + Ahead =>
         \A t \in {"detail", "metrics"} : Reaches(t, covered + Ahead)'
  BY <1>1, <1>6, Zenon DEF CoverInv, DayOf, Reaches
<1> QED
  BY <1>8, <1>9, <1>10, Zenon DEF CoverInv

\* A drop comes after the adds and takes only boundaries of today or before, so the
\* partitions that reach the days ahead stay.
LEMMA PartDropCovers ==
  ASSUME JobShape, LocksHeld, CoverInv, NEW i \in Instances, PartDrop(i)
  PROVE  CoverInv'
<1> DEFINE table == Tables[part[i].table]
           day == DayOf(part[i].at) + Ahead
<1>1. /\ part[i].pc = "alter" /\ part[i].adds = {} /\ UNCHANGED <<now, covered>>
  BY Zenon DEF PartDrop
<1>2. PICK x \in part[i].drops :
        /\ parts' = [parts EXCEPT ![table] = parts[table] \ {x}]
        /\ part' = [part EXCEPT ![i] = [part[i] EXCEPT !.drops = part[i].drops \ {x}]]
  BY Dropped, Zenon
<1> DEFINE q == [part[i] EXCEPT !.drops = part[i].drops \ {x}]
<1>3. /\ part[i].pc # "idle" /\ DOMAIN part[i] = {"pc", "at", "table", "adds", "drops"}
      /\ part[i].at \in Nat /\ part[i].at <= now
      /\ x \in Nat /\ RetentionDays > 0 /\ x <= retentionCutoff(part[i].at)
  BY <1>1, <1>2, Running
<1>4. part'[i] = q /\ \A j \in Instances : j # i => part'[j] = part[j]
  BY <1>2, Zenon DEF JobShape, LoopsOK
<1>5. q.pc = "alter" /\ q.at = part[i].at /\ q.table = part[i].table /\ q.adds = part[i].adds
  BY <1>1, <1>3
<1>6. table \in {"detail", "metrics"}
  BY <1>3, PartsOfTable, Zenon
<1>7. /\ day \in Nat /\ x < day /\ DayOf(part[i].at) <= DayOf(now)
      /\ DayOf(now) \in Nat /\ x <= DayOf(now)
  <2>1. DayOf(part[i].at) \in Nat /\ DayOf(now) \in Nat /\ DayOf(part[i].at) <= DayOf(now)
    BY <1>3, Days DEF JobShape
  <2>2. x <= DayOf(part[i].at)
    BY <1>3, <2>1, Cutoffs DEF JobShape
  <2> QED
    BY <1>3, <2>1, <2>2, ReportJobAssumption
<1> HIDE DEF q, table, day
<1>8. /\ \A t \in {"detail", "metrics"} : t # table => parts'[t] = parts[t]
      /\ parts'[table] = parts[table] \ {x}
  BY <1>2, <1>6, Zenon DEF JobShape
<1>9. \A t \in {"detail", "metrics"} : \A n \in Nat : x < n /\ Reaches(t, n) => Reaches(t, n)'
  <2>1. \A n \in Nat : x < n => ~(x >= n)
    BY <1>3
  <2> QED
    BY <1>8, <2>1, Zenon DEF Reaches
<1>10. \E p \in parts[table] : p >= day
  BY <1>1, <1>3, Zenon DEF CoverInv, CycleReaches, table, day
<1>11. \E p \in parts'[table] : p >= day
  <2>1. ~(x >= day)
    BY <1>3, <1>7
  <2> QED
    BY <1>8, <1>10, <2>1, Zenon
<1>12. ASSUME NEW j \in Instances PROVE CycleReaches(j)'
  <2>1. CASE j # i
    <3>1. part'[j].pc = "idle"
      BY <1>3, <1>4, <2>1, OnlyOnePartitions, Zenon
    <3> QED
      BY <3>1, Zenon DEF CycleReaches
  <2>2. CASE j = i
    <3>1. part[i].table = 2 => Reaches("detail", day)
      BY <1>3, Zenon DEF CoverInv, CycleReaches, day
    <3>2. q.table = 2 => ("detail" \in Partitioned => \E p \in parts'["detail"] : p >= day)
      <4>1. ~(x >= day)
        BY <1>3, <1>7
      <4> QED
        BY <1>5, <1>8, <3>1, <4>1, Zenon DEF Reaches
    <3>3. q.pc # "purge"
      BY <1>5
    <3> QED
      BY <1>4, <1>5, <1>11, <2>2, <3>2, <3>3, Zenon DEF CycleReaches, table, day, DayOf, Reaches
  <2> QED
    BY <2>1, <2>2, Zenon
<1>13. \A t \in {"detail", "metrics"} : t \in Partitioned => parts'[t] # {}
  BY <1>8, <1>11, Zenon DEF CoverInv
<1>14. covered' > 0 /\ DayOf(now)' < covered' + Ahead =>
         \A t \in {"detail", "metrics"} : Reaches(t, covered + Ahead)'
  <2> SUFFICES ASSUME covered > 0, DayOf(now) < covered + Ahead, NEW t \in {"detail", "metrics"}
               PROVE  Reaches(t, covered + Ahead)'
    BY <1>1, Zenon DEF DayOf
  <2>1. covered + Ahead \in Nat /\ x < covered + Ahead
    BY <1>3, <1>7, ReportJobAssumption DEF JobShape
  <2>2. Reaches(t, covered + Ahead)
    BY Zenon DEF CoverInv
  <2> QED
    BY <1>1, <1>9, <2>1, <2>2, Zenon DEF Reaches
<1> QED
  BY <1>12, <1>13, <1>14, Zenon DEF CoverInv

\* Every step keeps the days ahead covered.
LEMMA CoverStep == JobShape /\ JobShape' /\ LocksHeld /\ CoverInv /\ [Next]_vars => CoverInv'
<1> SUFFICES ASSUME JobShape, JobShape', LocksHeld, CoverInv, [Next]_vars PROVE CoverInv'
  OBVIOUS
<1>0. now' \in Nat /\ now <= now'
  BY Clock, Zenon DEF JobShape
<1>1. CASE UNCHANGED <<parts, part, covered>>
  BY <1>0, <1>1, CoverKept, Zenon
<1>2. CASE UNCHANGED vars
  BY <1>1, <1>2, Zenon DEF vars
<1>3. CASE Tick
  BY <1>1, <1>3, Zenon DEF Tick
<1>4. ASSUME NEW r \in LogRows, WriteLog(r) PROVE CoverInv'
  BY <1>1, <1>4, Zenon DEF WriteLog
<1>5. ASSUME NEW i \in Instances, AggStart(i) \/ AggLock(i) \/ AggReplace(i) \/ AggFails(i)
      PROVE  CoverInv'
  BY <1>1, <1>5, Zenon DEF AggStart, AggLock, AggReplace, AggFails
<1>6. ASSUME NEW i \in Instances,
             \/ PartLock(i) \/ PartList(i) \/ PartAdd(i) \/ PartDrop(i) \/ PartAltered(i)
             \/ PartPurge(i) \/ PartFails(i)
      PROVE  CoverInv'
  BY <1>6, PartLockCovers, PartListCovers, PartAddCovers, PartDropCovers, PartAlteredCovers,
     PartPurgeCovers, Zenon
<1> QED
  BY <1>2, <1>3, <1>4, <1>5, <1>6, Zenon DEF Next

\* planPartitionAdds and planPartitionDrops: for as many days as it plans ahead after a
\* complete cycle a log and an aggregate row of now find a partition, whatever statements
\* failed since, since a drop takes no boundary later than the day of its plan.
THEOREM DaysAheadCovered == Spec => []CoveredAhead
  BY ShapeStarts, ShapeStep, LocksStart, LocksStep, CoverStarts, CoverStep, InvCovers, PTL DEF Spec

=============================================================================
