----------------------------- MODULE ReportJob -----------------------------
(***************************************************************************)
(* The maintenance job of the MySQL report database: the minute aggregate  *)
(* (DELETE of the window, then INSERT SELECT, in one transaction) and the  *)
(* daily RANGE partitions of both tables, run by every api instance under  *)
(* MySQL named locks, while log-reader inserts request logs, some of them  *)
(* late.  A named lock belongs to a connection, so a crash frees it.       *)
(*                                                                         *)
(* A partition is its exclusive upper day (partitionInfo.Description after *)
(* parseBoundaryDate); a row lies in the least partition above its day.    *)
(* A table without partitions is purged in batches.                        *)
(***************************************************************************)
EXTENDS ReportQuery, Sequences

CONSTANTS
    Instances,          \* api instances that run the job
    LogRows,            \* request logs that may be written, without their time
    Partitioned,        \* the tables that are partitioned
    Day,                \* units of time in a day
    Ahead,              \* partitionAheadDays
    RetentionDays,      \* 0 keeps everything
    DeleteBatchSize,
    InitDay,            \* the day the tables were created on
    MaxTime,            \* bound: the clock
    MaxLate,            \* bound: how late log-reader writes
    MaxCycles,          \* bound: aggregate and partition cycles
    MaxFaults           \* bound: failed statements and crashes

Free == "free"

ASSUME ReportJobAssumption ==
    /\ Free \notin Instances
    /\ Day \in Nat \ {0} /\ Day % Minute = 0
    /\ Ahead \in Nat \ {0} /\ RetentionDays \in Nat /\ InitDay \in Nat \ {0}

VARIABLES
    now,        \* the clock
    detail,     \* bfe_ai_request_log
    metrics,    \* bfe_ai_metrics_1m
    parts,      \* partitions of each table
    lock,       \* holder of each named lock, or Free
    agg,        \* the aggregate loop of each instance
    part,       \* the partition loop of each instance
    covered,    \* history: the day of the last complete partition cycle, 0 before it
    used        \* cycles and faults so far

vars == <<now, detail, metrics, parts, lock, agg, part, covered, used>>

Idle == [pc |-> "idle"]
Tables == <<"detail", "metrics">>
DayOf(t) == t \div Day
Truncate(t) == (t \div Minute) * Minute

TimeOf(table, r) == IF table = "detail" THEN r.time ELSE r.ts
RowsOf(table) == IF table = "detail" THEN detail ELSE metrics

\* The partition a day belongs to, none when the table ends before it.
PartitionOf(ps, d) == {p \in ps : p > d /\ \A q \in ps : q > d => p <= q}
Accepts(table, t) == table \notin Partitioned \/ PartitionOf(parts[table], DayOf(t)) # {}

Init ==
    /\ now = InitDay * Day
    /\ detail = {} /\ metrics = {}
    /\ parts = [t \in {"detail", "metrics"} |-> IF t \in Partitioned THEN {InitDay} ELSE {}]
    /\ lock = [l \in {"report_agg_job", "report_partition_job"} |-> Free]
    /\ agg = [i \in Instances |-> Idle]
    /\ part = [i \in Instances |-> Idle]
    /\ covered = 0
    /\ used = [cycles |-> 0, faults |-> 0]

----------------------------------------------------------------------------
(* log-reader and the clock.                                               *)

\* A request log with the time of the request and, for the properties, of the insert.
Stamped(r, t) ==
    [c \in DOMAIN r \cup {"time", "written"} |->
        CASE c = "time" -> t [] c = "written" -> now [] OTHER -> r[c]]

\* INSERT ... ON DUPLICATE KEY UPDATE: a repeated write changes nothing; a row no
\* partition accepts is refused (Error 1526).
WriteLog(r) ==
    /\ \A x \in detail : x.id # r.id
    /\ \E late \in 0..MaxLate :
          /\ late <= now /\ Accepts("detail", now - late)
          /\ detail' = detail \cup {Stamped(r, now - late)}
    /\ UNCHANGED <<now, metrics, parts, lock, agg, part, covered, used>>

Tick ==
    /\ now < MaxTime
    /\ now' = now + 1
    /\ UNCHANGED <<detail, metrics, parts, lock, agg, part, covered, used>>

----------------------------------------------------------------------------
(* The aggregate loop.                                                     *)

\* IFNULL on every dimension.
Normalised(r) ==
    [c \in DimensionColumns |->
        IF r.dim[c] = Null THEN (IF c \in NumericColumns THEN "0" ELSE "") ELSE r.dim[c]]

GroupKey(r) == [dim |-> Normalised(r), err |-> IF r.err = Null THEN "" ELSE r.err,
                reject |-> r.reject, currency |-> IF r.currency = Null THEN "" ELSE r.currency]

\* WHERE log_time >= ? AND log_time < ?
Window(rows, ts) == {r \in rows : ts <= r.time /\ r.time < ts + Minute}

\* SELECT ... GROUP BY the dimensions.
Grouped(window, ts) ==
    LET Group(k) == {r \in window : GroupKey(r) = k}
    IN {[ts |-> ts, dim |-> k.dim, err |-> k.err, reject |-> k.reject, currency |-> k.currency,
         request_count |-> Cardinality(Group(k)),
         error_count |-> Cardinality({r \in Group(k) : r.err \notin {"", Null}}),
         auth_reject_count |-> Cardinality({r \in Group(k) : r.reject # ""}),
         rate_limit_hits |-> Cardinality({r \in Group(k) : r.limited}),
         sum |-> [c \in Counters |-> SumOf(Group(k), c)]] :
           k \in {GroupKey(r) : r \in window}}

\* The rows of the minute that starts at ts.
Aggregate(rows, ts) == Grouped(Window(rows, ts), ts)

\* Mutant: the minute that is still running is aggregated.
AggStart_Running(i) ==
    /\ agg[i].pc = "idle" /\ used.cycles < MaxCycles
    /\ agg' = [agg EXCEPT ![i] = [pc |-> "lock", window |-> Truncate(now)]]
    /\ used' = [used EXCEPT !.cycles = @ + 1]
    /\ UNCHANGED <<now, detail, metrics, parts, lock, part, covered>>

\* RunAggregateOnce reads the clock; GET_LOCK(name, 0) comes after it.
AggStart(i) ==
    /\ agg[i].pc = "idle" /\ used.cycles < MaxCycles
    /\ agg' = [agg EXCEPT ![i] = [pc |-> "lock", window |-> Truncate(now) - Minute]]
    /\ used' = [used EXCEPT !.cycles = @ + 1]
    /\ UNCHANGED <<now, detail, metrics, parts, lock, part, covered>>

AggLock(i) ==
    /\ agg[i].pc = "lock"
    /\ IF lock["report_agg_job"] = Free
       THEN /\ lock' = [lock EXCEPT !["report_agg_job"] = i]
            /\ agg' = [agg EXCEPT ![i].pc = "locked"]
       ELSE /\ agg' = [agg EXCEPT ![i] = Idle]
            /\ UNCHANGED lock
    /\ UNCHANGED <<now, detail, metrics, parts, part, covered, used>>

\* BEGIN, DELETE, INSERT SELECT, COMMIT: the DELETE shows at the commit only, the
\* SELECT reads the committed log, an INSERT no partition accepts rolls back; then
\* the deferred RELEASE_LOCK.
AggReplace(i) ==
    /\ agg[i].pc = "locked"
    /\ LET new == Aggregate(detail, agg[i].window)
       IN metrics' = IF \A r \in new : Accepts("metrics", r.ts)
                     THEN {r \in metrics : r.ts # agg[i].window} \cup new
                     ELSE metrics
    /\ agg' = [agg EXCEPT ![i] = Idle]
    /\ lock' = [lock EXCEPT !["report_agg_job"] = Free]
    /\ UNCHANGED <<now, detail, parts, part, covered, used>>

\* A statement fails: rollback, and the lock is released.
AggFails(i) ==
    /\ agg[i].pc \in {"lock", "locked"} /\ used.faults < MaxFaults
    /\ agg' = [agg EXCEPT ![i] = Idle]
    /\ lock' = [l \in DOMAIN lock |->
                   IF l = "report_agg_job" /\ agg[i].pc # "lock" THEN Free ELSE lock[l]]
    /\ used' = [used EXCEPT !.faults = @ + 1]
    /\ UNCHANGED <<now, detail, metrics, parts, part, covered>>

----------------------------------------------------------------------------
(* The partition loop.                                                     *)

retentionCutoff(t) == DayOf(t) - RetentionDays + 1

\* The days of the create-ahead range whose boundary exceeds every boundary.
planPartitionAdds(t, ps) ==
    {d \in DayOf(t)..(DayOf(t) + Ahead - 1) : \A p \in ps : d + 1 > p}

\* Mutant: a partition is dropped on the day its boundary is the second kept day.
planPartitionDrops_OffByOne(t, ps) ==
    IF RetentionDays <= 0 \/ Cardinality(ps) <= 1 THEN {}
    ELSE {p \in ps : p <= retentionCutoff(t) + 1}

\* The partitions that hold expired rows only; the last one is never dropped.
planPartitionDrops(t, ps) ==
    IF RetentionDays <= 0 \/ Cardinality(ps) <= 1 THEN {}
    ELSE {p \in ps : p <= retentionCutoff(t)}

\* GET_LOCK on a connection kept for the cycle; the clock is read under the lock.
PartLock(i) ==
    /\ part[i].pc = "idle" /\ used.cycles < MaxCycles
    /\ used' = [used EXCEPT !.cycles = @ + 1]
    /\ IF lock["report_partition_job"] = Free
       THEN /\ lock' = [lock EXCEPT !["report_partition_job"] = i]
            /\ part' = [part EXCEPT ![i] = [pc |-> "list", at |-> now, table |-> 1]]
       ELSE UNCHANGED <<lock, part>>
    /\ UNCHANGED <<now, detail, metrics, parts, agg, covered>>

\* manageTablePartitions for the next table, or the end of the cycle.
NextTable(i) ==
    IF part[i].table < Len(Tables)
    THEN /\ part' = [part EXCEPT ![i] = [pc |-> "list", at |-> @.at, table |-> @.table + 1]]
         /\ UNCHANGED <<lock, covered>>
    ELSE /\ part' = [part EXCEPT ![i] = Idle]
         /\ lock' = [lock EXCEPT !["report_partition_job"] = Free]
         /\ covered' = DayOf(part[i].at)

\* listPartitions, and both plans from that one list.
PartList(i) ==
    LET table == Tables[part[i].table]
        ps == parts[table]
    IN /\ part[i].pc = "list"
       /\ IF ps = {} /\ RetentionDays <= 0
          THEN NextTable(i)
          ELSE /\ part' = [part EXCEPT ![i] =
                     [pc |-> IF ps = {} THEN "purge" ELSE "alter", at |-> @.at, table |-> @.table,
                      adds |-> planPartitionAdds(@.at, ps), drops |-> planPartitionDrops(@.at, ps)]]
               /\ UNCHANGED <<lock, covered>>
       /\ UNCHANGED <<now, detail, metrics, parts, agg, used>>

\* The ADD PARTITION statements, days ascending, each committed on its own.
PartAdd(i) ==
    /\ part[i].pc = "alter" /\ part[i].adds # {}
    /\ LET d == CHOOSE x \in part[i].adds : \A y \in part[i].adds : x <= y
       IN /\ parts' = [parts EXCEPT ![Tables[part[i].table]] = @ \cup {d + 1}]
          /\ part' = [part EXCEPT ![i].adds = @ \ {d}]
    /\ UNCHANGED <<now, detail, metrics, lock, agg, covered, used>>

\* DROP PARTITION takes the rows of the partition with it.
PartDrop(i) ==
    /\ part[i].pc = "alter" /\ part[i].adds = {} /\ part[i].drops # {}
    /\ LET table == Tables[part[i].table]
           p == CHOOSE x \in part[i].drops : \A y \in part[i].drops : x <= y
           Kept(rows) == {r \in rows : PartitionOf(parts[table], DayOf(TimeOf(table, r))) # {p}}
       IN /\ parts' = [parts EXCEPT ![table] = @ \ {p}]
          /\ part' = [part EXCEPT ![i].drops = @ \ {p}]
          /\ detail' = IF table = "detail" THEN Kept(detail) ELSE detail
          /\ metrics' = IF table = "metrics" THEN Kept(metrics) ELSE metrics
    /\ UNCHANGED <<now, lock, agg, covered, used>>

PartAltered(i) ==
    /\ part[i].pc = "alter" /\ part[i].adds = {} /\ part[i].drops = {}
    /\ NextTable(i)
    /\ UNCHANGED <<now, detail, metrics, parts, agg, used>>

\* purgeBatches: one DELETE ... LIMIT, again until it affects no row.
PartPurge(i) ==
    /\ part[i].pc = "purge"
    /\ LET table == Tables[part[i].table]
           old == {r \in RowsOf(table) : DayOf(TimeOf(table, r)) < retentionCutoff(part[i].at)}
       IN IF old = {}
          THEN NextTable(i) /\ UNCHANGED <<detail, metrics>>
          ELSE /\ \E batch \in SUBSET old :
                     /\ Cardinality(batch) = Min({DeleteBatchSize, Cardinality(old)})
                     /\ detail' = IF table = "detail" THEN detail \ batch ELSE detail
                     /\ metrics' = IF table = "metrics" THEN metrics \ batch ELSE metrics
               /\ UNCHANGED <<lock, part, covered>>
    /\ UNCHANGED <<now, parts, agg, used>>

\* A statement fails, or the five minutes are over: the rest of the cycle is left.
PartFails(i) ==
    /\ part[i].pc # "idle" /\ used.faults < MaxFaults
    /\ part' = [part EXCEPT ![i] = Idle]
    /\ lock' = [lock EXCEPT !["report_partition_job"] = Free]
    /\ used' = [used EXCEPT !.faults = @ + 1]
    /\ UNCHANGED <<now, detail, metrics, parts, agg, covered>>

----------------------------------------------------------------------------

Next ==
    \/ Tick
    \/ \E r \in LogRows : WriteLog(r)
    \/ \E i \in Instances :
          \/ AggStart(i) \/ AggLock(i) \/ AggReplace(i) \/ AggFails(i)
          \/ PartLock(i) \/ PartList(i) \/ PartAdd(i) \/ PartDrop(i) \/ PartAltered(i)
          \/ PartPurge(i) \/ PartFails(i)

Spec == Init /\ [][Next]_vars

----------------------------------------------------------------------------

\* Every loop and every lock is in a state its code has, and a cycle that is past its
\* GET_LOCK holds the named lock.
TypeOK ==
    /\ now \in Nat /\ covered \in Nat
    /\ \A r \in detail : r.time \in Nat /\ r.written >= r.time
    /\ \A r \in metrics : r.ts % Minute = 0 /\ r.request_count \in Nat \ {0}
    /\ \A l \in DOMAIN lock : lock[l] \in Instances \cup {Free}
    /\ \A i \in Instances :
          /\ agg[i].pc = "locked" <=> lock["report_agg_job"] = i
          /\ part[i].pc # "idle" <=> lock["report_partition_job"] = i

\* The minutes log-reader wrote completely before they ended.
OnTime(ts) == \A r \in detail : Truncate(r.time) = ts => r.written < ts + Minute

\* RunAggregateOnce replays a window by DELETE and INSERT in one transaction ("replaying
\* the same window is idempotent"): whatever instances aggregate a minute, however often
\* and with whatever failures between, a minute that has aggregate rows and no late log
\* shows exactly the groups of its logs, never twice and never of a part of it.
AggregatedMinuteExact ==
    \A ts \in {m.ts : m \in metrics} :
        OnTime(ts) /\ DayOf(ts) >= retentionCutoff(now)
            => {m \in metrics : m.ts = ts} = Aggregate(detail, ts)

\* Rows leave the tables only by retention: planPartitionDrops and purgeBatches remove
\* no row of the last RetentionDays days, for any overlap of cycles, days without a
\* cycle (whose rows lie in a later partition) and failed statements.
RetentionKept ==
    [][/\ \A r \in detail \ detail' : RetentionDays > 0 /\ DayOf(r.time) < retentionCutoff(now)
       /\ \A r \in metrics \ metrics' :
              \/ RetentionDays > 0 /\ DayOf(r.ts) < retentionCutoff(now)
              \/ \E i \in Instances : agg[i].pc = "locked" /\ agg[i].window = r.ts]_vars

\* planPartitionAdds covers "data up to now+partitionAheadDays": for as many days after
\* a complete cycle, log-reader's and the aggregate's rows find a partition, though
\* drops planned from the older list run after the adds.
CoveredAhead ==
    covered > 0 /\ DayOf(now) < covered + Ahead
        => \A t \in {"detail", "metrics"} : Accepts(t, now)
=============================================================================
