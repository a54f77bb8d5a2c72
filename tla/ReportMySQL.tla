---------------------------- MODULE ReportMySQL ----------------------------
(***************************************************************************)
(* The report queries of the MySQL backend (storage/mysqlreport), as       *)
(* operators on the request log detail and the aggregate table metrics.    *)
(***************************************************************************)
EXTENDS ReportQuery

Capabilities == DimensionColumns

metricsWhere(metrics, f) ==
    {r \in metrics : /\ f.start <= r.ts /\ r.ts < f.end
                     /\ \A c \in FilterColumns : In(f.in[c], r.dim[c])}

detailWhere(detail, f) ==
    {r \in detail : /\ f.start <= r.time /\ r.time < f.end
                    /\ \A c \in FilterColumns : In(f.in[c], r.dim[c])}

logWhere(detail, f) ==
    {r \in detailWhere(detail, f) :
        /\ In(f.requested, r.dim["requested_model"])
        /\ f.errOnly => r.err \notin {"", Null}
        /\ f.keyword = Unset \/ r.msg = f.keyword
        /\ \A c \in ExactColumns : f.exact[c] = Unset \/ r.dim[c] = f.exact[c]}

\* FLOOR(ts_min / bucket) * bucket
bucketExpr(ts, bucket) == (ts \div bucket) * bucket

StreamRequests(rows) == CountOf({r \in rows : r.dim["stream"] = "1"})

\* MAX(all_time_sum / request_count), as the rows that can attain it.
LatencyMax(rows) ==
    {<<r.sum["all_time"], r.request_count>> :
        r \in {r \in rows : \A s \in rows :
            s.sum["all_time"] * r.request_count <= r.sum["all_time"] * s.request_count}}

\* buildOverviewMetricsSQL, buildOverviewCostSQL
OverviewMetrics(rows) ==
    [request_total |-> CountOf(rows),
     error_total |-> MapThenSumSet(LAMBDA r : r.error_count, rows),
     sum |-> [c \in Counters |-> SumOf(rows, c)],
     latency_max |-> LatencyMax(rows),
     stream_requests |-> StreamRequests(rows),
     rate_limit_hits |-> MapThenSumSet(LAMBDA r : r.rate_limit_hits, rows),
     auth_rejects |-> MapThenSumSet(LAMBDA r : r.auth_reject_count, rows)]

OverviewCost(rows) ==
    {[currency |-> cur, value |-> SumOf({r \in rows : r.currency = cur}, "cost_value")] :
        cur \in {r.currency : r \in rows} \ {""}}

\* buildOverviewDetailCountsSQL: a NULL column satisfies no comparison.
DetailCounts(rows) ==
    LET Count(c, V) == Cardinality({r \in rows : r.dim[c] \in V})
    IN [hit |-> Count("ai_cache_status", {"hit"}), miss |-> Count("ai_cache_status", {"miss"}),
        skip |-> Count("ai_cache_status", {"skip"}), mirror |-> Count("mirror_hit", {"1"}),
        classified |-> Cardinality({r \in rows :
                            r.dim["ai_intent_answer"] \notin {"", Null, "unknown"}}),
        unknown |-> Count("ai_intent_answer", {"unknown"})]

overviewResultFromRow(row, cost, logs, n) ==
    [row |-> row, cost |-> cost, logs_total |-> logs, counts |-> n,
     error_rate |-> Quotient(row.error_total, row.request_total),
     latency_avg |-> Quotient(row.sum["all_time"], row.request_total),
     ttft_avg |-> Quotient(row.sum["ttft_us"], row.stream_requests * 1000),
     tpot_avg |-> Quotient(row.sum["tpot_us"], row.stream_requests * 1000),
     hit_rate |-> Quotient(n.hit, n.hit + n.miss),
     unknown_rate |-> Quotient(n.unknown, n.classified + n.unknown)]

Overview(detail, metrics, f) ==
    LET rows == metricsWhere(metrics, f)
        logs == detailWhere(detail, f)
    IN overviewResultFromRow(OverviewMetrics(rows), OverviewCost(rows), Cardinality(logs),
                             DetailCounts(logs))

----------------------------------------------------------------------------

\* buildTimeSeriesSQL: a bucket, and the dimension and the currency where they apply.
SeriesKey(r, metric, d, bucket) ==
    [time |-> bucketExpr(r.ts, bucket),
     name |-> IF d = Null THEN "" ELSE r.dim[d],
     currency |-> IF metric = "cost" THEN r.currency ELSE ""]

\* rowToMetricPoint on the sums that timeSeriesMetricFields selects.
rowToMetricPoint(metric, rows, bucket) ==
    CASE metric = "qps"     -> [value |-> <<CountOf(rows), bucket>>]
      [] metric = "tokens"  -> [input |-> <<SumOf(rows, "input_tokens"), bucket>>,
                                output |-> <<SumOf(rows, "output_tokens"), bucket>>,
                                total |-> <<SumOf(rows, "total_tokens"), bucket>>]
      [] metric = "latency" -> [avg |-> Quotient(SumOf(rows, "all_time"), CountOf(rows)),
                                max |-> LatencyMax(rows)]
      [] metric = "ttft"    -> [value |-> Quotient(SumOf(rows, "ttft_us"),
                                                   StreamRequests(rows) * 1000)]
      [] metric = "tpot"    -> [value |-> Quotient(SumOf(rows, "tpot_us"),
                                                   StreamRequests(rows) * 1000)]
      [] metric = "cost"    -> [value |-> <<SumOf(rows, "cost_value"), bucket>>]

\* buildCacheTokensTimeSeriesSQL: UNION ALL of the reads and the writes.
CacheTokensSeries(rows, d, bucket) ==
    LET keys == {SeriesKey(r, "cache_tokens", d, bucket) : r \in rows}
        Arm(kind, c) ==
            {[key |-> k, kind |-> kind,
              point |-> [value |-> <<SumOf({r \in rows :
                             SeriesKey(r, "cache_tokens", d, bucket) = k}, c), bucket>>]] : k \in keys}
    IN Arm("cache_read", "cache_read_tokens") \cup Arm("cache_write", "cache_write_tokens")

TimeSeries(detail, metrics, metric, d, f, bucket) ==
    LET rows == metricsWhere(metrics, f)
        keys == {SeriesKey(r, metric, d, bucket) : r \in rows}
    IN IF d # Null /\ d \notin DimensionColumns THEN Refused
       ELSE IF metric = "cache_tokens" THEN Answer(CacheTokensSeries(rows, d, bucket))
       ELSE Answer({[key |-> k, kind |-> "",
              point |-> rowToMetricPoint(metric,
                  {r \in rows : SeriesKey(r, metric, d, bucket) = k}, bucket)] : k \in keys})

\* IFNULL(col,'') != '': for a number, '' compares as 0.
NotEmpty(d, v) == IF d \in NumericColumns THEN v # "0" ELSE v # ""

\* buildRankingsSQL
Rankings(metrics, d, f, limit) ==
    LET rows == {r \in metricsWhere(metrics, f) : d = "mirror_hit" \/ NotEmpty(d, r.dim[d])}
        Group(v) == {r \in rows : r.dim[d] = v}
    IN IF d \notin DimensionColumns THEN Refused
       ELSE Answer(TopN({[name |-> v, request_count |-> CountOf(Group(v)),
                   error_count |-> MapThenSumSet(LAMBDA r : r.error_count, Group(v)),
                   input_tokens |-> SumOf(Group(v), "input_tokens"),
                   output_tokens |-> SumOf(Group(v), "output_tokens")] :
                      v \in {r.dim[d] : r \in rows}}, limit))

distributionNameExpr(d, v) ==
    CASE d = "status" -> (IF v = "0" THEN "unknown" ELSE v)
      [] d \in {"stream", "mirror_hit"} -> v
      [] d \in {"protocol", "mode", "ai_cache_status", "ai_intent_answer"} ->
            (IF v \in {"", Null} THEN "unknown" ELSE v)
      [] OTHER -> Rejected

distributionRatios(items) ==
    LET total == MapThenSumSet(LAMBDA i : i.request_count, items)
    IN {[name |-> i.name, request_count |-> i.request_count,
         ratio |-> Quotient(i.request_count, total)] : i \in items}

Distribution(metrics, d, f) ==
    LET rows == metricsWhere(metrics, f)
        Name(r) == distributionNameExpr(d, r.dim[d])
        items == {[name |-> n, request_count |-> CountOf({r \in rows : Name(r) = n})] :
                     n \in {Name(r) : r \in rows}}
    IN IF distributionNameExpr(d, "") = Rejected THEN Refused
       ELSE Answer(distributionRatios(items))

\* scanLogRow: what a listed row shows, NULL as null.
scanLogRow(r) == [id |-> r.id, time |-> r.time, dim |-> r.dim, err |-> r.err,
                  currency |-> r.currency, cost |-> <<r.sum["cost_value"], 100000000>>]

\* buildLogsSQL: newest first, one page; the count is of all of them.
LogPages(rows, f) ==
    Pages(rows, IF f.page > 1 THEN (f.page - 1) * f.pageSize ELSE 0, f.pageSize)

Logs(detail, f) ==
    LET rows == logWhere(detail, f)
    IN [total |-> Cardinality(rows),
        items |-> {{scanLogRow(r) : r \in S} : S \in LogPages(rows, f)}]
=============================================================================
