----------------------------- MODULE MCReports -----------------------------
(***************************************************************************)
(* The report database with its maintenance job, and the queries of the    *)
(* four backends on the tables the job leaves.                             *)
(***************************************************************************)
EXTENDS ReportJob, TLC

CONSTANTS i1, i2

MySQL == INSTANCE ReportMySQL
Doris == INSTANCE ReportDoris
StarRocks == INSTANCE ReportStarRocks
ClickHouse == INSTANCE ReportClickHouse

TwoInstances == {i1, i2}
Symmetry == Permutations(Instances)
DetailPartitioned == {"detail"}

----------------------------------------------------------------------------
(* Three request logs: two of one group, and one with NULL columns.        *)

Columns == DimensionColumns \cup {"ai_intent_question", "ai_intent_source"}

Answered(id, n) ==
    [id |-> id, dim |-> [c \in Columns |->
        CASE c = "status" -> "200" [] c \in {"stream", "mirror_hit"} -> "1"
          [] c = "ai_cache_status" -> "hit" [] c = "ai_intent_answer" -> "code" [] OTHER -> "x"],
     err |-> "", msg |-> "ok", reject |-> "", currency |-> "USD", limited |-> FALSE,
     timed |-> TRUE, sum |-> [c \in Counters |-> n]]

Failed ==
    [id |-> 3, dim |-> [c \in Columns |->
        CASE c \in {"apikey", "host", "requested_model"} -> "y" [] OTHER -> Null],
     err |-> "timeout", msg |-> Null, reject |-> "quota", currency |-> Null, limited |-> TRUE,
     timed |-> FALSE, sum |-> [c \in Counters |-> 0]]

TwoLogs == {Answered(1, 3), Failed}
----------------------------------------------------------------------------
(* The queries.                                                            *)

NoFilter == [c \in FilterColumns |-> {}]
Filters == {NoFilter} \cup {[NoFilter EXCEPT ![f[1]] = {f[2]}] : f \in {<<"apikey", "y">>, <<"status", "200">>}}
Windows == {<<0, MaxTime>>, <<Minute, Truncate(MaxTime) - Minute>>}
Queries ==
    {[start |-> w[1], end |-> w[2], in |-> g, requested |-> {}, errOnly |-> FALSE,
      keyword |-> Unset, exact |-> [c \in ExactColumns |-> Unset], page |-> 1, pageSize |-> 1] :
        w \in Windows, g \in Filters}
LogQueries ==
    {[q EXCEPT !.errOnly = e, !.page = p, !.exact["mirror_hit"] = x] :
        q \in {q \in Queries : q.in = NoFilter}, e \in BOOLEAN, p \in 0..2, x \in {Unset, "1"}}
Bucket(q) == BucketSeconds(q.end - q.start)

\* Queries are put when the clock has stopped and the last cycle is over.
Resting == now = MaxTime /\ used.cycles = MaxCycles /\ \A i \in Instances : agg[i] = Idle /\ part[i] = Idle

\* The report packages of the four databases are kept in step by hand: put to the same
\* tables, with the NULL columns, empty groups and unaligned windows the job leaves, every
\* query has the same answers, and the three with percentiles give the same percentiles.
BackendsAgree ==
    Resting =>
    /\ \A q \in Queries :
          LET o == MySQL!Overview(detail, metrics, q)
              p == Doris!Overview(detail, metrics, q)
          IN /\ p.card = o
             /\ StarRocks!Overview(detail, metrics, q) = p
             /\ ClickHouse!Overview(detail, metrics, q) = p
             /\ \A m \in TimeSeriesMetrics, d \in TimeSeriesDimensions \cup {Null} :
                   LET ts == MySQL!TimeSeries(detail, metrics, m, d, q, Bucket(q))
                   IN /\ Doris!TimeSeries(detail, metrics, m, d, q, Bucket(q)) = ts
                      /\ StarRocks!TimeSeries(detail, metrics, m, d, q, Bucket(q)) = ts
                      /\ ClickHouse!TimeSeries(detail, metrics, m, d, q, Bucket(q)) = ts
             /\ LET l == Doris!LatencyPercentiles(detail, metrics, q, Bucket(q))
                IN /\ StarRocks!LatencyPercentiles(detail, metrics, q, Bucket(q)) = l
                   /\ ClickHouse!LatencyPercentiles(detail, metrics, q, Bucket(q)) = l
             /\ \A d \in RankingDimensions, n \in {0, 1} :
                   LET r == MySQL!Rankings(metrics, d, q, RankLimit(n))
                   IN /\ Doris!Rankings(metrics, d, q, RankLimit(n)) = r
                      /\ StarRocks!Rankings(metrics, d, q, RankLimit(n)) = r
                      /\ ClickHouse!Rankings(metrics, d, q, RankLimit(n)) = r
             /\ \A d \in DistributionDimensions :
                   LET r == MySQL!Distribution(metrics, d, q)
                   IN /\ Doris!Distribution(metrics, d, q) = r
                      /\ StarRocks!Distribution(metrics, d, q) = r
                      /\ ClickHouse!Distribution(metrics, d, q) = r
    /\ \A q \in LogQueries :
          LET l == MySQL!Logs(detail, LogsFilter(q))
          IN /\ Doris!Logs(detail, LogsFilter(q)) = l
             /\ StarRocks!Logs(detail, LogsFilter(q)) = l
             /\ ClickHouse!Logs(detail, LogsFilter(q)) = l

\* The cards come from two tables.  Over a window of whole minutes that are all
\* aggregated, the request total of the aggregate table is the log total of the request
\* log under the same filter (no filter here selects the markers of NULL), so are the
\* sums, and the points of the "qps" series and the shares of a distribution add up to it.
ReportMatchesLog ==
    Resting /\ (\A ts \in 0..(MaxTime - 1) :
                  ts % Minute = 0 => {m \in metrics : m.ts = ts} = Aggregate(detail, ts)) =>
    \A q \in {q \in Queries : q.start % Minute = 0 /\ q.end % Minute = 0} :
        LET o == MySQL!Overview(detail, metrics, q)
            qps == MySQL!TimeSeries(detail, metrics, "qps", Null, q, Bucket(q)).items
            cache == MySQL!Distribution(metrics, "ai_cache_status", q).items
        IN /\ o.row.request_total = o.logs_total
           /\ \A c \in Counters : o.row.sum[c] = SumOf(MySQL!detailWhere(detail, q), c)
           /\ MapThenSumSet(LAMBDA x : x.point.value[1], qps) = o.logs_total
           /\ MapThenSumSet(LAMBDA x : x.request_count, cache) = o.logs_total
           /\ \A x \in cache : x.name = "hit" => x.request_count = o.counts.hit

\* What ReportManager admits (checkBase, the dimension whitelists, the backend's
\* capabilities) no backend then refuses: the lists are kept in three packages.
AdmittedIsAnswered ==
    Resting => \A q \in {q \in Queries : q.in = NoFilter} :
        /\ \A d \in DimensionColumns :
              /\ RankingsAdmitted(MySQL!Capabilities, d, q) =>
                    MySQL!Rankings(metrics, d, q, 1).ok
              /\ DistributionAdmitted(MySQL!Capabilities, d, q) =>
                    MySQL!Distribution(metrics, d, q).ok
              /\ DistributionAdmitted(Doris!Capabilities, d, q) =>
                    Doris!Distribution(metrics, d, q).ok
              /\ DistributionAdmitted(StarRocks!Capabilities, d, q) =>
                    StarRocks!Distribution(metrics, d, q).ok
              /\ DistributionAdmitted(ClickHouse!Capabilities, d, q) =>
                    ClickHouse!Distribution(metrics, d, q).ok
        /\ \A m \in TimeSeriesMetrics, d \in DimensionColumns \cup {Null} :
              TimeSeriesAdmitted(MySQL!Capabilities, m, d, q) =>
                  MySQL!TimeSeries(detail, metrics, m, d, q, Bucket(q)).ok

\* The reports agree: with each other across the four databases, with the request log
\* where all of it is aggregated, and with the requests ReportManager admits.
ReportsAgree == BackendsAgree /\ ReportMatchesLog /\ AdmittedIsAnswered
=============================================================================
