---------------------------- MODULE ReportQuery ----------------------------
(***************************************************************************)
(* Report queries: the parameters the endpoints bind, the checks and       *)
(* clamps of ReportManager, and the vocabulary the four storage backends   *)
(* share.  Tables are sets of rows.  A row of the request log carries its  *)
(* columns as the function dim (NULL is the value Null; numeric columns    *)
(* hold their digits) and its counters as the function sum; a row of the   *)
(* aggregate table carries the normalised columns and the sums of one      *)
(* group of one minute.  A quotient is the pair <<numerator, divisor>>.    *)
(***************************************************************************)
EXTENDS Integers, FiniteSets, FiniteSetsExt

CONSTANTS
    Minute,                     \* units of time in a minute
    SixHours, ThreeDays,        \* window lengths at which the bucket widens
    MaxWindow,                  \* longest window
    DefaultRankLimit, MaxRankLimit, DefaultPageSize, MaxPageSize

ASSUME ReportQueryAssumption ==
    /\ Minute \in Nat \ {0} /\ SixHours \in Nat /\ ThreeDays \in Nat /\ MaxWindow \in Nat
    /\ 0 < DefaultRankLimit /\ DefaultRankLimit <= MaxRankLimit
    /\ 0 < DefaultPageSize /\ DefaultPageSize <= MaxPageSize

Null == "NULL"
Unset == "any"            \* a filter that is not given
Rejected == "rejected"

\* What a backend returns: a parameter error, or the answer.
Refused == [ok |-> FALSE]
Answer(x) == [ok |-> TRUE, items |-> x]

\* DimensionColumns: every dimension has its column, of the same name here.
DimensionColumns ==
    {"model", "requested_model", "provider", "apikey", "host", "status", "protocol",
     "mode", "stream", "ai_cache_status", "mirror_hit", "ai_intent_answer"}
NumericColumns == {"status", "stream", "mirror_hit"}
RankingDimensions == DimensionColumns \ {"stream"}
DistributionDimensions ==
    {"status", "protocol", "mode", "stream", "ai_cache_status", "mirror_hit",
     "ai_intent_answer"}
TimeSeriesDimensions == {"ai_cache_status", "mirror_hit", "ai_intent_answer"}
TimeSeriesMetrics == {"qps", "tokens", "latency", "ttft", "tpot", "cost", "cache_tokens"}

\* The counters of a request.
Counters == {"input_tokens", "output_tokens", "total_tokens", "all_time", "ttft_us",
             "tpot_us", "cost_value", "cache_read_tokens", "cache_write_tokens"}

\* Columns a shared filter can restrict, and the exact matches of the log list.
FilterColumns == {"model", "apikey", "provider", "host", "stream", "status"}
ExactColumns == {"ai_cache_status", "mirror_hit", "ai_intent_question",
                 "ai_intent_answer", "ai_intent_source"}

----------------------------------------------------------------------------
(* SQL, as far as the backends use it.                                     *)

\* COL IN (...): not given when empty, false for NULL.
In(vals, v) == vals = {} \/ v \in vals
SumOf(rows, c) == MapThenSumSet(LAMBDA r : r.sum[c], rows)
CountOf(rows) == MapThenSumSet(LAMBDA r : r.request_count, rows)

\* ORDER BY request_count DESC LIMIT n: the answers the order of ties leaves open.
TopN(items, n) ==
    {S \in kSubset(IF n < Cardinality(items) THEN n ELSE Cardinality(items), items) :
        \A x \in S, y \in items \ S : x.request_count >= y.request_count}

\* ORDER BY log_time DESC LIMIT n OFFSET o, likewise.
Pages(rows, o, n) ==
    {S \in SUBSET rows :
        \E before \in SUBSET (rows \ S) :
            LET after == (rows \ S) \ before
            IN /\ Cardinality(before) = (IF o < Cardinality(rows) THEN o ELSE Cardinality(rows))
               /\ Cardinality(S) = n \/ (Cardinality(S) < n /\ after = {})
               /\ \A x \in before, y \in S : x.time >= y.time
               /\ \A x \in S \cup before, y \in after : x.time >= y.time}

Quotient(n, d) == IF d > 0 THEN <<n, d>> ELSE <<0, 1>>

----------------------------------------------------------------------------
(* ReportManager.                                                          *)

checkBase(f) == f.start < f.end /\ f.end - f.start <= MaxWindow

BucketSeconds(window) ==
    CASE window <= SixHours  -> Minute
      [] window <= ThreeDays -> 5 * Minute
      [] OTHER               -> 30 * Minute

checkDimensionSupported(caps, d) == d \in caps

\* TimeSeries: no dimension, or one of the three the series can be split by.
TimeSeriesAdmitted(caps, metric, d, f) ==
    /\ checkBase(f) /\ metric \in TimeSeriesMetrics
    /\ d = Null \/ (d \in TimeSeriesDimensions /\ checkDimensionSupported(caps, d))

RankingsAdmitted(caps, d, f) ==
    checkBase(f) /\ d \in RankingDimensions /\ checkDimensionSupported(caps, d)

RankLimit(limit) ==
    CASE limit <= 0 -> DefaultRankLimit
      [] limit > MaxRankLimit -> MaxRankLimit
      [] OTHER -> limit

DistributionAdmitted(caps, d, f) ==
    checkBase(f) /\ d \in DistributionDimensions /\ checkDimensionSupported(caps, d)

\* Logs: page and page size default and are bounded.
LogsFilter(q) ==
    [q EXCEPT !.page = IF @ <= 0 THEN 1 ELSE @,
              !.pageSize = CASE @ <= 0 -> DefaultPageSize
                             [] @ > MaxPageSize -> MaxPageSize
                             [] OTHER -> @]
=============================================================================
