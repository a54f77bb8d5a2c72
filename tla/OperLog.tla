------------------------------ MODULE OperLog ------------------------------
(***************************************************************************)
(* The operation log (model/ioperlog, storage/rdb/ioperlog): entries are   *)
(* put into a bounded channel, a worker inserts them in batches with       *)
(* retries, and totals for the list pages are cached in Redis under a      *)
(* generation that every insert increments.                                *)
(*                                                                         *)
(* Writers are the requests that call Record, one per entry; Readers call  *)
(* List with one fixed filter that matches every entry.                    *)
(***************************************************************************)
EXTENDS Integers, Sequences, FiniteSets, Functions

CONSTANTS
  Entries,     \* the entries recorded, each once
  Readers,     \* requests for the list
  BufferSize,  \* capacity of the channel
  BatchSize,   \* batchSize
  RetryTimes,  \* retryTimes
  Overflow,    \* OverflowStrategy: "sync" or "discard"
  MayClose,    \* Close is called at some time
  Faults,      \* kinds of faults that may happen
  MaxFaults    \* bound: faults in a behaviour

FaultKinds == {"db_fail", "ack_lost", "redis_fail"}

ASSUME ConstantsAssumption ==
  /\ BufferSize \in Nat \ {0} /\ BatchSize \in Nat \ {0} /\ RetryTimes \in Nat \ {0}
  /\ Overflow \in {"sync", "discard"}
  /\ MayClose \in BOOLEAN
  /\ Faults \subseteq FaultKinds /\ MaxFaults \in Nat

VARIABLES
  buffer,   \* the channel
  closed,   \* closeCh is closed
  worker,   \* [pc, batch, tries, then, quiet] of batchWorker
  writer,   \* writer[e]: where the request that records e is
  table,    \* operation_logs, in insertion order
  gen,      \* OPERLOG_COUNT_GEN
  cache,    \* cache[g]: OPERLOG_COUNT:G<g> of the filter, 0 when missing
  reader,   \* [pc, gen, total] of each list request
  dropped,  \* history: entries given up with a warning
  acks,     \* history: inserts that committed and were reported as failed
  faults    \* faults left

vars == <<buffer, closed, worker, writer, table, gen, cache, reader, dropped, acks, faults>>
cacheVars == <<gen, cache, reader>>

Fault(kind) == kind \in Faults /\ faults > 0 /\ faults' = faults - 1

IdleReader == [pc |-> "idle", gen |-> 0, total |-> 0]

Init ==
  /\ buffer = <<>> /\ closed = FALSE
  /\ worker = [pc |-> "select", batch |-> <<>>, tries |-> 0, then |-> "select", quiet |-> FALSE]
  /\ writer = [e \in Entries |-> "new"]
  /\ table = <<>> /\ gen = 0 /\ cache = [g \in {0} |-> 0]
  /\ reader = [r \in Readers |-> IdleReader]
  /\ dropped = {} /\ acks = 0 /\ faults = MaxFaults

-----------------------------------------------------------------------------
(* Record: one select over the channel, closeCh and default. *)

\* There is room: also possible after Close, the select then picks at random.
Enqueue(e) ==
  /\ writer[e] = "new" /\ Len(buffer) < BufferSize
  /\ buffer' = Append(buffer, e)
  /\ writer' = [writer EXCEPT ![e] = "done"]
  /\ UNCHANGED <<closed, worker, table, cacheVars, dropped, acks, faults>>

\* closeCh is closed, or the channel is full and the strategy is sync:
\* RecordSync in the request.
RecordSync(e) ==
  /\ writer[e] = "new"
  /\ closed \/ (Len(buffer) = BufferSize /\ Overflow = "sync")
  /\ writer' = [writer EXCEPT ![e] = "insert"]
  /\ UNCHANGED <<buffer, closed, worker, table, cacheVars, dropped, acks, faults>>

Discard(e) ==
  /\ writer[e] = "new"
  /\ ~closed /\ Len(buffer) = BufferSize /\ Overflow = "discard"
  /\ writer' = [writer EXCEPT ![e] = "done"]
  /\ dropped' = dropped \cup {e}
  /\ UNCHANGED <<buffer, closed, worker, table, cacheVars, acks, faults>>

\* BatchCreate of the one entry; an error is logged and the entry given up.
SyncInsert(e) ==
  /\ writer[e] = "insert"
  /\ table' = Append(table, e)
  /\ writer' = [writer EXCEPT ![e] = "invalidate"]
  /\ UNCHANGED <<buffer, closed, worker, cacheVars, dropped, acks, faults>>

SyncInsertFail(e) ==
  /\ writer[e] = "insert"
  /\ Fault("db_fail")
  /\ writer' = [writer EXCEPT ![e] = "done"]
  /\ dropped' = dropped \cup {e}
  /\ UNCHANGED <<buffer, closed, worker, table, cacheVars, acks>>

-----------------------------------------------------------------------------
(* The count cache. *)

\* invalidate: INCR of the generation, whose error is ignored.
Invalidate ==
  \/ /\ gen' = gen + 1
     /\ cache' = [g \in 0..(gen + 1) |-> IF g \in DOMAIN cache THEN cache[g] ELSE 0]
     /\ UNCHANGED faults
  \/ /\ Fault("redis_fail")
     /\ UNCHANGED <<gen, cache>>

SyncInvalidate(e) ==
  /\ writer[e] = "invalidate"
  /\ Invalidate
  /\ writer' = [writer EXCEPT ![e] = "done"]
  /\ UNCHANGED <<buffer, closed, worker, table, reader, dropped, acks>>

\* countCache.get: the generation ...
GetGeneration(r) ==
  /\ reader[r].pc = "idle"
  /\ reader' = [reader EXCEPT ![r].pc = "get", ![r].gen = gen]
  /\ UNCHANGED <<buffer, closed, worker, writer, table, gen, cache, dropped, acks, faults>>

\* ... then the value, stored plus one so that 0 means a miss.
GetTotal(r) ==
  /\ reader[r].pc = "get"
  /\ reader' = IF cache[reader[r].gen] > 0
               THEN [reader EXCEPT ![r].pc = "served", ![r].total = cache[reader[r].gen] - 1]
               ELSE [reader EXCEPT ![r].pc = "count"]
  /\ UNCHANGED <<buffer, closed, worker, writer, table, gen, cache, dropped, acks, faults>>

\* Any Redis failure is a miss.
GetFail(r) ==
  /\ reader[r].pc = "get"
  /\ Fault("redis_fail")
  /\ reader' = [reader EXCEPT ![r].pc = "count"]
  /\ UNCHANGED <<buffer, closed, worker, writer, table, gen, cache, dropped, acks>>

\* The live count of the table.
LiveCount(r) ==
  /\ reader[r].pc = "count"
  /\ reader' = [reader EXCEPT ![r].pc = "setgen", ![r].total = Len(table)]
  /\ UNCHANGED <<buffer, closed, worker, writer, table, gen, cache, dropped, acks, faults>>

\* countCache.set: the generation is read again, after the count ...
SetGeneration(r) ==
  /\ reader[r].pc = "setgen"
  /\ reader' = [reader EXCEPT ![r].pc = "set", ![r].gen = gen]
  /\ UNCHANGED <<buffer, closed, worker, writer, table, gen, cache, dropped, acks, faults>>

\* ... then SETEX; a failure of either is ignored.
SetTotal(r) ==
  /\ reader[r].pc = "set"
  /\ cache' = [cache EXCEPT ![reader[r].gen] = reader[r].total + 1]
  /\ reader' = [reader EXCEPT ![r].pc = "served"]
  /\ UNCHANGED <<buffer, closed, worker, writer, table, gen, dropped, acks, faults>>

SetFail(r) ==
  /\ reader[r].pc \in {"setgen", "set"}
  /\ Fault("redis_fail")
  /\ reader' = [reader EXCEPT ![r].pc = "served"]
  /\ UNCHANGED <<buffer, closed, worker, writer, table, gen, cache, dropped, acks>>

\* The page is returned; the client asks again.
Serve(r) ==
  /\ reader[r].pc = "served"
  /\ reader' = [reader EXCEPT ![r] = IdleReader]
  /\ UNCHANGED <<buffer, closed, worker, writer, table, gen, cache, dropped, acks, faults>>

\* The TTL of a cached total runs out.
CacheExpire(g) ==
  /\ g \in DOMAIN cache /\ cache[g] > 0
  /\ cache' = [cache EXCEPT ![g] = 0]
  /\ UNCHANGED <<buffer, closed, worker, writer, table, gen, reader, dropped, acks, faults>>

-----------------------------------------------------------------------------
(* batchWorker *)

\* An entry is received, in the loop or while draining; a full batch is
\* flushed at once, an entry restarts the drain timeout.
Receive ==
  /\ worker.pc \in {"select", "drain"} /\ buffer # <<>>
  /\ buffer' = Tail(buffer)
  /\ LET batch == Append(worker.batch, Head(buffer))
     IN  worker' = [worker EXCEPT
                      !.batch = batch, !.quiet = FALSE, !.then = worker.pc,
                      !.pc = IF Len(batch) >= BatchSize THEN "flush" ELSE @]
  /\ UNCHANGED <<closed, writer, table, cacheVars, dropped, acks, faults>>

\* The ticker: flush of a batch that is not empty.
Tick ==
  /\ worker.pc = "select" /\ worker.batch # <<>>
  /\ worker' = [worker EXCEPT !.pc = "flush", !.then = "select"]
  /\ UNCHANGED <<buffer, closed, writer, table, cacheVars, dropped, acks, faults>>

Close ==
  /\ MayClose /\ ~closed
  /\ closed' = TRUE
  /\ UNCHANGED <<buffer, worker, writer, table, cacheVars, dropped, acks, faults>>

StartDrain ==
  /\ worker.pc = "select" /\ closed
  /\ worker' = [worker EXCEPT !.pc = "drain", !.quiet = FALSE]
  /\ UNCHANGED <<buffer, closed, writer, table, cacheVars, dropped, acks, faults>>

\* Nothing arrived for 500 ms: the timer channel is ready ...
DrainTimer ==
  /\ worker.pc = "drain" /\ buffer = <<>> /\ ~worker.quiet
  /\ worker' = [worker EXCEPT !.quiet = TRUE]
  /\ UNCHANGED <<buffer, closed, writer, table, cacheVars, dropped, acks, faults>>

\* Mutant: the worker returns without the last flush.
DrainEnd_NoFlush ==
  /\ worker.pc = "drain" /\ worker.quiet
  /\ worker' = [worker EXCEPT !.pc = "done", !.batch = <<>>]
  /\ UNCHANGED <<buffer, closed, writer, table, cacheVars, dropped, acks, faults>>

\* ... and the select takes it, even if an entry has arrived since: the last
\* flush, and the worker returns.
DrainEnd ==
  /\ worker.pc = "drain" /\ worker.quiet
  /\ worker' = [worker EXCEPT !.pc = IF worker.batch = <<>> THEN "done" ELSE "flush",
                              !.then = "done"]
  /\ UNCHANGED <<buffer, closed, writer, table, cacheVars, dropped, acks, faults>>

\* flushBatch: one INSERT for the whole batch ...
Insert ==
  /\ worker.pc = "flush"
  /\ table' = table \o worker.batch
  /\ worker' = [worker EXCEPT !.pc = "invalidate"]
  /\ UNCHANGED <<buffer, closed, writer, cacheVars, dropped, acks, faults>>

\* ... then the invalidation, and the batch is emptied.
InsertDone ==
  /\ worker.pc = "invalidate"
  /\ Invalidate
  /\ worker' = [worker EXCEPT !.pc = worker.then, !.batch = <<>>, !.tries = 0]
  /\ UNCHANGED <<buffer, closed, writer, table, reader, dropped, acks>>

\* BatchCreate reports an error: the next of RetryTimes attempts, or the
\* batch is given up with a warning.
Retry ==
  IF worker.tries + 1 < RetryTimes
  THEN /\ worker' = [worker EXCEPT !.tries = @ + 1]
       /\ UNCHANGED dropped
  ELSE /\ worker' = [worker EXCEPT !.pc = worker.then, !.batch = <<>>, !.tries = 0]
       /\ dropped' = dropped \cup Range(worker.batch)

\* The INSERT fails,
InsertFail ==
  /\ worker.pc = "flush"
  /\ Fault("db_fail")
  /\ Retry
  /\ UNCHANGED <<buffer, closed, writer, table, cacheVars, acks>>

\* or it commits and the answer is lost.
InsertAckLost ==
  /\ worker.pc = "flush"
  /\ Fault("ack_lost")
  /\ Retry
  /\ table' = table \o worker.batch
  /\ acks' = acks + 1
  /\ UNCHANGED <<buffer, closed, writer, cacheVars>>

-----------------------------------------------------------------------------
WriterStep(e) == Enqueue(e) \/ RecordSync(e) \/ Discard(e) \/ SyncInsert(e) \/ SyncInvalidate(e)
WorkerStep == Receive \/ Tick \/ StartDrain \/ DrainTimer \/ DrainEnd \/ Insert \/ InsertDone
ReaderStep(r) ==
  \/ GetGeneration(r) \/ GetTotal(r) \/ LiveCount(r) \/ SetGeneration(r) \/ SetTotal(r)
  \/ Serve(r)

Next ==
  \/ \E e \in Entries : WriterStep(e) \/ SyncInsertFail(e)
  \/ WorkerStep \/ InsertFail \/ InsertAckLost \/ Close
  \/ \E r \in Readers : ReaderStep(r) \/ GetFail(r) \/ SetFail(r)
  \/ \E g \in 0..gen : CacheExpire(g)

Spec == Init /\ [][Next]_vars

\* The worker goroutine runs and its ticker fires, requests that started go
\* on, keys with a TTL expire.
Fairness ==
  /\ WF_vars(WorkerStep)
  /\ \A e \in Entries : WF_vars(SyncInsert(e)) /\ WF_vars(SyncInvalidate(e))
  /\ \A r \in Readers : WF_vars(ReaderStep(r))
  /\ WF_vars(CacheExpire(gen))

FairSpec == Spec /\ Fairness

-----------------------------------------------------------------------------
(* Properties. *)

WorkerStates ==
  [pc : {"select", "drain", "flush", "invalidate", "done"}, batch : Seq(Entries),
   tries : 0..(RetryTimes - 1), then : {"select", "drain", "done"}, quiet : BOOLEAN]
ReaderStates ==
  [pc : {"idle", "get", "count", "setgen", "set", "served"}, gen : 0..gen, total : Nat]

\* The channel and the batch never exceed their capacities and the counters
\* stay in range.
TypeOK ==
  /\ buffer \in Seq(Entries) /\ Len(buffer) <= BufferSize
  /\ closed \in BOOLEAN
  /\ worker \in WorkerStates
  /\ Len(worker.batch) <= BatchSize
  /\ writer \in [Entries -> {"new", "insert", "invalidate", "done"}]
  /\ table \in Seq(Entries) /\ gen \in Nat /\ cache \in [0..gen -> Nat]
  /\ reader \in [Readers -> ReaderStates]
  /\ dropped \subseteq Entries /\ acks \in Nat
  /\ faults \in 0..MaxFaults

\* No entry disappears without a warning: once Record has returned, the entry
\* is in the channel, in the worker's batch, in the table, or was given up
\* (Record, batchWorker, flushBatch).
Accounted ==
  \A e \in Entries : writer[e] = "done" =>
    e \in Range(buffer) \cup Range(worker.batch) \cup Range(table) \cup dropped

\* An entry has one row, plus at most one for every insert that committed and
\* was reported as failed: retries and reused batches add no others
\* (flushBatch repeats the INSERT of the whole batch).
AtMostOnce ==
  \A e \in Entries : Cardinality({i \in DOMAIN table : table[i] = e}) <= 1 + acks

\* A total that is served was the exact count at some time: it never exceeds
\* the rows of the table (countCache stores totals plus one).
TotalWithinTable ==
  \A r \in Readers : reader[r].pc = "served" => reader[r].total <= Len(table)

\* Every recorded entry is inserted or given up with a warning (the ticker
\* flushes batches that never fill), as long as the worker runs: only an entry
\* that reaches the channel when Close has drained it is left behind.
EventuallyLogged ==
  \A e \in Entries : (writer[e] = "done") ~> (e \in Range(table) \cup dropped \/ worker.pc = "done")

\* Once inserts stop the totals that are served become and stay exact,
\* whatever race stored a stale one: the TTL removes it (countCacheTTL).
TotalsConverge == <>[](\A r \in Readers : reader[r].pc = "served" => reader[r].total = Len(table))
=============================================================================
